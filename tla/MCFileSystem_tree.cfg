SPECIFICATION Spec
CONSTANTS
    p1 = p1
    p2 = p2
    None = None
    a = a
    b = b
    Proc = {p1, p2}
    Name = {a, b}
    NINODES = 4
    NINODE = 3
    NFILE = 1
    NOFILE = 2
    Dots = {}
    LinkDots = {}
    MaxCalls = 3
    Calls = {"fstat", "mknod", "dup", "open", "mkdir", "unlink", "link", "chdir", "close", "fork"}
SYMMETRY Symmetry
CONSTRAINTS
    MknodLast ExitEarly
INVARIANTS
    InodesExact 
PROPERTIES
    OpenFileKept
