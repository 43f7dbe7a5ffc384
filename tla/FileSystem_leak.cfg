SPECIFICATION Spec
CONSTANTS
    p1 = p1
    p2 = p2
    None = None
    a = a
    Proc = {p1, p2}
    Name = {a}
    NINODES = 4
    NINODE = 3
    NFILE = 1
    NOFILE = 1
    Dots = {}
    LinkDots = {}
    MaxCalls = 2
    Calls = {"mkdir", "unlink"}
SYMMETRY Symmetry
INVARIANT OrphanHeld
