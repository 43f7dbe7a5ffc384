SPECIFICATION Spec
CONSTANTS
    Proc = {p1, p2}
    InitProc = p1
    Block = {b1, b2}
    Value = {v0, v1}
    Zero = v0
    Nil = Nil
    MAXOPBLOCKS = 3
    MaxOpWrites = 2
    LOGSIZE = 6
    NLOG = 6
    BSIZE = 512
INVARIANT CommitAlone
PROPERTY AtomicCommit
