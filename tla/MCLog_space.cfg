SPECIFICATION FairSpec
CONSTANTS
    Proc = {p1, p2}
    InitProc = p1
    Block = {b1, b2, b3, b4}
    Value = {v0}
    Zero = v0
    Nil = Nil
    MAXOPBLOCKS = 2
    MaxOpWrites = 1
    LOGSIZE = 4
    NLOG = 4
    BSIZE = 512
INVARIANT LogFits
PROPERTY LogProgress
