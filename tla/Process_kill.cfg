CONSTANTS
    NPROC = 3
    CPU = {c1, c2}
    NoCPU = NoCPU
    MaxPid = 4
    KillPids = {0, 2}
SPECIFICATION Spec
PROPERTY BornUnkilled
