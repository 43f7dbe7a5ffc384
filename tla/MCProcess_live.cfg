CONSTANTS
    NPROC = 2
    CPU = {c1, c2}
    NoCPU = NoCPU
    MaxPid = 3
    KillPids = {2}
SPECIFICATION FairSpec
PROPERTIES Scheduled  
\* "init exiting" stops the machine.
CHECK_DEADLOCK FALSE
