CONSTANTS
    Writer = {w1}
    Reader = {r1}
    Nobody = Nobody
    Byte = {a}
    PIPESIZE = 2
    WordMod = 4
    MaxN = 1
SPECIFICATION KernelSpec
PROPERTY KilledReturns
\* Every process may close its end and stop.
CHECK_DEADLOCK FALSE
