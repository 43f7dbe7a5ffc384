SPECIFICATION ProgressSpec
CONSTANTS
  \* Sleeplock
  Proc = {p1, p2, p3}
  None = None
  \* BufferCache
  BProc = {p1, p2}
  BNone = BNone
  BBlock = {b1, b2, b3, b4}
  Written = {b1}
  Unreadable = {b2}
  NBUF = 3
  MaxPinned = 1
  \* ShellParse and Plumbing
  MAXARGS = 3
  MaxTokens = 5
  NPROCS = 6
  NPIPES = 2
  NOFILES = 7
  PIPESIZE = 1
  Lines <- TypedLines
  MaxLines = 1
  \* MergeSplit
  NFILES = 2
  MaxBytes = 5
  MBUF = 2
  SBUF = 2
INVARIANTS
    MutualExclusion NoLostWakeup OneBufferPerBlock  
    ParseRight StartsRight 
PROPERTIES
    LockProgress RequestServed 
CHECK_DEADLOCK FALSE
