SPECIFICATION SafetySpec
CONSTANTS
  \* Pipe
  Writer = {w1}
  Reader = {r1, r2}
  Nobody = Nobody
  Byte = {a, b}
  PIPESIZE = 1
  WordMod = 2
  MaxN = 2
  \* Spinlock
  CPU = {c1, c2}
  Thread = {t1, t2}
  NoCpu = NoCpu
  Ptable = 2
  \* Console
  ConsoleReader = {p1}
  NoReader = NoReader
  Plain = {"a"}
  Newline = "n"
  Eof = "D"
  Blank = " "
  INPUT_BUF = 3
  Wrap = 6
  Columns = 2
  Rows = 2
  MaxRead = 2
  \* Clock
  Sleeper = {p1, p2}
  TickWord = 3
  \* Memory
  MProc = {1, 2}
  NPAGES = 12
  PGSIZE = 2
  KERNBASE = 8
  NPTENTRIES = 2
  Word = 16
  MaxSegments = 2
  \* FileData
  FProc = {p1, p2}
  Handles = {1}
  Inode = {0, 1}
  NBLOCKS = 5
  BSIZE = 2
  NDIRECT = 2
  NINDIRECT = 2
  MAXOPBLOCKS = 6
  Counts = {3, 8}
  \* KernelLib
  LWord = 16
  LWidth = 2
  LTop = 8
  MaxFormat = 4
  \* Heap
  HEAP = 12
  CORE = 4
  Units = {2, 3, 5}
  \* Mkfs
  KFSSIZE = 16
  KMETA = 4
  KINODES = 5
  KBSIZE = 2
  KDIRECT = 2
  KINDIRECT = 2
  KFiles = 4
  \* Grep
  GBUF = 3
  MaxText = 3
  MaxPattern = 3
  \* MyStrings
  StreamLen = 5
  buf_size = 3
INVARIANTS
    EventsSeen NoUseAfterFree SpinExclusive InterruptsRight ConsoleRight SleepExact MemoryExact
    BitmapExact FileRight HeapWhole ImageRight 
PROPERTIES
     ImplementsTerminal FailureKeepsImage
CHECK_DEADLOCK FALSE
