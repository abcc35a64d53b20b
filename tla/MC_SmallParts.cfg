\* Boot: three CPUs, of which any may boot.  Words of four bits for the arguments, of
\* eight for printint().  Programs: eight slots, and one fork() that finds no memory.  The lengths
\* of paths, lines and patterns are in characters.
SPECIFICATION Spec
CONSTANTS
  NCPU = 3
  LOW = 3
  HIGH = 1
  Procs = {1, 2}
  Files = {"f1", "f2"}
  NoFileYet = NoFileYet
  NBLOCKS = 6
  BSIZE = 2
  BPB = 3
  NDIRECT = 1
  NINDIRECT = 2
  MAXOPBLOCKS = 6
  Lengths = {4}
  MaxImage = 2
  MaxCalls = 3
  parent = 1
  child = 2
  testfile = "f1"
  ARGWORD = 16
  KERNBASE = 8
  INT = 2
  MaxArg = 1
  DIRSIZ = 2
  MaxPath = 7
  BYTES = 6
  INTWORD = 256
  Bases = {10, 16}
  Keys = {"lshift", "rctl", "lctl", "capslock", "letter", "up"}
  MaxWire = 4
  MaxHeld = 2
  TOP = 8
  CORE = 3
  MaxUnits = 4
  MaxLine = 5
  MAXARGS = 3
  BUF = 4
  MaxPattern = 4
  MaxShort = 3
  MaxText = 6
  NPROC = 8
  NOFILE = 7
  PIPESIZE = 2
  MaxFailed = 1
  ROWS = 4
  COLS = 2
  Letters = {"a", "b"}
  MaxTyped = 3
  MaxPut = 7
  Cpus = {"c1", "c2", "c3"}
  NoCpu = NoCpu
  LEN = 2
  MaxMessages = 3
  PGSIZE = 24
  MAXARG = 3
  STACKWORD = 2
  ArgLengths = {0, 1, 2, 5, 6, 9}
  DPB = 2
  nmeta = 3
  NBITS = 12
  Runs <- MCRuns
  Scripts <- MCScripts
INVARIANTS StartIsSafe BlocksAreConsistent ArgumentsAreIntact ConsoleIsFaithful HeapIsConsistent TextIsUnderstood ProgramsWork
PROPERTIES RefinesByteFiles
CHECK_DEADLOCK FALSE
