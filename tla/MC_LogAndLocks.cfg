\* The log is the one that mkfs makes: LOGSIZE blocks with the header.  Calls write one block
\* less than begin_op() reserves; two that overlap make a transaction of two blocks.
\* Locks: two CPUs, two processes, the lottery kernel and the round-robin kernel.
SPECIFICATION MCSpec
CONSTANTS
  p1 = p1
  p2 = p2
  Procs = {p1, p2}
  b1 = b1
  b2 = b2
  b3 = b3
  Blocks = {b1, b2, b3}
  NoBlock = NoBlock
  Values = {0, 1}
  InitialValue = 0
  MAXOPBLOCKS = 2
  OpBlocks = 1
  LOGSIZE = 4
  LogBlocks = 4
  NCPU = 2
  NPROC = 2
  Kernels = {"lottery", "round-robin"}
INVARIANTS LogIsConsistent LocksAreSafe
PROPERTIES RefinesAtomicDisk NobodyIsShutOut
CHECK_DEADLOCK FALSE
