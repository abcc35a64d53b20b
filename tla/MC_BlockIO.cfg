\* Two processes that hold up to two of three blocks at once, in two buffers; block 1 is
\* written, one buffer may be pinned by the log.  A panic stops the machine.
SPECIFICATION FairSpec
CONSTANTS
  p1 = p1
  p2 = p2
  x1 = x1
  x2 = x2
  Procs = {p1, p2}
  Blocks = {1, 2, 3}
  Values = {0, 1}
  Writable = {1}
  Bufs = {x1, x2}
  NoBlock = NoBlock
  Nobody = Nobody
  Drivers = {"ide", "memide"}
  DiskErrors = FALSE
  MaxHeld = 2
  MaxPinned = 1
INVARIANTS CacheIsConsistent
PROPERTIES RefinesBlockStore BreadReturns
CHECK_DEADLOCK FALSE
