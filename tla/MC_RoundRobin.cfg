\* Two CPUs, three slots, four pids, so that a slot is used again.
SPECIFICATION FairSpec
CONSTANTS
  NPROC = 3
  NCPU = 2
  ch = ch
  Chans = {ch}
  MaxPid = 4
INVARIANTS StaysConsistent
PROPERTIES RefinesLifecycle NoStarvation
CHECK_DEADLOCK FALSE
