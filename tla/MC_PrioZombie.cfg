\* Everything wakeup1() does; a queue that never fills.
SPECIFICATION Spec
CONSTANTS
  NPROC = 3
  MAX_PROCS = 64
  NCPU = 1
  LOWEST = 3
  SHORT = 2
  ch = ch
  Chans = {ch}
  PriorityArgs = {3}
  AGE = 1
  HIGH_PID = 2
  MaxPid = 3
INVARIANT ZombieNeverRuns
CHECK_DEADLOCK FALSE
