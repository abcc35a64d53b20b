\* Two CPUs, three slots, three pids of which the last is a high one.  Priorities 0 and 1, 1 is
\* the short-lived one; a process ages on every pass.
SPECIFICATION SpecNoLift
CONSTANTS
  NPROC = 3
  MAX_PROCS = 3
  NCPU = 2
  LOWEST = 1
  SHORT = 1
  ch = ch
  Chans = {ch}
  PriorityArgs = {1}
  AGE = 1
  HIGH_PID = 2
  MaxPid = 3
INVARIANTS StaysConsistent
PROPERTIES RefinesLifecycle 
CHECK_DEADLOCK FALSE
