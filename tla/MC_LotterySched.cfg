\* Three slots, two CPUs, one wait channel besides the process pointers; three pids, so
\* that a slot is used again.  One ticket count: which process is drawn is open anyway; draws
\* from tickets that change meanwhile are in LotteryDraw.
SPECIFICATION FairSpec
CONSTANTS
  NPROC = 3
  MAX_PROCS = 3
  NCPU = 2
  ch = ch
  Chans = {ch}
  TicketArgs = {1}
  MaxPid = 3
INVARIANTS TypeOK QueueMatchesState CpuMatchesState SelectionStaysValid NoPanic FamiliesStayWhole
PROPERTIES RefinesLifecycle TableLockReleased
CHECK_DEADLOCK FALSE
