SPECIFICATION TestSpec
CONSTANTS
  parent = "p1"
  child = "p2"
  Procs = {"p1", "p2"}
  Nobody = Nobody
  NINODES = 10
  NBLOCKS = 9
  NINODE = 5
  Names = {"d", "f", "a", "b", "x", "xx", "dd", "ff", "ffff"}
  Others <- MCOthers
  Calls <- MCCalls
  MaxCalls = 2
INVARIANTS FilesAreConsistent TestsPass
PROPERTIES CallsReturnOrCircle
CHECK_DEADLOCK FALSE
