SPECIFICATION AnySpec
CONSTANTS
  parent = "p1"
  child = "p2"
  Procs = {"p1", "p2"}
  Nobody = Nobody
  NINODES = 4
  NBLOCKS = 3
  NINODE = 4
  Names = {"d", "f"}
  Others <- MCNoOthers
  Calls <- MCTwoCalls
  MaxCalls = 2
PROPERTIES CallsReturn
CHECK_DEADLOCK FALSE
