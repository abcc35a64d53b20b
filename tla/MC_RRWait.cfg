\* Five slots: init, the test and three children.
SPECIFICATION Spec
CONSTANTS
  NPROC = 5
  NOFILE = 3
  PIPESIZE = 1
  MaxFailed = 0
  Runs <- MCForktest
  Scripts <- MCNoScript
INVARIANTS ChildlessWaitReturns
CHECK_DEADLOCK FALSE
