CONSTANTS
  Calls = {c1, c2}
  None = None
  MaxStarts = 1
  Faults = {"slow_exit"}
SPECIFICATION FairSpec
PROPERTIES
  CrashUnblocks
  StopReturns
CHECK_DEADLOCK FALSE
