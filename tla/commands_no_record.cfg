CONSTANTS
  Controllers = {a, b}
  None = None
  Turns = 2
  Faults = {}
SPECIFICATION Spec
INVARIANT EveryCommandRecorded
CHECK_DEADLOCK FALSE
