CONSTANTS
  Calls = {c1, c2}
  None = None
  MaxStarts = 2
  Faults = {"late_reader"}
SPECIFICATION Spec
INVARIANT CrashBlamesItsWorker
CHECK_DEADLOCK FALSE
