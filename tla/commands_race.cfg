CONSTANTS
  Controllers = {a, b}
  None = None
  Turns = 2
  Faults = {"concurrent"}
SPECIFICATION Spec
INVARIANT OneModelPerDirectory
CHECK_DEADLOCK FALSE
