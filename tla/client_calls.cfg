CONSTANTS
  Calls = {c1, c2}
  None = None
  MaxStarts = 2
  Faults = {}
SPECIFICATION Spec
SYMMETRY Symmetry
INVARIANTS
  TypeOK
  AnsweredNotBlamed
  HardStopIsNamed
  CrashBlamesItsWorker
  LiveWorkerIsRecorded
PROPERTIES
  ImplementsRemoteCall
CHECK_DEADLOCK FALSE
