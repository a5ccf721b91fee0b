CONSTANTS
  Controllers = {a, b}
  None = None
  Turns = 2
  Faults = {"kill", "disk", "crash", "stuck"}
SPECIFICATION FairSpec
INVARIANTS
  TypeOK
  OneModelPerDirectory
  ModelIsNamed
  NoWorkerLeft
  RecordLostByFailureOnly
  CompletedOnOneModel
PROPERTIES
  CommandEnds
  OrphanLeaves
  ImplementsModelLease
CHECK_DEADLOCK FALSE
