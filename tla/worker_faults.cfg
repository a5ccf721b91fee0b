CONSTANTS
  Requests = {r1, r2, r3}
  None = None
  NoReading = NoReading
  Kind = "transformers"
  Faults = {"late_join", "unload_raises", "oversize_result"}
  CancelAt = 85
  TerminateAt = 90
  Temps <- MCTemps
  RequiredMemory = 104
  Memory <- MCMemory
SPECIFICATION Spec
SYMMETRY Symmetry
INVARIANTS
  OneTaskAtATime
  OneModelLoaded
  NoOrphanModel
  HotReplyIsUnloaded
PROPERTIES
  ImplementsModelSlot
  ImplementsWorkerProcess
