CONSTANTS
  Requests = {r1, r2, r3, r4}
  None = None
  NoReading = NoReading
  Kind = "transformers"
  Faults = {}
  CancelAt = 85
  TerminateAt = 90
  Temps <- MCTemps
  RequiredMemory = 104
  Memory <- MCMemory
SPECIFICATION Spec
SYMMETRY Symmetry
INVARIANTS
  TypeOK
  ModelInUseStays
  PublishedIsLoaded
  CancelHasCause
  AnsweredIsOver
  MonitorCoversTask
PROPERTY CancelIsKept
