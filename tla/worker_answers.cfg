CONSTANTS
  Requests = {r1, r2, r3}
  None = None
  NoReading = NoReading
  Kind = "transformers"
  Faults = {}
  CancelAt = 85
  TerminateAt = 90
  Temps <- LiveTemps
  RequiredMemory = 104
  Memory <- LiveMemory
SPECIFICATION FairSpec
PROPERTIES
  EveryRequestAnswered
  EndOfInputEndsProcess
  HeatEndsGeneration
