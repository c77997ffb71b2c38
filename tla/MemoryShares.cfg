SPECIFICATION Spec
CONSTANTS
  a = a
  b = b
  c = c
  NoTask = NoTask
  Tasks = {a, b, c}
  Weight <- TaskWeights
  Need <- TaskNeeds
  Readings <- FreeResources
  NoReading = NoReading
  WorkerCounts = {0, 2}
  MaxClock = 1
  MaxEntries = 4
INVARIANTS
  ClaimHasResources
