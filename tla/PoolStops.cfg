SPECIFICATION FairSpec
CONSTANTS
  Worker = {a, b}
  NoOne = NoOne
  MinWorkers = 1
  MaxWorkers = 1
  ScaleCallers = {p}
  Targets = {1}
  MaxPending = 3
  MaxStarts = 2
INVARIANTS
  NoTaskAfterGracefulStop
PROPERTIES
  ToldWorkersLeave
