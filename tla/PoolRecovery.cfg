SPECIFICATION ScalingSpec
CONSTANTS
  Worker = {a, b}
  NoOne = NoOne
  MinWorkers = 1
  MaxWorkers = 2
  ScaleCallers = {p}
  Targets = {2}
  MaxPending = 3
  MaxStarts = 1
PROPERTIES
  MinWorkersRestored
