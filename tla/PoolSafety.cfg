SPECIFICATION Spec
CONSTANTS
  Worker = {a, b, c, d}
  NoOne = NoOne
  MinWorkers = 0
  MaxWorkers = 1
  ScaleCallers = {p, q}
  Targets = {1, 4}
  MaxPending = 3
  MaxStarts = 1
SYMMETRY PoolSymmetry
INVARIANTS
  TypeOK
  CounterExact
  OvershootBound
