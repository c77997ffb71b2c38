SPECIFICATION Spec
CONSTANTS
  Tasks = {t1}
  Workers = {w1, w2}
  Loops = {l1}
  NoEvent = NoEvent
  NoTask = NoTask
  BufferSize = 1
  MaxRetries = 1
  MaxDisturbances = 0
SYMMETRY WorkerSymmetry
INVARIANTS
  RetryingShowsRequeue
CHECK_DEADLOCK FALSE
