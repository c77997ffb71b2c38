SPECIFICATION Spec
CONSTANTS
  Tasks = {t1}
  Workers = {w1, w2}
  Loops = {l1}
  NoEvent = NoEvent
  NoTask = NoTask
  BufferSize = 1
  MaxRetries = 1
  MaxDisturbances = 1
SYMMETRY WorkerSymmetry
INVARIANTS
  TypeOK
  LifecycleOrder
  AnnouncedOnce
  
  StaleDepthExplained
PROPERTIES
  ImplementsLifecycle
CHECK_DEADLOCK FALSE
