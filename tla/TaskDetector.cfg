SPECIFICATION FairSpec
CONSTANTS
  w1 = w1
  w2 = w2
  p1 = p1
  p2 = p2
  t1 = t1
  t2 = t2
  NoWorker = NoWorker
  NoTask = NoTask
  Tasks = {t1}
  Pools = {p1, p2}
  Workers = {w1, w2}
  PoolOf <- OneWorkerEach
  TaskTypes = {"command"}
  TypeOf <- OneType
  Endless = {}
  MaxRetries <- Retry1
  EnqueueStatuses = {"unset"}
  StuckDetection = "on"
  MaxFaults = 1
  MaxOutages = 2
INVARIANTS
  TypeOK
  ExclusiveExecution
  RunningIsHeld
PROPERTIES
  SettledStays
  EnqueuedTasksSettle
CHECK_DEADLOCK FALSE
