SPECIFICATION WaitFairSpec
CONSTANTS
  w1 = w1
  w2 = w2
  p1 = p1
  p2 = p2
  t1 = t1
  NoWorker = NoWorker
  NoTask = NoTask
  Tasks = {t1}
  Pools = {p1, p2}
  Workers = {w1, w2}
  PoolOf <- OneWorkerEach
  TaskTypes = {"command"}
  TypeOf <- OneType
  Endless = {}
  MaxRetries <- Retry1
  EnqueueStatuses = {"unset"}
  StuckDetection = "off"
  MaxFaults = 1
  MaxOutages = 2
  TaskIDs <- SameTwice
  Home = p1
INVARIANTS
  AttemptsWithinBudget
  GivenUpOnlyWhenExhausted
  ReportedOutcomeStands
  ReturnedIsComplete
PROPERTIES
  TerminalIsFinal
  CheckpointSurvivesRetry
  ImplementsLifecycle
  WaitMultipleReturns
CHECK_DEADLOCK FALSE
