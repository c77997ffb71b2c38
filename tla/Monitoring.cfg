SPECIFICATION FairSpec
CONSTANTS
  Tasks = {t1}
  Workers = {w1, w2}
  Loops = {l1, l2}
  None = None
  Activities <- Behaviours
  MaxSnapshots = 6
  MaxUse = 2
INVARIANTS
  TypeOK
  MonitorsMatchLoops
  NoMonitorWithoutExecution
  UnmonitoredOnlyAfterOverlap
  SilentIsStuck
  EndlessIsStricter
PROPERTIES
  StoppedLoopsExit
CHECK_DEADLOCK FALSE
