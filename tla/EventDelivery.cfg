SPECIFICATION FairSpec
CONSTANTS
  Events = {e1, e2, e3}
  Callers = {c1, c2}
  Loops = {l1, l2}
  NoEvent = NoEvent
  AsyncPublish = TRUE
  BufferSize = 2
INVARIANTS
  TypeOK
  StopFlushes
  BufferedInOrder
  HandedOverOnce
PROPERTIES
  AcceptedIsPublished
  StopTerminates
CHECK_DEADLOCK FALSE
