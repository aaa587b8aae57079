\* The run of one node fails, that of the other goes on.
SPECIFICATION UntimedSpec
CONSTANTS
  n1 = n1
  n2 = n2
  c1 = c1
  c2 = c2
  None = None
  Nodes <- TwoNodes
  Callers <- OneClient
  Ticks <- OneTick
  QueueCapacity = 1
  WireCapacity = 1
  MayCrash = FALSE
  CutChunks = FALSE
PROPERTIES
  OthersCancelled
\* Without the end of the test time a client may wait for ever.
CHECK_DEADLOCK FALSE
