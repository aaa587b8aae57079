\* Two calls whose busy checks do not overlap; a caller may stop receiving, so that Send
\* blocks until the stream breaks.
SPECIFICATION SerialSpec
CONSTANTS
  n1 = n1
  c1 = c1
  c2 = c2
  None = None
  Nodes <- OneNode
  Callers <- TwoCallers
  Ticks <- TwoTicks
  QueueCapacity = 1
  WireCapacity = 1
  MayCrash = FALSE
INVARIANTS
  OneRunAtATime
PROPERTIES
  NodeFreesItself
