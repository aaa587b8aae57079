\* Two clients want the same node, which may die or hang, or send part of a chunk.
SPECIFICATION FairSpec
CONSTANTS
  n1 = n1
  n2 = n2
  c1 = c1
  c2 = c2
  None = None
  Nodes <- OneNode
  Callers <- TwoClients
  Ticks <- OneTick
  QueueCapacity = 1
  WireCapacity = 1
  MayCrash = TRUE
  CutChunks = TRUE
INVARIANTS
  TypeOK
  BusyEnds
PROPERTIES
  RunsAreStreamed
  ClientEnds
