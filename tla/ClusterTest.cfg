\* One client, two nodes, two ticks.
SPECIFICATION Spec
CONSTANTS
  n1 = n1
  n2 = n2
  c1 = c1
  c2 = c2
  None = None
  Nodes <- TwoNodes
  Callers <- OneClient
  Ticks <- TwoTicks
  QueueCapacity = 1
  WireCapacity = 1
  MayCrash = FALSE
  CutChunks = FALSE
SYMMETRY Symmetry
INVARIANTS
  AggregatesAllNodes
  NothingLeftBehind
  BadTickEndsTest
