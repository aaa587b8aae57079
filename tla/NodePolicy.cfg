\* Two calls pass the busy check before either sets the flag.
SPECIFICATION NodeSpec
CONSTANTS
  n1 = n1
  c1 = c1
  c2 = c2
  None = None
  Nodes <- OneNode
  Callers <- TwoCallers
  Ticks <- TwoTicks
  QueueCapacity = 1
  WireCapacity = 1
  MayCrash = FALSE
SYMMETRY CallerSymmetry
INVARIANTS
  OneRunnerPerNode
