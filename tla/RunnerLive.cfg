\* The end of a streamed run with fair goroutines, which nobody has to end.  Two
\* attackers fill their ticks out of order, results has room for one, and the run scales
\* to a third attacker, also when the tick that scales it has cancelled it.
SPECIFICATION FairSpec
CONSTANTS
  a1 = a1
  a2 = a2
  a3 = a3
  Attackers <- Pool3
  InitialAttackers <- Pool
  SystemMode = "BoundRPSAutoscale"
  StartRPS = 1
  StepRPS = 0
  StepDurationSec = 1
  SamplesPerAttacker = 1
  AttackersScaleAmount = 1
  SuccessRatio = 100
  Stream = TRUE
  CSV = TRUE
  DoOutcomes = {"ok"}
  SendOutcomes = {"cut"}
  ResultsCapacity = 1
  OutResultsCapacity = 1
  MaxRequests = 2
PROPERTIES
  RunReturns
  GoroutinesExit
  ClosedTicksReported
