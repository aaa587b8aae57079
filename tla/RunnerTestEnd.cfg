\* A request in flight at the end of the test is counted as a timeout.
SPECIFICATION LongDeadlineSpec
CONSTANTS
  a1 = a1
  a2 = a2
  a3 = a3
  Attackers <- Pool
  InitialAttackers <- Pool
  SystemMode = "BoundRPS"
  StartRPS = 1
  StepRPS = 1
  StepDurationSec = 2
  SamplesPerAttacker = 1
  AttackersScaleAmount = 0
  SuccessRatio = 100
  Stream = FALSE
  CSV = TRUE
  DoOutcomes = {"ok", "badStatus"}
  SendOutcomes = {"cut"}
  ResultsCapacity = 4
  OutResultsCapacity = 1
  MaxRequests = 3
SYMMETRY PoolSymmetry
INVARIANTS
  TestEndIsNoError
