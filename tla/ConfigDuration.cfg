\* A test without a cluster whose steps have no duration is accepted.
SPECIFICATION Spec
CONSTANTS
  N = 1
  Clustered = FALSE
  SystemModes <- AllModes
  AttackersRange <- Amounts
  AttackerTimeoutRange <- Positive
  StartRPSRange <- Amounts
  StepDurationRange <- Durations
  StepRPSRange <- Steps
  TestTimeRange <- Positive
  MaxTick = 4
INVARIANTS
  RunningStepsLast
\* A runner that exited, panicked or closed its last tick stops.
CHECK_DEADLOCK FALSE
