\* Two nodes share every configuration of the ranges, mistakes included.
SPECIFICATION Spec
CONSTANTS
  N = 2
  Clustered = TRUE
  SystemModes <- AllModes
  AttackersRange <- Amounts
  AttackerTimeoutRange <- Timeouts
  StartRPSRange <- Rates
  StepDurationRange <- Durations
  StepRPSRange <- Steps
  TestTimeRange <- Positive
  MaxTick = 4
INVARIANTS
  TypeOK
  SplitIsSound
  SplitLosesLittle
  BoundTestsShoot
\* A runner that exited, panicked or closed its last tick stops.
CHECK_DEADLOCK FALSE
