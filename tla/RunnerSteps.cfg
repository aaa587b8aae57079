\* A streamed run of two attackers over two steps of the plan; requests time out, and a
\* tick may have one of two.  Results and batches find their channels full, and a batch
\* reaches the client whole, cut or not at all.
SPECIFICATION Spec
CONSTANTS
  a1 = a1
  a2 = a2
  a3 = a3
  Attackers <- Pool
  InitialAttackers <- Pool
  SystemMode = "BoundRPS"
  StartRPS = 1
  StepRPS = 1
  StepDurationSec = 2
  SamplesPerAttacker = 1
  AttackersScaleAmount = 0
  SuccessRatio = 50
  Stream = TRUE
  CSV = TRUE
  DoOutcomes = {"ok"}
  SendOutcomes = {"whole", "cut", "lost"}
  ResultsCapacity = 1
  OutResultsCapacity = 1
  MaxRequests = 3
SYMMETRY PoolSymmetry
INVARIANTS
  ReportsComplete
  RequestsAccounted
  OrphansCancelled
  
  FailuresCancel
  FlushCoversReports
  TypeOK
  StreamCarriesReports
PROPERTIES
  KeepsPromise
  RunStreams
