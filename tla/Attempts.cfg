\* Two attackers with data, one without, a pool they may exhaust, and a datum added
\* meanwhile; also with a TargetUrl that does not parse, and with no test data.
SPECIFICATION FairSpec
CONSTANTS
  x = x
  y = y
  Callers = {d1, d2, h}
  Adders = {user}
  NoOne = NoOne
  Datums = {x, y}
  Added = {y}
  InitialData <- NoneOrOne
  DataCallers = {d1, d2}
  DumpTransport = {TRUE, FALSE}
  ValidUrls = {TRUE, FALSE}
  DataGiven = {TRUE, FALSE}
  MaxConns = 2
  Responses <- SomeResponses
  MaxGets = 3
  MaxData = 2
CHECK_DEADLOCK FALSE
INVARIANTS
  TypeOK
  NoDatumSkipped
  KnownDeaths
  ConnectionsReturned
PROPERTIES
  RoundRobin
  FailuresReported
  AttemptsEnd
