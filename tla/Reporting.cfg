\* Two runners of one name, with reports and gauges.
SPECIFICATION Spec
CONSTANTS
  Second = 2
  Targets <- OneTwoOne
  Samples <- FewSamples
  CSV = TRUE
  PNG = TRUE
  Prometheus = TRUE
  MaxRunners = 2
CHECK_DEADLOCK FALSE
INVARIANTS
  TypeOK
  ChartShowsReports
  MaxRPSIsReached
  ScrapeOfOneRunner
