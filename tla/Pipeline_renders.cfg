\* A single finding leaves axes of its hot function uncovered.
CONSTANTS
  Pool <- SamplePool
  Sources <- SampleSources
  HotLimit = 2
  Truth <- SampleTruth
  MaxFindings = 1
  Acquirable = TRUE
SPECIFICATION Spec
CHECK_DEADLOCK FALSE
INVARIANT ReportRenders
