\* Lists of up to three findings.
CONSTANTS
  Pool <- SamplePool
  Sources <- SampleSources
  HotLimit = 2
  Truth <- SampleTruth
  MaxFindings = 3
  Acquirable = TRUE
SPECIFICATION Spec
CHECK_DEADLOCK FALSE
INVARIANTS FunctionIsolation SeverityWithinCap AgreementHelps OrderOnlyBreaksTies TwinsAgree GapsAreReal ScoreAddsUp MergedIsFound
