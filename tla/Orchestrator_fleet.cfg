\* Five lanes, so that losing one of them leaves the ratio at the threshold.
CONSTANTS
  Agents = {1, 2, 3, 4, 5}
  Core = {1}
  Carded = {1, 2, 3, 4, 5}
  Blindable = {}
  Transports = {"remote"}
  MaxConcurrency = 2
  MaxRuns = 1
  Emissions <- PlainEmissions
SPECIFICATION Spec
CHECK_DEADLOCK FALSE
INVARIANTS ReportGated HonestBanner
PROPERTY GateSpec
