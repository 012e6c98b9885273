\* A second run in the workdir of a first, all five lanes core and over A2A.
CONSTANTS
  Agents = {1, 2, 3, 4, 5}
  Core = {1, 2, 3, 4, 5}
  Carded = {1, 2, 3, 4, 5}
  Blindable = {}
  Transports = {"remote"}
  MaxConcurrency = 1
  MaxRuns = 2
  Emissions <- SureEmissions
SPECIFICATION Spec
CHECK_DEADLOCK FALSE
INVARIANT CoreLossDegrades
