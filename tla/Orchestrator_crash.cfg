\* The process dies while lanes that have returned wait for the others.
CONSTANTS
  Agents = {1, 2, 3}
  Core = {1}
  Carded = {2}
  Blindable = {1, 3}
  Transports = {"auto"}
  MaxConcurrency = 2
  MaxRuns = 1
  Emissions <- MixedEmissions
SPECIFICATION Spec
CHECK_DEADLOCK FALSE
INVARIANT CompletedSurvivesCrash
