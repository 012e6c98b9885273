\* Two runs in one workdir, every outcome of every worker over every transport,
\* each of which may crash anywhere.
CONSTANTS
  Agents = {1, 2}
  Core = {1}
  Carded = {2}
  Blindable = {1, 2}
  Transports = {"auto", "local", "remote"}
  MaxConcurrency = 1
  MaxRuns = 2
  Emissions <- MixedEmissions
SPECIFICATION FairSpec
CHECK_DEADLOCK FALSE
INVARIANTS TypeOK RecordsAccounted LanesAccounted RegisteredBeforeRunning NoSilentFallback NothingSpentBlind ManifestMatchesLedger ReportCoversLedger
PROPERTIES RunEnds OnlyOwnLines
