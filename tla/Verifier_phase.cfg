\* Two findings, every budget and claim, one permit.
CONSTANTS
  Findings = {1, 2}
  Budgets = {"quick", "standard", "deep", "exhaustive"}
  Claims = {"medium", "low", "informational"}
  Concurrency = 1
SPECIFICATION FairSpec
CHECK_DEADLOCK FALSE
INVARIANTS TypeOK VerdictIsTheCritics TallyAddsUp UsageCounted
PROPERTY VerifyEnds
