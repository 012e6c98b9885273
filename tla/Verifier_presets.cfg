\* The same phase; findings that arrive with a verification of their own.
CONSTANTS
  Findings = {1, 2}
  Budgets = {"standard"}
  Claims = {"high", "low", "informational"}
  Concurrency = 1
SPECIFICATION Spec
CHECK_DEADLOCK FALSE
INVARIANT ConfirmedWereSent
