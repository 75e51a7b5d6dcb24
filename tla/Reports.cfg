SPECIFICATION Spec
CONSTANTS
  Unset = Unset
  None = None
  Failed = Failed
  FIIRows <- MC_FIIRows
  FixedRows <- MC_FixedRows
  QuoteOf <- MC_QuoteOf
  ReadingOf <- MC_ReadingOf
  Profiles = {Unset, "conservative"}
  Contribution = 999
  Years = 2
  FirstDay = 30
  LastDay = 31
  MaxChanges = 1
INVARIANTS
  TypeOK
  QuietReportsExact
  DashboardReconciles
  ScoreWithinFactors
  ScenariosOrdered
  SplitSteersToTarget
CHECK_DEADLOCK FALSE
