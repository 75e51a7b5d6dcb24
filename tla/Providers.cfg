SPECIFICATION MC_Spec
CONSTANTS
  MaxInt = 757
  Invalid = Invalid
  Fund = {"A", "B"}
  NoTicker = "none"
  Tables <- MC_Tables
  Charts <- MC_Charts
  DayLength = 2
  Chars = {"+", "0", "2", "5", "7", ",", ".", "-", "x"}
  MaxLength = 5
INVARIANT QuotesAsPublished
CHECK_DEADLOCK FALSE
