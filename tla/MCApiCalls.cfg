CONSTANTS
  Call = {c1}
  Endpoint = {e1, e2, e3}
  Condition <- Conditions
  MaxWindow = 3
  CleanAbove = 1
  MaxOther = 3
  MaxClock = 4
SPECIFICATION FairSpec
CHECK_DEADLOCK FALSE
INVARIANTS FailsOnlyIfAll ExitExact
PROPERTIES FirstAnswerReturned NothingLeft
