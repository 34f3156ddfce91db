CONSTANTS
  SIZE_T = 32
  HEADER = 4
  ALIGN = 2
  Top = 22
  Sizes = {0, 3, 16, 30}
  MaxCalls = 5
SPECIFICATION Spec
INVARIANTS BlocksApart FreesJudgedRight AccountsExact
CHECK_DEADLOCK FALSE
