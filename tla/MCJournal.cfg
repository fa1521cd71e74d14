SPECIFICATION Spec
CONSTANTS
  cash = cash
  payable = payable
  t1 = t1
  t2 = t2
  Account = {cash, payable}
  BalanceType <- MCBalanceType
  Direction <- BothWays
  IncludeEqual = {TRUE, FALSE}
  Team = {t1, t2}
  Amount = {0, 1, 2}
  Epsilon = 1
  MaxCalls = 3
  MaxBooks = 2
  MaxOpens = 2
SYMMETRY Teams
INVARIANTS JournalInv TeamsBalance ColumnsExplainBalance OnlyDebitsAreMissing
PROPERTY RollbackClears
CHECK_DEADLOCK FALSE
