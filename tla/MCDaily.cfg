SPECIFICATION Spec
CONSTANTS
  a = a
  b = b
  shop = shop
  t1 = t1
  t2 = t2
  Worker = {w1, w2}
  LastDay = 2
  Messages <- OnBothAccounts
  Order = "opened"
  MaxMessages = 4
  MaxEvents = 0
SYMMETRY Workers
INVARIANTS BalanceIsPrefixSum ColumnsAreExact KeyIsSumOfAccounts
CHECK_DEADLOCK FALSE
