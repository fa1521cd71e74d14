SPECIFICATION Spec
CONSTANTS
  a = a
  b = b
  shop = shop
  t1 = t1
  t2 = t2
  Worker = {w1}
  LastDay = 3
  Messages <- OnOneAccount
  Order = "any"
  MaxMessages = 3
  MaxEvents = 0
INVARIANT BalanceIsPrefixSum
CHECK_DEADLOCK FALSE
