SPECIFICATION FairSpec
CONSTANTS
  a = a
  b = b
  shop = shop
  t1 = t1
  t2 = t2
  Worker = {w1, w2}
  LastDay = 2
  Messages <- InTwoBooks
  Order = "any"
  MaxMessages = 2
  MaxEvents = 1
INVARIANT TypeOK
PROPERTIES ResyncRestores RecalculationIsExact EveryMessageIsProcessed
CHECK_DEADLOCK FALSE
