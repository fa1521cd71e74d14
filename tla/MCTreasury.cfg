SPECIFICATION FairSpec
CONSTANTS
  t1 = t1
  t2 = t2
  a = a
  b = b
  c = c
  Session = {s1, s2}
  Team = {t1, t2}
  Root = t1
  Bank = {a, b, c}
  Opened <- MCOpened
  Seeded <- MCSeeded
  Request <- MCRequests
  Word = {"empty", "adj", "shop", "purpose"}
  ExpenseType = {"rent"}
  Shop = {"here", "gone"}
  Marketplace <- MCMarketplace
  CapitalType = "d"
  None = None
  MaxRequests = 3
  MaxTime = 1
INVARIANTS TreasuryInv CashIsWhatTheCallsMoved AssetsMirror AdsAreBookedOnce
PROPERTIES UpdatesStay EveryCallReturns
CHECK_DEADLOCK FALSE
