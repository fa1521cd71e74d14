SPECIFICATION FairSpec
CONSTANTS
  order = order
  receivable = receivable
  restock = restock
  advert = advert
  expense = expense
  None = None
  Session = {s1, s2}
  Ref = {order, receivable, restock, expense}
  KindsOf <- MCKindsOf
  MaxRequests = 3
  MaxFaults = 0
PROPERTIES EveryRequestReturns EveryPostingIsHandedOver
CHECK_DEADLOCK FALSE
