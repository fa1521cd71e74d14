SPECIFICATION Spec
CONSTANTS
  order = order
  receivable = receivable
  restock = restock
  advert = advert
  expense = expense
  None = None
  Session = {s1, s2, s3}
  Ref = {receivable}
  KindsOf <- MCKindsOf
  MaxRequests = 2
  MaxFaults = 0
INVARIANT MessagesAreCommitted
CHECK_DEADLOCK FALSE
