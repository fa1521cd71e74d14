SPECIFICATION Spec
CONSTANTS
  order = order
  receivable = receivable
  restock = restock
  advert = advert
  expense = expense
  None = None
  Session = {s1, s2, s3}
  Ref = {order, receivable, restock, advert, expense}
  KindsOf <- MCKindsOf
  MaxRequests = 4
  MaxFaults = 1
SYMMETRY Sessions
INVARIANTS TypeOK PostingInv BooksAndReversalsAlternate OnlyNestedAnticipates CommittedIsAnnounced DoneMeansBooked
PROPERTY ImplementsLifecycle
CHECK_DEADLOCK FALSE
