SPECIFICATION Spec
CONSTANTS
  s1 = s1
  s2 = s2
  p1 = p1
  p2 = p2
  Session = {s1, s2}
  t1 = t1
  Team = {t1, t2}
  Opened <- MCOpened
  PaymentId = {p1, p2}
  Amount = {0, 1, 2}
  None = None
  MaxRequests = 3
SYMMETRY Symmetry
INVARIANTS PaymentInv BooksAreTheAcceptedPayments DebtsMirrorClaims AcceptedMeansBooked
PROPERTIES DecisionsStand OwnersDecide
CHECK_DEADLOCK FALSE
