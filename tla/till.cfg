CONSTANTS
  Piece = {p1}
  Weighed = {w1}
  Customer = {c1}
  Slot = {s1, s2}
  MaxLines = 1
  MaxQty = 1
  MaxCalls = 3
  None = None
SPECIFICATION Spec
INVARIANTS TypeOK  PaidIsBooked PaidTwiceOnlyAfterLoss StornoAuthorized BusyHasCall
 
