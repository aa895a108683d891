CONSTANTS
  Piece = {p1}
  Weighed = {w1}
  Customer = {}
  Slot = {s1, s2}
  MaxLines = 1
  MaxQty = 2
  MaxCalls = 1
  None = None
SPECIFICATION Spec
INVARIANT KeyIsButton
