\* One order and two returns of it.
CONSTANTS
  Request = {r1, r2, r3}
  a = a
  b = b
  Item = {a, b}
  Basket <- Baskets
  Parcel <- Parcels
  Counted = {}
  Delta = {}
  Initial <- Levels
  None = None
SPECIFICATION Spec
INVARIANT ReturnedWithinOrder
CHECK_DEADLOCK FALSE
