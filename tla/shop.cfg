SPECIFICATION Spec
CONSTANTS
  p1 = p1
  p2 = p2
  v1 = v1
  v2 = v2
  v3 = v3
  Product = {p1, p2}
  Variant = {v1, v2, v3}
  VariantsOf <- MCVariantsOf
  Traded = {v1}
  Word = {w1}
  Code = {d1}
  Method = {m1, m2}
  Slot = {1, 2}
  MaxLevel = 1
  MaxItems = 2
  MaxOrders = 1
  MaxFeed = 1
  None = None
INVARIANTS
  TypeOK
  NoSecondOrder
  WaitsForCall
  
  StockIsCurrent
PROPERTIES
  CartSurvives
  ClearedIsOrdered
