\* Two requests, every kind of payment, an order that cannot be booked.
CONSTANTS
  Request = {r1, r2}
  ClientId = {c1, c2}
  VoidId = {v1, v2}
  PayKind = {"cash", "card", "split"}
  Order = {o1, o2}
  Unslotted = {o2}
  None = None
SPECIFICATION FairSpec
PROPERTY Answered
CHECK_DEADLOCK FALSE
