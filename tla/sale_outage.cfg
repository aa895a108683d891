\* One card payment while fiskaly cannot be reached.
CONSTANTS
  Request = {r1}
  ClientId = {c1}
  VoidId = {v1, v2}
  PayKind = {"card"}
  Order = {o1}
  Unslotted = {}
  None = None
SPECIFICATION Spec
PROPERTY ApprovedCardIsBooked
CHECK_DEADLOCK FALSE
