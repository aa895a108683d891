\* One cash sale and two corrections of it.
CONSTANTS
  Request = {r1, r2, r3}
  ClientId = {c1}
  VoidId = {v1, v2}
  PayKind = {"cash"}
  Order = {o1}
  Unslotted = {}
  None = None
SPECIFICATION Spec
INVARIANT VoidedOnce
CHECK_DEADLOCK FALSE
