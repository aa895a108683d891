\* One card payment sent twice.
CONSTANTS
  Request = {r1, r2}
  ClientId = {c1}
  VoidId = {v1, v2}
  PayKind = {"card"}
  Order = {o1}
  Unslotted = {}
  None = None
SPECIFICATION Spec
INVARIANT OneChargePerClientId
CHECK_DEADLOCK FALSE
