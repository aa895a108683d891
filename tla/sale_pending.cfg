\* One cash sale, and restarts without end.
CONSTANTS
  Request = {r1}
  ClientId = {c1}
  VoidId = {v1, v2}
  PayKind = {"cash"}
  Order = {o1}
  Unslotted = {}
  None = None
SPECIFICATION RestartingSpec
PROPERTY PendingIsSigned
CHECK_DEADLOCK FALSE
