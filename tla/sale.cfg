\* Three requests, two ids of the till: two independent sales, or a sale sent
\* twice and its correction, or a sale and two corrections at once.
CONSTANTS
  Request = {r1, r2, r3}
  ClientId = {c1, c2}
  VoidId = {v1, v2}
  PayKind = {"cash", "card"}
  Order = {o1}
  Unslotted = {}
  None = None
SPECIFICATION Spec
SYMMETRY Symmetry
INVARIANTS
  TypeOK
  SignatureMatchesBooks
  OnlyApprovedCardSalesBooked
  CardAuthAgreesWithBooks
  LogExplainsRows
  AnsweredIsBooked
PROPERTY ImplementsJournal
CHECK_DEADLOCK FALSE
