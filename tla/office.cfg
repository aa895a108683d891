SPECIFICATION Spec
CONSTANTS
  Row = {r1, r2}
  Word = {w1}
  Term = {t1, t2}
  Secret = {x1, x2}
  MaxCalls = 2
  MaxRows = 2
  None = None
SYMMETRY MCSymmetry
INVARIANTS
  TypeOK
  WaitsForCall
  OneAtATime
  
  ResultsOfTerm
  ActiveIsRow
  SecretIsStored
PROPERTIES
  EmptiedIsStored
