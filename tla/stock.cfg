\* Three requests of any kind over two items of which there is little.
CONSTANTS
  Request = {r1, r2, r3}
  a = a
  b = b
  Item = {a, b}
  Basket <- Baskets
  Parcel <- Parcels
  Counted = {0}
  Delta <- Deltas
  Initial <- Levels
  None = None
SPECIFICATION FairSpec
INVARIANTS
  TypeOK
  AnswersAreTrue
PROPERTIES
  ImplementsShelf
  RefusedOnlyIfShort
  NoLostUpdate
  Answered
CHECK_DEADLOCK FALSE
