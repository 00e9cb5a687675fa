SPECIFICATION Spec
CONSTANTS
  Items = {i1, i2}
  Loops = {l1, l2}
  MaxLimit = 1
  NoItem = NoItem
CHECK_DEADLOCK FALSE
INVARIANTS
  TypeOK
  ClaimsAreTrue
  TermsHoldInTurn
PROPERTIES
  SendsOnlyUnstored
  BatchesSettle
