SPECIFICATION Spec
CONSTANTS
  Recipients = {r}
  Links = {l1, l2}
  Requests = {q1, q2}
  NoLink = NoLink
  MaxDownloads = 1
  MaxGrants = 2
SYMMETRY Symmetries
CHECK_DEADLOCK FALSE
INVARIANTS
  TypeOK
  WithinAllowance
  RevokeAllCloses
  ClosuresRecorded
PROPERTIES
  ServedWithinTerms
  ImplementsAllowance
