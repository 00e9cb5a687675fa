SPECIFICATION Spec
CONSTANTS
  Runs = {r1, r2, r3}
  Builds = {a, b}
  Old = old
  None = None
SYMMETRY Symmetries
CHECK_DEADLOCK FALSE
INVARIANTS
  TypeOK
  LeavesOneRelease
  CanGoBack
