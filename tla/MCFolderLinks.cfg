SPECIFICATION MCSpec
CONSTANTS
  Folders = {a, b, c}
  Files = {f1, f2}
  Links = {l1, l2}
  Root = Root
  Unborn = Unborn
  Gone = Gone
  None = None
  MaxBegun = 4
  Spare = c
SYMMETRY Symmetries
ACTION_CONSTRAINT Scope
CHECK_DEADLOCK FALSE
INVARIANTS
  TypeOK
  KeysWereInside
  KeysOpenWithTheUrl
  ArchiveIsWhole
  UploadsToldTruly
