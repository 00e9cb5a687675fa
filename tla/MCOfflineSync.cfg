SPECIFICATION Spec
CONSTANTS
  Actions = {e1, e2}
  Files = {f}
  Tabs = {t1, t2}
  Initial = Initial
  Gone = Gone
  NoAction = NoAction
  WebLocks = TRUE
  MaxActions = 2
  MaxSends = 3
  MaxRetries = 1
SYMMETRY Symmetries
CHECK_DEADLOCK FALSE
INVARIANTS
  TypeOK
  AnswersAreTrue
  SentOnlyWhenAsked
PROPERTIES
  ImplementsEdits
