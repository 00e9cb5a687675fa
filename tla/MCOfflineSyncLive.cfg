SPECIFICATION LiveSpec
CONSTANTS
  Actions = {e1}
  Files = {f}
  Tabs = {t1, t2}
  Initial = Initial
  Gone = Gone
  NoAction = NoAction
  WebLocks = FALSE
  MaxActions = 2
  MaxSends = 3
  MaxRetries = 2
CHECK_DEADLOCK FALSE
PROPERTY RequestsAnswered
