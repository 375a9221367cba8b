SPECIFICATION Spec
CONSTANTS
  Subs = {a, b}
  None = None
  Cap = 2
  MaxValues = 2
PROPERTY WatchersNotified
CHECK_DEADLOCK FALSE
