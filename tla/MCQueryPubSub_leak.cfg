SPECIFICATION FairSpec
CONSTANTS
  Subs = {a, b}
  None = None
  Cap = 1
  MaxValues = 2
PROPERTY NoGoroutineLeaks
CHECK_DEADLOCK FALSE
