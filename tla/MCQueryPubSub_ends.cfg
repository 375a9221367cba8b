SPECIFICATION FairSpec
CONSTANTS
  Subs = {a, b}
  None = None
  Cap = 1
  MaxValues = 3
INVARIANTS TypeOK ChannelsAreSafe OnlySendersBlock NothingRegistered
PROPERTY OnlyFullChannelsLeak
CHECK_DEADLOCK FALSE
