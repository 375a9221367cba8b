SPECIFICATION Spec
CHECK_DEADLOCK FALSE
CONSTANTS
  e1 = e1
  c1 = c1
  c2 = c2
  rate = rate
  latency = latency
  NaN = NaN
  NoQuery = NoQuery
  BadQuery = BadQuery
  NoTrigger = NoTrigger
  NoSpec = NoSpec
  InvalidConfig = InvalidConfig
  NoFailure = NoFailure
  NoHistory = NoHistory
  NoReport = NoReport
  Experiments = {e1}
  ConditionNames = {c1, c2}
  Queries = {rate, latency}
  Numbers = {0, 1}
  Values = {0, NaN}
  UserSpecs <- OneSpec
  MaxClosed = 1
  MaxSyncs = 1
  MaxValues = 1
INVARIANT HistoriesAreOwn
