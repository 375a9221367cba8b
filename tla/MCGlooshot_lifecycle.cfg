SPECIFICATION FairSpec
CHECK_DEADLOCK FALSE
CONSTANTS
  none = none
  named = named
  unnamed = unnamed
  doubled = doubled
  badQuery = badQuery
  untriggered = untriggered
  webhook = webhook
  noFaults = noFaults
  delay = delay
  abort = abort
  badFault = badFault
  NoConditions = none
  NoFaults = noFaults
  NoSpec = NoSpec
  NoDuration = NoDuration
  NoExperiment = NoExperiment
  Conditions <- MCConditions
  Polled <- MCPolled
  Unnamed = {unnamed}
  Duplicated = {doubled}
  Unqueryable = {badQuery}
  Untriggered = {untriggered}
  Faults <- MCFaults
  Untranslatable = {badFault}
  MaxAge = 2
  DefaultDuration = 2
  Names = {e1}
  UserSpecs <- LifecycleSpecs
  MaxUid = 1
  MaxEdits = 0
  MaxDeletes = 0
  MaxCrashes = 3
  MaxStarts = 5
INVARIANT SucceededAfterDuration
INVARIANT StartedAreAttended
PROPERTY KeepsLifecycle
PROPERTY LifecycleGoesOn
PROPERTY ComesToRest
