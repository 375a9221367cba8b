SPECIFICATION FairSpec
CHECK_DEADLOCK FALSE
CONSTANTS
  none = none
  named = named
  unnamed = unnamed
  doubled = doubled
  badQuery = badQuery
  untriggered = untriggered
  webhook = webhook
  noFaults = noFaults
  delay = delay
  abort = abort
  badFault = badFault
  NoConditions = none
  NoFaults = noFaults
  NoSpec = NoSpec
  NoDuration = NoDuration
  NoExperiment = NoExperiment
  Conditions <- MCConditions
  Polled <- MCPolled
  Unnamed = {unnamed}
  Duplicated = {doubled}
  Unqueryable = {badQuery}
  Untriggered = {untriggered}
  Faults <- MCFaults
  Untranslatable = {badFault}
  MaxAge = 1
  DefaultDuration = 1
  Names = {e1, e2}
  UserSpecs <- FaultySpecs
  MaxUid = 2
  MaxEdits = 0
  MaxDeletes = 0
  MaxCrashes = 0
  MaxStarts = 4
PROPERTY FaultsRemoved
