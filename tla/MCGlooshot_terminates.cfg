SPECIFICATION FairSpec
CHECK_DEADLOCK FALSE
CONSTANTS
  none = none
  named = named
  unnamed = unnamed
  doubled = doubled
  badQuery = badQuery
  untriggered = untriggered
  webhook = webhook
  noFaults = noFaults
  delay = delay
  abort = abort
  badFault = badFault
  NoConditions = none
  NoFaults = noFaults
  NoSpec = NoSpec
  NoDuration = NoDuration
  NoExperiment = NoExperiment
  Conditions <- MCConditions
  Polled <- MCPolled
  Unnamed = {unnamed}
  Duplicated = {doubled}
  Unqueryable = {badQuery}
  Untriggered = {untriggered}
  Faults <- MCFaults
  Untranslatable = {badFault}
  MaxAge = 1
  DefaultDuration = 1
  Names = {e1}
  UserSpecs <- OneSpec
  MaxUid = 1
  MaxEdits = 1
  MaxDeletes = 0
  MaxCrashes = 0
  MaxStarts = 2
PROPERTY EveryExperimentConcludes
