SPECIFICATION FairSpec
CHECK_DEADLOCK FALSE
CONSTANTS
  e1 = e1
  e2 = e2
  delay = delay
  abort = abort
  m1 = m1
  m2 = m2
  NoMesh = NoMesh
  NoExperiment = NoExperiment
  NoRule = NoRule
  Nothing = Nothing
  BadFault = BadFault
  Names = {e1, e2}
  Faults = {delay, abort}
  Meshes = {m1, m2}
  MaxFaults = 2
  UserSpecs <- MCUserSpecs
  Foreign <- MCForeign
  MaxChanges = 2
  MaxMeshChanges = 2
  MaxFailures = 1
  MaxCrashes = 1
INVARIANTS TypeOK RestIsReconciled
PROPERTIES PassesReconcile OthersKeepTheirRules MovesTowardsSnapshot EventuallyReconciled
