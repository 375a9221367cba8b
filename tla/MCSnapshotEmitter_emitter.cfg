SPECIFICATION FairSpec
CHECK_DEADLOCK FALSE
CONSTANTS
  n1 = n1
  n2 = n2
  AllNamespaces = AllNamespaces
  Given = {n1, n2}
  Kinds = {"experiments"}
  Some = Some
  Empty = Empty
  Contents = {Empty, Some}
  MaxChanges = 2
  MaxForced = 1
  MaxErrors = 1
INVARIANTS TypeOK EndsInOrder RestIsSynced
PROPERTIES SnapshotsGoForward SyncedInTheEnd CancellationEnds
