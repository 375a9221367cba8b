SPECIFICATION Spec
CHECK_DEADLOCK FALSE
CONSTANTS
  p1 = p1
  p2 = p2
  n1 = n1
  n2 = n2
  a = a
  b = b
  NoNamespace = NoNamespace
  NoName = NoName
  Default = n1
  Processes = {p1, p2}
  Namespaces = {n1, n2}
  Names = {a, b}
  Commands <- MCCommands
  MaxCommands = 3
  MaxFailures = 1
INVARIANTS TypeOK DeletesAreComplete ListsAreComplete
PROPERTIES DeletesAreInScope RegisterRegisters
