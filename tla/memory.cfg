SPECIFICATION Spec
CONSTANTS
  AddrSpace = 8
  HasBuffer = TRUE
  Base = 2
  Size = 6
  Byte = 4
  ReadOnly = {3}
  Lax = {TRUE, FALSE}
  Values = {7}
  MaxWords = 2
INVARIANTS TypeOK FaultsExact StoreIsRead
PROPERTIES ChangesAreAddressed ProgramPrefix
