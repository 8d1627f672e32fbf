SPECIFICATION Spec
CONSTANTS
  Tasks = {t1, t2}
  AddrSpace = 10
  Bits = 2
  Words = {4, 8}
  ReadOnly = {8}
  Operands = {1, 3}
INVARIANTS TypeOK ReservationFresh
PROPERTIES ImplementsAtomicCells PreciseTrap
