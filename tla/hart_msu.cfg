SPECIFICATION Spec
CONSTANTS
  HasS = TRUE
  HasU = TRUE
  HasC = TRUE
  HasF = TRUE
  AddrSpace = 8
  Program <- AllInstrs
  Csrs <- PrivilegeCsrs
  StatusOperands <- StackStatus
  IrqOperands <- NoIrqs
  DelegOperands <- AllDeleg
  CounterOperands = {{}}
  AddrOperands = {5}
  JumpTargets = {2}
  Faults = {3}
  Irqs = {}
  ResetVector = 0
  MtvecReset = 5
INVARIANTS TypeOK MstatusLegal MprvOnlyInM TrapReturnTransparent
PROPERTIES PrivilegeMoves ImplementsIsolation
