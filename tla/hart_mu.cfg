SPECIFICATION Spec
CONSTANTS
  HasS = FALSE
  HasU = TRUE
  HasC = FALSE
  HasF = FALSE
  AddrSpace = 8
  Program <- AllInstrs
  Csrs = {"mstatus", "medeleg", "mideleg", "mie", "mip", "mtvec", "mepc", "sstatus", "mcounteren", "cycle"}
  StatusOperands <- MachineStatus
  IrqOperands <- TimerOperands
  DelegOperands <- EcallDeleg
  CounterOperands = {{0}}
  AddrOperands = {6}
  JumpTargets = {2, 4}
  Faults = {2}
  Irqs = {7}
  ResetVector = 0
  MtvecReset = 0
INVARIANTS ModeImplemented PcsAligned
PROPERTIES PlatformPending
