SPECIFICATION FairSpec
CONSTANTS
  HasS = TRUE
  HasU = TRUE
  HasC = FALSE
  HasF = FALSE
  AddrSpace = 8
  Program = {"plain", "csr", "ecall", "mret"}
  Csrs = {"mstatus", "mie", "mideleg"}
  StatusOperands <- UserStatus
  IrqOperands = {{}, {1, 3}}
  DelegOperands <- NoDeleg
  CounterOperands = {{}}
  AddrOperands = {0}
  JumpTargets = {0}
  Faults = {}
  Irqs <- PairIrqs
  ResetVector = 0
  MtvecReset = 0
PROPERTIES HigherModesServed
