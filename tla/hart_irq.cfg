SPECIFICATION Spec
CONSTANTS
  HasS = TRUE
  HasU = TRUE
  HasC = FALSE
  HasF = FALSE
  AddrSpace = 4
  Program = {"plain", "csr", "mret", "sret"}
  Csrs = {"mstatus", "mie", "sie", "mip", "sip", "mideleg"}
  StatusOperands <- IrqStatus
  IrqOperands <- ThreeOperands
  DelegOperands <- NoDeleg
  CounterOperands = {{}}
  AddrOperands = {0}
  JumpTargets = {0}
  Faults = {}
  Irqs <- ThreeIrqs
  ResetVector = 0
  MtvecReset = 0
PROPERTIES HandlerNotPreempted InterruptPriority ImplementsIsolation
