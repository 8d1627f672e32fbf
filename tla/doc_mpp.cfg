SPECIFICATION Spec
CONSTANTS
  HasS = TRUE
  HasU = FALSE
  HasC = TRUE
  HasF = FALSE
  AddrSpace = 8
  Program = {"plain", "csr", "mret", "sret", "ecall"}
  Csrs = {"mstatus"}
  StatusOperands = {{}, {"SPP"}}
  IrqOperands <- NoIrqs
  DelegOperands <- NoDeleg
  CounterOperands = {{}}
  AddrOperands = {0}
  JumpTargets = {0}
  Faults = {}
  Irqs = {}
  ResetVector = 0
  MtvecReset = 0
INVARIANTS MppImplemented
