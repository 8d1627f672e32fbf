SPECIFICATION Spec
CONSTANTS
  XLEN = 20
  ShamtBits = 5
  Regs <- MCRegs
  CRegs <- MCCRegs
  FpRms <- MCRms
  AmoBits <- MCAmoBits
  Gens <- MCSmallGens
  MaxCalls = 2
  AnyParcels <- MCParcels
  AnyWords <- MCWords
  RegisterFiles <- MCRegisterFiles
  Pcs <- MCPcs
PROPERTY
  EmptyMaskLegalized
