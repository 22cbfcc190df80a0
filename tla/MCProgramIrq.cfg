CONSTANTS
  Opcodes  <- OPCODES_MAP
  RAM      <- MCRAM
  ROM      <- MCROM
  Machines <- MCMachines
  Requests <- MCRequests
  Budgets  = {2, 5, 8, 14, 31}
  CycleSpace = 1024
  Profiles = {FALSE}
  MaxActs  = 6
SPECIFICATION HSpec
PROPERTIES
  IrqClearsB
CHECK_DEADLOCK FALSE
