CONSTANTS
  Opcodes  <- OPCODES_MAP
  RAM      <- MCRAM
  ROM      <- MCROM
  Machines <- MCMachines
  Requests = {}
  Budgets  = {1, 9}
  CycleSpace = 1024
  Profiles = {TRUE, FALSE}
  MaxActs  = 1
SPECIFICATION HSpec
PROPERTIES
  TraceAsLogged
CHECK_DEADLOCK FALSE
