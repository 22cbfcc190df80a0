CONSTANTS
  Opcodes  <- OPCODES_MAP
  RAM      <- MCRAM
  ROM      <- MCROM
  Machines <- MCMachines
  Requests = {}
  Budgets  = {1, 9}
  CycleSpace = 1024
  Profiles = {TRUE, FALSE}
  MaxActs  = 1
SPECIFICATION HSpec
INVARIANTS
  TypeOK
PROPERTIES
  ImplementsLoop
  OneSign
  CompareOrders
  ShiftsKeepBits
  SumModulo
  BranchReach
  SlipsOverdrawn
  TraceNamesOperand
  TraceNamesTarget
  WritesInPlace
CHECK_DEADLOCK FALSE
