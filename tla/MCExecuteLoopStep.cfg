CONSTANTS
  AddrSpace  <- MCAddrSpace
  CycleSpace <- MCCycleSpace
  Budgets    <- MCBudgets
  Ops        <- MCOps
SPECIFICATION HSpec
INVARIANTS
  StaysInStep
CHECK_DEADLOCK FALSE
