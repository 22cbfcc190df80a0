CONSTANTS
  AddrSpace  <- MCAddrSpace
  CycleSpace <- MCCycleSpace
  Budgets    <- MCBudgets
  Ops        <- MCOps
SPECIFICATION HFairSpec
INVARIANTS
  LoopInv
  InStep
  BudgetUsed
  HugeBudgetLost
  BreakServedInCall
PROPERTIES
  Forfeited
  Descends
  CallEnds
  InterruptServed
CHECK_DEADLOCK FALSE
