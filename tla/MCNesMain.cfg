CONSTANTS
  CycleTicks = 2
  Precision = 4
  MaxBudget = 21
  MaxPolls = 2
  MaxAddr = 11
  BankSize = 2
  ChrBankSize = 1
  TrainerSize = 3
  ChipSize = 2
  RamEnd = 3
  PpuEnd = 5
  RomStart = 7
  CycleSpace = 22
  Ops <- MCOps
  Vectors = {8}
  Cartridges <- MCCartridges
  Data = {0, 1}
  StackStart = 0
  StackSize = 2
  ResultA = 2
  ResultB = 3
  Ticks <- MCTicks
  MaxLag = 3
SPECIFICATION NesFairSpec
INVARIANTS
  NesTypeOK
  TimeKept
  PrgAnswers
  MirrorsAgree
PROPERTIES
  BreakStops
CHECK_DEADLOCK FALSE
