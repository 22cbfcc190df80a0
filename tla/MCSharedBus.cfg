CONSTANTS
  MaxAddr = 3
  main = main
  host = host
  device = device
  ram = ram
  rom = rom
  Controllers = {ram, rom}
  Regions <- MCRegions
  Data = {0, 1, 2, 3}
  None = None
  ByteSpace = 4
  PageSize = 2
  OverflowChecks = TRUE
  ReadOnly = {rom}
  Broken = {rom}
  Threads <- MCThreads
  Programs <- MCPrograms
SPECIFICATION SFairSpec
INVARIANTS
  SharedInv
  SessionSeesMemory
  NoDeadlock
PROPERTIES
  ImplementsBus
  FrozenOncePoisoned
  EveryoneFinishes
CHECK_DEADLOCK FALSE
