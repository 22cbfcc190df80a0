CONSTANTS
  MaxAddr = 3
  Controllers = {ram, rom}
  Regions <- MCRegions
  Data = {0, 1}
  None = None
SPECIFICATION Spec
INVARIANTS
  NoOverlap
