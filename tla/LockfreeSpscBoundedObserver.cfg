CONSTANTS
  Capacity = 2
  MaxItems = 4
  WordSize = 16
  MayThrow = FALSE

SPECIFICATION ObserverSpec

INVARIANTS
  SizeIsSnapshot
