SPECIFICATION Spec
CONSTANTS
  SlotSize = 4
  SlotCount = 3
  MAX_EXP_TIME = 2
  Bases <- MCBases
  IntSpan = 32
INVARIANTS FreeReturnsSlot ClosestBlockIsOwn
CHECK_DEADLOCK FALSE
