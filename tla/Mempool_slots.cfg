SPECIFICATION Spec
CONSTANTS
  SlotSize = 4
  SlotCount = 3
  MAX_EXP_TIME = 2
  Bases <- MCBases
  IntSpan = 1024
INVARIANTS SlotsPartitioned CountersAgree LosesOnlyFirstSlots
CHECK_DEADLOCK FALSE
