SPECIFICATION Spec
CONSTANTS
  Workers = {w1, w2}
  Jobs = {j1, j2}
  None = None
  CountLockExcludes = TRUE
SYMMETRY Symmetry
INVARIANTS NoUseAfterFree FreesOnce
