SPECIFICATION FairSpec
CONSTANTS
  Workers = {w1, w2}
  Jobs = {j1, j2, j3}
  None = None
  CountLockExcludes = FALSE
INVARIANTS NoLostWakeup JobsConserved NoTeardownUnderWorker
PROPERTIES WorkConserving JobsSettle DestroyProceeds
