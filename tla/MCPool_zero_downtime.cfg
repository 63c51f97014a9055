CONSTANTS
  PoolSize = 2
  Pages = 1
  Requests = {r1, r2}
  RecycleAfter = 1
  AgeRecycle = FALSE
  CrashPossible = FALSE
  PickRetries = 4
  MaxLeaks = 0
SPECIFICATION Spec
SYMMETRY RequestSymmetry
INVARIANT CallersNeverObserveRecycle
