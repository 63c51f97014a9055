CONSTANTS
  PoolSize = 1
  Pages = 1
  Requests = {r1, r2}
  RecycleAfter = 2
  AgeRecycle = TRUE
  CrashPossible = TRUE
  PickRetries = 2
  MaxLeaks = 1
SPECIFICATION FairSpec
INVARIANT InFlightAccounted
PROPERTIES
  RecycledAtThreshold
  CrashRepaired
