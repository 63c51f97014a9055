CONSTANTS
  PoolSize = 2
  Pages = 1
  Requests = {r1, r2}
  RecycleAfter = 1
  AgeRecycle = FALSE
  CrashPossible = FALSE
  PickRetries = 2
  MaxLeaks = 0
SPECIFICATION FairSpec
INVARIANTS
  TypeOK
  PermitsConserved
  OneReplacement
  NoLostRecycle
PROPERTIES
  ImplementsLeases
  ComesBack
  CheckoutReturns
