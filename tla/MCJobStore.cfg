CONSTANTS
  Jobs = {j1, j2, j3}
  MaxJobs = 2
SPECIFICATION FairSpec
INVARIANTS
  TypeOK
  MapBounded
  ActiveCounted
  NoLostIdle
PROPERTIES
  EvictionSparesInFlight
  RecordsOnlyAdvance
  JobsTerminate
  DrainEnds
CHECK_DEADLOCK FALSE
