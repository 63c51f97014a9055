CONSTANTS
  batch = batch
  mixed = mixed
  nothing = nothing
  single = single
  scripted = scripted
  tool = tool
  job = job
  status = status
  stranger = stranger
  events = events
  Requests <- MCRequests
  Scenarios <- MCScenarios
  Shape <- MCShape
  Outcomes = {200}
  Pages = 2
  WorkerSlots = 1
  MaxBatch = 3
  AllowPrivate = FALSE
  DisableScript = TRUE
  Rps = 1
  Burst = 1
  Unit = 2
  MaxTime = 2
  MaxOutages = 1
SPECIFICATION FairSpec
INVARIANTS
  TypeOK
  LimiterExact
  BatchComplete
  GaugeBalanced
PROPERTIES
  ShutdownEnds
