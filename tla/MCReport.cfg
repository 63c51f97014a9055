CONSTANTS
  MaxClsEntries = 2
  MaxLongTasks = 3
  MaxLoaf = 2
  ScriptsPerFrame = 2
  TopOffenders = 2
  TopMutated = 2
  NameRank <- MCNameRank
  MaxHops = 2
  TopDomains = 2
  TopLargest = 2
  TopIssues = 3
  Absent = Absent
  HostRank <- MCHostRank
  MaxTimeout = 5
  MaxSettle = 5
  TopImages = 2
  Inputs <- MCInputs
  Depth <- MCDepth
  Target = "page"
  Declared = {"cdn"}
  Analytical <- MCAnalytical
SPECIFICATION Spec
INVARIANTS
  
  CoverageIsInnermost
  VitalsAgree
CHECK_DEADLOCK FALSE
