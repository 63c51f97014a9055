CONSTANTS
  doc = doc
  api = api
  blob = blob
  p = p
  q = q
  Ids = {doc, api, blob}
  Documents = {doc}
  Pseudo = {blob}
  Patterns = {p, q}
  Matching <- MCMatching
  Statuses = {200, 302, 404}
  Timeout = 2
  QuietGrace = 1
  PostIdleGrace = 2
  QuickAbort = 1
  Buffer = 1
  Backlog = 2
  Options <- MCOptions
SPECIFICATION FairSpec
INVARIANTS
  TypeOK
  PatternsAccounted
  ReportFollowsEvents
  ListKept
PROPERTIES
  ExitIsEarned
  TailBounded
  CaptureEnds
