CONSTANTS
  Jobs = {j1, j2}
  Malformed = {j2}
  Workers = {w1, w2}
  Capacity = 1
  MaxRetries = 0
  MaxLen = 1
  MaxDisruptions = 2
SPECIFICATION Spec
SYMMETRY Symmetry
INVARIANTS
  TypeOK
  NothingLost
  AcceptedResolves
  DisjointSlices
PROPERTY ResultsStay
