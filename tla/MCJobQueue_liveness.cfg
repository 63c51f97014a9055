CONSTANTS
  Jobs = {j1}
  Malformed = {}
  Workers = {w1}
  Capacity = 2
  MaxRetries = 1
  MaxLen = 0
  MaxDisruptions = 2
SPECIFICATION FairSpec
INVARIANT WantIsFree
PROPERTY Answered
