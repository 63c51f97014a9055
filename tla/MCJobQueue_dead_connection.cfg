CONSTANTS
  Jobs = {j1}
  Malformed = {}
  Workers = {w1}
  Capacity = 1
  MaxRetries = 1
  MaxLen = 0
  MaxDisruptions = 1
SPECIFICATION FairSpec
PROPERTY FailedWriteRetried
