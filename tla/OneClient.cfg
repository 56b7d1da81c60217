SPECIFICATION FairSpec
CONSTANTS
  Clients = {c1}
  None = None
  MaxAttempts = 5
  Max403Attempts = 2
  Ttl = 1
  MaxTime = 3
  MaxVersion = 2
  MaxCalls = 2
INVARIANTS
  RetriesBounded
PROPERTIES
  CallEnds
CHECK_DEADLOCK FALSE
