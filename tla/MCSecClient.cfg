SPECIFICATION Spec
CONSTANTS
  Clients = {c1, c2}
  None = None
  MaxAttempts = 1
  Max403Attempts = 1
  Ttl = 1
  MaxTime = 3
  MaxVersion = 2
  MaxCalls = 3
SYMMETRY Interchangeable
INVARIANTS
  TypeOK
  FreshAsPromised
  ProvenanceKept
PROPERTIES
  ImplementsDocument
CHECK_DEADLOCK FALSE
