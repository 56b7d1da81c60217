SPECIFICATION Spec
CONSTANTS
  Periods <- MCPeriods
  Dates <- MCDates
  MaxFacts = 3
INVARIANTS
  TypeOK
  KeptIsCanonical
  ReturnedInOrder
