SPECIFICATION Spec
CONSTANTS
  None = None
  Damaged = Damaged
  a = a
  b = b
  Ciks = {a, b}
  Listings <- MCListings
  Named <- MCNamed
  Configs <- MCConfigs
  MappingFiles <- MCMappingFiles
  Changing = {"company_tickers", "companyfacts"}
  Ttl = 2
  MaxTime = 4
  MaxVersions = 2
  MaxRuns = 2
INVARIANTS
  ReportsRestOnUsableMappings
CHECK_DEADLOCK FALSE
