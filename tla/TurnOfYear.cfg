SPECIFICATION Spec
CONSTANTS
  YearDays = 12
  AnnualMin = 10
  AnnualMax = 12
  FyeTolerance = 1
  StubMin = 2
  StubMax = 8
  PriorEndTolerance = 1
  PriorLengthTolerance = 1
  CoverTolerance = 4
  StitchTolerance = 200
  HistoricalYears = 3
  Anchor = "revenue"
  TotalDebtTag = "AllDebt"
  Negated = {"da"}
  Items <- MCItems
  Kind <- MCKind
  Tags <- MCTags
  Compose <- MCCompose
  Companies <- Drifting
INVARIANTS
  AnchorMatchesItsColumn
