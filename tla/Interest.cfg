\* Entities that move among the cells, and a crowd that the budget does not carry.
SPECIFICATION InterestSpec
CONSTANTS
  WordBits = 10
  FracBits = 2
  CellSize = 12
  StalenessScale = 8
  MaxTicks = 7
  Base = 4
  HalfDistance = 8
  Scenarios <- MCScenarios
  Radii <- MCRadii
  MaxGeneration = 1
INVARIANTS
  GridIsExact
  ViewFollowsRelevance
PROPERTY NobodyStarves
CHECK_DEADLOCK FALSE
