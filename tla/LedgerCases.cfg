SPECIFICATION CasesSpec
CONSTANTS
  Whole = 4
  Refused = Refused
  NoCase = NoCase
  People = 3
  MaxAmount = 6
  MaxWeight = 3
INVARIANTS SplitsAreExact RescaleKeepsShares BalancesSettle
CHECK_DEADLOCK FALSE
