SPECIFICATION LedgerSpec
CONSTANTS
  Whole = 4
  Refused = Refused
  Editors = {p1, p2}
  SplitEdits = TRUE
  First = 2
  Splits = 3
  MaxBase = 3
  MaxSplit = 2
SYMMETRY Symmetric
PROPERTIES RescaleRestores OnlyStaleUpdatesBreak
CHECK_DEADLOCK FALSE
