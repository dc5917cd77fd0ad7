SPECIFICATION RotationSpec
CONSTANTS
  Users = {1, 2, 3}
  Procs = {p1, p2}
  Worlds <- TypicalWorlds
SYMMETRY Symmetric
INVARIANTS FairRotation
PROPERTIES FinishedStaysFinished OnlyStaleScheduleBreaksIndex
CHECK_DEADLOCK FALSE
