SPECIFICATION Spec
CONSTANTS
  Users = {u1, u2, u3}
  Settlements = {s1}
  Procs = {p1, p2}
  None = None
SYMMETRY Symmetric
INVARIANTS TypeOK AnswersStand
PROPERTIES Implements OnlyCounterpartyDecides DecidedRemovalsAreKnown
