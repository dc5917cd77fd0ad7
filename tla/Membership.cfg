SPECIFICATION Spec
CONSTANTS
  u1 = u1
  u2 = u2
  u3 = u3
  u4 = u4
  Users = {u1, u2, u3, u4}
  Procs = {p1, p2}
  Worlds <- MixedWorlds
  FreeLimit = 2
  None = None
SYMMETRY Symmetric
INVARIANTS TypeOK AdminKept OvershootBounded
PROPERTIES PromotionByAdmin RemovalByMember
CHECK_DEADLOCK FALSE
