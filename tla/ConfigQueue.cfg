CONSTANTS
  c1 = c1
  c2 = c2
  c3 = c3
  c4 = c4
  t1 = t1
  t2 = t2
  p1 = p1
  null = null
  Configs = {c1, c2, c3}
  None = null
  Takers = {t1, t2}
  Putters = {p1}
  MaxSlots = 3
  Ttl = 2
  MaxTime = 2
  MaxCuts = 2
SPECIFICATION Spec
SYMMETRY Symmetric
INVARIANTS TypeOK HandedAtMost
PROPERTIES ExpiredIsNotTaken NothingIsMissed
CHECK_DEADLOCK FALSE
