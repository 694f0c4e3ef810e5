CONSTANTS
  s1 = s1
  s2 = s2
  t1 = t1
  t2 = t2
  l1 = l1
  l2 = l2
  None = none
  Servers = {s1, s2}
  Taps = {t1}
  Loops = {l1, l2}
  Bundled = TRUE
  Protocols = 1
  Stored = 1
  BlockedAfter = 2
SPECIFICATION FairSpec
CHECK_DEADLOCK TRUE
INVARIANTS TypeOK ConnectedHasTimer OrdinarySessionsTurnOff ErrorsLeaveNothing ActiveIsTunnel
PROPERTIES LimitedSessionsEnd
