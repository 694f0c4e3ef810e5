\* One user, two servers, one request at a time; wg-manager fails, one restart.
CONSTANTS
  u1 = u1  u2 = u2  s1 = s1  s2 = s2  r1 = r1  r2 = r2
  Users = {u1}
  Buyers = {}
  Servers = {s1, s2}
  RatedServers = {s1, s2}
  IPs = {2}
  Requests = {r1}
  Client <- SharedUser
  PoolSize = 1
  WgMayFail = TRUE
  MaxConns = 2
  MaxRestarts = 1
SPECIFICATION FairSpec
INVARIANTS TypeOK OneLivePerServer ActiveHasStart
PROPERTIES StaleSessionsEnd
CHECK_DEADLOCK TRUE
