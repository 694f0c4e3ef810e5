\* One user with two requests in flight at the same time; wg-manager answers.
CONSTANTS
  u1 = u1  u2 = u2  s1 = s1  s2 = s2  r1 = r1  r2 = r2
  Users = {u1}
  Buyers = {u1}
  Servers = {s1}
  RatedServers = {s1}
  IPs = {2}
  Requests = {r1, r2}
  Client <- SharedUser
  PoolSize = 2
  WgMayFail = FALSE
  MaxConns = 2
  MaxRestarts = 0
SPECIFICATION Spec
INVARIANT ActiveIsServed
CHECK_DEADLOCK TRUE
