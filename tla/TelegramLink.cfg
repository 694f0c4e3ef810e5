\* Two users, two accounts, two requests of the bot at a time.
SPECIFICATION Spec
CONSTANTS
  u1 = u1
  u2 = u2
  t1 = t1
  t2 = t2
  r1 = r1
  r2 = r2
  Users = {u1, u2}
  Accounts = {t1, t2}
  Requests = {r1, r2}
  MaxCodes = 3
INVARIANT OneTimeCode
CHECK_DEADLOCK FALSE
