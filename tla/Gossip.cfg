CONSTANTS
  a = a
  b = b
  c = c
  d = d
  e = e
  Nodes = {a, b, c, d, e}
  Peers <- MCPeers
  Key <- MCKey
  Entries = {1}
  MaxHops = 2
  TicksPerMs = 2
  MaxTime = 3
  MaxUpdates = 2
SPECIFICATION Spec
INVARIANTS TypeOK Converges NothingVanishes
PROPERTIES ForwardedOnce
CHECK_DEADLOCK FALSE
