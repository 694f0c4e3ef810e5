\* A window of two samples against a baseline of one; three incidents.
SPECIFICATION Spec
CONSTANTS
  s1 = s1
  dc = dc
  campus = campus
  Servers = {s1}
  Places = {dc, campus}
  NoFile = NoFile
  Torn = Torn
  Nobody = Nobody
  MaxIncidents = 3
  Contexts <- MCContexts
  Downtimes = {0, 10}
  MaxUses = 3
  Metrics <- MCMetrics
  Window = 2
  BaseLength = 1
  Hosting <- MCHosting
  MaxAdded = 2
INVARIANTS TypeOK SteadyLooksNormal
PROPERTY UntriedAdviceSticks
CHECK_DEADLOCK FALSE
