CONSTANTS
  Users = {calm, hasty}
  Invoices = {i1, i2}
  Codes = {promo}
  Handlers = {h1, h2}
  i1 = i1
  i2 = i2
  h1 = h1
  h2 = h2
  None = none
  Hasty = {hasty}
  ProviderWaits = TRUE
  Buyers = {calm, hasty}
  SoldPlans = {"weekly"}
  SoldMonths = {12}
  CodeMonths = {1}
  ClockDays = {0, 8}
  MaxRestarts = 1
SPECIFICATION Spec
CHECK_DEADLOCK TRUE
INVARIANT PaidIsDelivered
