CONSTANTS
  partner = partner
  f1 = f1
  f2 = f2
  i1 = i1
  i2 = i2
  h1 = h1
  h2 = h2
  w1 = w1
  w2 = w2
  p1 = p1
  p2 = p2
  None = none
  Users = {partner, f1, f2}
  Invoices = {i1, i2}
  Codes = {}
  Handlers = {h1, h2}
  Withdrawals = {w1}
  Payouts = {p1, p2}
  ReferredBy <- PartnersFriends
  Hasty = {partner, f1, f2}
  ProviderWaits = FALSE
  Buyers = {f1, f2}
  SoldPlans = {}
  SoldMonths = {1}
  CodeMonths = {}
  ClockDays = {0}
  Cpa = 2
  Share = 1
  ShareFrom = 1
  Amounts = {2}
  Funds = 4
  TransferMayTimeout = TRUE
  MaxRestarts = 1
SPECIFICATION BillingSpec
SYMMETRY BillingSymmetry
CHECK_DEADLOCK FALSE
INVARIANTS BillingTypeOK NobodyCountedTwice NeverDebitedUnpaid RewardsFollowPayments
