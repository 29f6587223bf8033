SPECIFICATION Spec
CONSTANTS
  s1 = s1
  s2 = s2
  o1 = o1
  o2 = o2
  h1 = h1
  h2 = h2
  Sessions = {s1, s2}
  OrderIds = {o1, o2}
  Existing = {}
  Handlers = {h1, h2}
  Cron = Cron
  None = None
  Providers = {"EPS_PG"}
  Total = 2
  Opening = 1
  CouponLimit = 0
  MaxAge = 2
  PayableAge = 2
  MaxFaults = 0
  MaxOutages = 0
  Entrances = {"checkout"}
  Desk = {}
SYMMETRY Symmetry
INVARIANTS TypeOK NeverChargedTwice ClaimsAreExclusive ConfirmedIsCovered
PROPERTIES SucceededIsFinal KeepsAccounts
CHECK_DEADLOCK FALSE
