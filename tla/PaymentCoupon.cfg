SPECIFICATION Spec
CONSTANTS
  s1 = s1
  s2 = s2
  o1 = o1
  o2 = o2
  h1 = h1
  Sessions = {s1, s2}
  OrderIds = {o1, o2}
  Existing = {}
  Handlers = {h1}
  Cron = Cron
  None = None
  Providers = {"EPS_PG"}
  Total = 2
  Opening = 0
  CouponLimit = 1
  MaxAge = 0
  PayableAge = 2
  MaxFaults = 0
  MaxOutages = 0
  Entrances = {"checkout"}
  Desk = {}
SYMMETRY Symmetry
INVARIANTS EveryClaimIsBooked
CHECK_DEADLOCK FALSE
