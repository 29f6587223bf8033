SPECIFICATION Spec
CONSTANTS
  s1 = s1
  s2 = s2
  o1 = o1
  h1 = h1
  Sessions = {s1, s2}
  OrderIds = {o1}
  Existing = {o1}
  Handlers = {h1}
  Cron = Cron
  None = None
  Providers = {"EPS_PG"}
  Total = 2
  Opening = 0
  CouponLimit = 0
  MaxAge = 1
  PayableAge = 1
  MaxFaults = 1
  MaxOutages = 0
  Entrances = {"retry", "link"}
  Desk = {"pay", "trash"}
SYMMETRY Symmetry
INVARIANTS NeverOvercharged ClaimsAreBooked
CHECK_DEADLOCK FALSE
