SPECIFICATION FairSpec
CONSTANTS
  s1 = s1
  o1 = o1
  h1 = h1
  Sessions = {s1}
  OrderIds = {o1}
  Existing = {}
  Handlers = {h1}
  Cron = Cron
  None = None
  Providers = {"EPS_PG", "SSLCOMMERZ"}
  Total = 2
  Opening = 1
  CouponLimit = 0
  MaxAge = 2
  PayableAge = 1
  MaxFaults = 0
  MaxOutages = 1
  Entrances = {"checkout"}
  Desk = {"move"}
PROPERTIES EpsMoneyIsBooked ReservationsResolve AttemptsEnd
CHECK_DEADLOCK FALSE
