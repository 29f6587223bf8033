SPECIFICATION Spec
CONSTANTS
  p1 = p1
  p2 = p2
  r1 = r1
  r2 = r2
  s1 = s1
  PaymentIds = {p1, p2}
  RefundIds = {r1, r2}
  Attempts = {s1}
  MaxMoney = 1
SYMMETRY Symmetry
INVARIANTS TypeOK NeverGivesBackMoreThanPaid DeliveredCodIsSettled OneCourierCharge
PROPERTIES RefundedGaveAllBack
CHECK_DEADLOCK FALSE
