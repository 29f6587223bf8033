SPECIFICATION FairSpec
CONSTANTS
  s1 = s1
  s2 = s2
  h1 = h1
  Sweep = Sweep
  Casts = {{s1, s2}, {s1, h1}}
  Staff = {s1, s2}
  Handlers = {h1}
  MaxParcels = 2
  MaxDisturbed = 1
INVARIANTS TypeOK ParcelsAreAccountedFor
PROPERTIES ClosedStaysClosed BookedIsShipped OutcomeReachesOrder
CHECK_DEADLOCK FALSE
