SPECIFICATION Spec
CONSTANTS
  o1 = o1
  v1 = v1
  Orders = {o1}
  Placeable = {o1}
  Variants = {v1}
  NoVariant = NoVariant
  NoOrder = NoOrder
  PreShipment = {"PENDING", "CONFIRMED", "PROCESSING", "PACKED"}
  MaxQuantity = 3
  MaxStock = 2
  Office = {"purge", "correct", "adjust"}
SYMMETRY Symmetry
INVARIANTS TypeOK StockIsExplained ReservationsHold NothingBackUndecided NegativeIsExplained ReceiptsAreInStock
PROPERTIES AwaitedUntilReceived
CHECK_DEADLOCK FALSE
