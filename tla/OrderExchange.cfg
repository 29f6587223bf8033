SPECIFICATION Spec
CONSTANTS
  o1 = o1
  o2 = o2
  o3 = o3
  v1 = v1
  v2 = v2
  Orders = {o1, o2, o3}
  Placeable = {o1}
  Variants = {v1, v2}
  NoVariant = NoVariant
  NoOrder = NoOrder
  PreShipment = {"CONFIRMED", "PACKED"}
  MaxQuantity = 1
  MaxStock = 1
  Office = {}
SYMMETRY Symmetry
INVARIANTS OneReplacementPerLine
CHECK_DEADLOCK FALSE
