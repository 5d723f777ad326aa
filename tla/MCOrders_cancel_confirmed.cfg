\* A customer's cancel commits on an order confirmed meanwhile.
SPECIFICATION Spec
CONSTANTS
  o1 = o1  o2 = o2  i1 = i1  i2 = i2  h1 = h1  h2 = h2  a1 = a1
  Null = Null
  Items = {i1}
  OrderIds = {o1, o2}
  Admins = {}
  Handlers = {h1, h2}
  InitialQuantity <- StockOfOne
  Baskets <- SmallBaskets
  OrderTypes = {"PICKUP"}
  MaxHistory = 7
  ManualDeltas = {}
  ExactQuantities = {}
  MaxMovements = 0
CHECK_DEADLOCK FALSE
PROPERTY OnlyPendingCancelled
