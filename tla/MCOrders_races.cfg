\* Two orders on one row through both flows, every overlap of two handlers, no
\* manual corrections.
SPECIFICATION Spec
CONSTANTS
  o1 = o1  o2 = o2  i1 = i1  i2 = i2  h1 = h1  h2 = h2  a1 = a1
  Null = Null
  Items = {i1}
  OrderIds = {o1, o2}
  Admins = {}
  Handlers = {h1, h2}
  InitialQuantity <- StockOfOne
  Baskets <- SmallBaskets
  OrderTypes = {"DELIVERY", "PICKUP"}
  MaxHistory = 6
  ManualDeltas = {}
  ExactQuantities = {}
  MaxMovements = 0
SYMMETRY Symmetric
INVARIANTS UncontestedSettled UncontestedHistory
PROPERTY UncontestedForward
CHECK_DEADLOCK FALSE
