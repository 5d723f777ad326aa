\* Delivery orders of two baskets on two rows, with manual corrections: two
\* handlers and one set-quantity request in flight.
SPECIFICATION Spec
CONSTANTS
  o1 = o1  o2 = o2  i1 = i1  i2 = i2  h1 = h1  h2 = h2  a1 = a1
  Null = Null
  Items = {i1, i2}
  OrderIds = {o1, o2}
  Admins = {a1}
  Handlers = {h1, h2}
  InitialQuantity <- StockOfTwo
  Baskets <- MixedBaskets
  OrderTypes = {"DELIVERY"}
  MaxHistory = 4
  ManualDeltas <- UpAndDown
  ExactQuantities = {2}
  MaxMovements = 1
SYMMETRY Symmetric
INVARIANTS StockAttributed StockBounds LedgerAccounts StockConserved
CHECK_DEADLOCK FALSE
