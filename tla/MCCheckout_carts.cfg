\* One customer with two requests in flight, two products, one of them a variant.
SPECIFICATION CheckoutSpec
CONSTANTS
  o1 = o1  o2 = o2  o3 = o3  i1 = i1  i2 = i2  h1 = h1  h2 = h2  u1 = u1  u2 = u2  c1 = c1
  Null = Null
  Items = {i1, i2}
  OrderIds = {o1, o2}
  Admins = {}
  InitialQuantity <- StockOfTwo
  ManualDeltas = {}
  ExactQuantities = {}
  MaxMovements = 0
  Users = {u1}
  Coupons = {}
  UsageLimit <- NoCoupons
  PerUserLimit <- NoCoupons
  Applicability <- NoCoupons
  Variants = {i2}
  Handlers = {h1, h2}
  Additions <- EachLine
  Quantities = {1, 2}
SYMMETRY HandlersAndTwoOrders
INVARIANTS UnitsKept OneLinePerItem
CHECK_DEADLOCK FALSE
