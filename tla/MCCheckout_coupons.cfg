\* One customer with two requests in flight; one product, a code good for one
\* usage and for pickup only, three orders.
SPECIFICATION CheckoutSpec
CONSTANTS
  o1 = o1  o2 = o2  o3 = o3  i1 = i1  i2 = i2  h1 = h1  h2 = h2  u1 = u1  u2 = u2  c1 = c1
  Null = Null
  Items = {i1}
  OrderIds = {o1, o2, o3}
  Admins = {}
  InitialQuantity <- ThreeUnits
  ManualDeltas = {}
  ExactQuantities = {}
  MaxMovements = 0
  Users = {u1}
  Coupons = {c1}
  UsageLimit <- Once
  PerUserLimit <- Once
  Applicability <- PickupOnly
  Variants = {i1}
  Handlers = {h1, h2}
  Additions <- OneUnit
  Quantities = {}
SYMMETRY HandlersAndOrders
INVARIANTS ViewCurrent OverrunBounded UserLimitKept
CHECK_DEADLOCK FALSE
