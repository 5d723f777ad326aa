\* Two transactions at a time on two rows, opposite lock orders included, and
\* manual corrections of the rows.
SPECIFICATION FairTxSpec
CONSTANTS
  o1 = o1  o2 = o2  i1 = i1  i2 = i2  h1 = h1  h2 = h2  a1 = a1
  Null = Null
  Items = {i1, i2}
  OrderIds = {o1, o2}
  Admins = {a1}
  Handlers = {h1, h2}
  InitialQuantity <- TwoRows
  Baskets <- BothRows
  OrderTypes = {"PICKUP"}
  MaxHistory = 3
  ManualDeltas <- OneDown
  ExactQuantities = {1}
  MaxMovements = 1
PROPERTIES ImplementsAtomic RequestsEnd
CHECK_DEADLOCK FALSE
