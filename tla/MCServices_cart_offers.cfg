\* A product offer and a cart.
SPECIFICATION Spec
CONSTANTS
  Null = Null
  Handlers = {h1, h2}
  Sections = {s1, s2}
  Fields = {f1, f2}
  Values = {1}
  Fees = {1, 2}
  OfferIds = {o1, o2}
  Priced = {p1}
  Shelves = {g1}
  Today = 2
  CampaignIds = {c1, c2, c3}
  Purchases = {i1, i2}
  Reviewed = {p1}
  Stars = {1, 5}
  Tracked = {t1}
  MaxVersions = 2
  MaxNumber = 2
  Bills = {b1}
  Worths <- MCWorths
  CodeTerms <- MCTerms
  Tariffs <- MCTariffs
  Sales = {x1, x2}
  Buyers = {u1, u2}
  Goods = {p1}
  Now = 200
  DayLength = 2
  Offset = 1
  TopSize = 1
  Groups = {"g"}
  Names = {"m", "n"}
  Plans <- MCPlans
  Own = {"own"}
  Foci = {"offers"}
INVARIANT ProductOfferApplies
CHECK_DEADLOCK FALSE
