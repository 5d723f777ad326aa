\* Two requests at a time on the catalogue.
SPECIFICATION Spec
CONSTANTS
  Null = Null
  Handlers = {h1, h2}
  CategoryIds = {c1, c2, c3}
  ProductIds = {p1, p2, p3}
  VariantIds = {v1, v2}
  Units = {1}
  Threshold = 1
  Galleries = {g1}
  Banners = {b1}
  ImageFiles = {f1, f2, f3}
  MaxImages = 2
SYMMETRY Symmetry
INVARIANTS OneLevel StockRows OnePrimary UploadsServed FeedsAgree
CHECK_DEADLOCK FALSE
