--------------------------------- MODULE Feeds ---------------------------------
(* What the catalogue shows: the category tree and its counts               *)
(* (categories.service.ts), the product lists and their filters             *)
(* (products.service.ts). Each is an operator on the rows of one moment.    *)
EXTENDS Products, Sequences, FiniteSetsExt, SequencesExt

CONSTANT Threshold  \* lowStockThreshold of every product

ASSUME FeedsAssumption ==
  /\ IsFiniteSet(CategoryIds) /\ IsFiniteSet(ProductIds) /\ IsFiniteSet(VariantIds)
  /\ Null \notin BOOLEAN

Active(ps) == {p \in ps : product[p].active}
In(cs) == {p \in LiveProducts : product[p].category \in cs}
VariantsOf(p) == {v \in LiveVariants : variant[v].product = p}

-----------------------------------------------------------------------------
(* Stock. Three queries decide it, each in its own words. *)
InStock(p) ==
  IF product[p].hasVariants
  THEN \E v \in VariantsOf(p) : variant[v].active /\ stock[v] # Null /\ stock[v] > 0
  ELSE stock[p] # Null /\ stock[p] > 0

LowStock(p) ==
  ~product[p].hasVariants /\ stock[p] # Null /\ stock[p] > 0 /\ stock[p] <= Threshold

\* Faulty: stock of a product without variants decided by what is not reserved at all.
OutOfStockAtOne(p) ==
  IF product[p].hasVariants
  THEN ~\E v \in VariantsOf(p) : stock[v] # Null /\ stock[v] > 1
  ELSE stock[p] # Null /\ stock[p] <= 1

OutOfStock(p) ==
  IF product[p].hasVariants
  THEN ~\E v \in VariantsOf(p) : stock[v] # Null /\ stock[v] > 0
  ELSE stock[p] # Null /\ stock[p] <= 0

\* availableQuantity: the product's own row, if it has one.
AvailableQuantity(p) ==
  IF stock[p] # Null THEN stock[p]
  ELSE SumFunction([v \in VariantsOf(p) |-> IF stock[v] = Null THEN 0 ELSE stock[v]])

-----------------------------------------------------------------------------
(* The public tree, two levels deep, and what staff see of a category. *)
Direct(c) == Cardinality(Active(In({c})))
SumDirect(cs) == SumFunction([c \in cs |-> Direct(c)])
ShownUnder(c) == {x \in Shown(category) : category[x].parent = c}

PublicTree ==
  [r \in ShownUnder(Null) |->
    [children |-> [c \in ShownUnder(r) |-> [count |-> Direct(c), isEmpty |-> Direct(c) = 0]],
     count |-> Direct(r) + SumDirect(ShownUnder(r)),
     isEmpty |-> Direct(r) + SumDirect(ShownUnder(r)) = 0]]

\* One category by id, whatever it hangs under.
PublicCategory(c) ==
  LET below == ShownUnder(c) IN
  [children |-> [x \in below |-> [count |-> Direct(x), isEmpty |-> Direct(x) = 0]],
   count |-> SumDirect({c} \cup below), isEmpty |-> SumDirect({c} \cup below) = 0]

Figures(active, inactive, out, children, below) ==
  [products |-> active + inactive, active |-> active, inactive |-> inactive,
   out |-> out, children |-> children, below |-> below,
   total |-> active + inactive + below]

\* adminList groups the products of every category at once,
AdminRow(c) ==
  LET split(x) == [active |-> Direct(x), inactive |-> Cardinality(In({x}) \ Active(In({x})))]
      kids == ChildrenOf(category, c) IN
  Figures(split(c).active, split(c).inactive, Cardinality({p \in In({c}) : OutOfStock(p)}),
          Cardinality(kids), SumFunction([x \in kids |-> split(x).active + split(x).inactive]))

\* Faulty: detail figures that count a category's own products with those below it.
AdminDetailOnce(c) ==
  LET kids == ChildrenOf(category, c) IN
  Figures(Cardinality({p \in In({c}) : product[p].active}),
          Cardinality({p \in In({c}) : ~product[p].active}),
          Cardinality({p \in In({c}) : OutOfStock(p)}),
          Cardinality(kids), Cardinality(In(kids \cap Shown(category))))

\* adminFindById counts for the one.
AdminDetail(c) ==
  LET kids == ChildrenOf(category, c) IN
  Figures(Cardinality({p \in In({c}) : product[p].active}),
          Cardinality({p \in In({c}) : ~product[p].active}),
          Cardinality({p \in In({c}) : OutOfStock(p)}),
          Cardinality(kids), Cardinality(In(kids)))

-----------------------------------------------------------------------------
(* Lists. *)

\* Faulty: a filter that takes in children only when told to.
CategoryFilterAsked(c, flag) ==
  IF flag = TRUE THEN {c} \cup ChildrenOf(category, c) ELSE {c}

\* `flag` is includeChildren: TRUE, FALSE or Null for not given.
CategoryFilter(c, flag) ==
  IF flag = FALSE THEN {c} ELSE {c} \cup ChildrenOf(category, c)

Keep(ps, wanted, Has(_)) ==
  IF wanted = Null THEN ps ELSE {p \in ps : Has(p) = wanted}

\* A list's filters; Null leaves one out.
ListWhere(q) ==
  LET in == IF q.category = Null THEN LiveProducts
            ELSE In(CategoryFilter(q.category, q.includeChildren))
      shown == IF q.publicOnly THEN Active(in)
               ELSE Keep(in, q.active, LAMBDA p : product[p].active)
      stocked == Keep(shown, q.inStock, InStock) IN
  IF q.lowStock THEN {p \in stocked : LowStock(p)} ELSE stocked

Browse(c) ==
  ListWhere([publicOnly |-> TRUE, category |-> c, includeChildren |-> Null,
             active |-> Null, inStock |-> Null, lowStock |-> FALSE])

\* Faulty: a query that asks for no order.
InAnyOrder(found, rank) == SetToSeqs(found)

\* The orders in which a query may return what it found: by the time made, the
\* price or the name, the lowest rank first, and what ties in any order.
Sorted(found, rank) ==
  {s \in SetToSeqs(found) : \A i, j \in DOMAIN s : i < j => rank[s[i]] <= rank[s[j]]}

\* Faulty: pages counted from nought.
PageFromZero(list, page, limit) ==
  SubSeq(list, page * limit + 1, Min({Len(list), (page + 1) * limit}))

\* A page of what a query found, in the order it came in. Every page is a query
\* of its own.
Page(list, page, limit) ==
  SubSeq(list, (page - 1) * limit + 1, Min({Len(list), page * limit}))
TotalPages(total, limit) == (total + limit - 1) \div limit

Similar(p, flag, inStock) ==
  Keep(Active(In(CategoryFilter(product[p].category, flag))) \ {p},
       IF inStock = TRUE THEN TRUE ELSE Null, InStock)

-----------------------------------------------------------------------------
(* Properties. *)

\* The count that the tree shows for a category is the number of products a
\* list of that category holds, if none of its subcategories is switched off:
\* the tree leaves those out (listPublic) and the list does not
\* (resolveCategoryIdFilter). The category by itself shows the same count.
TreeCountsListed ==
  \A r \in DOMAIN PublicTree :
    /\ ChildrenOf(category, r) \subseteq Shown(category)
         => PublicTree[r].count = Cardinality(Browse(r))
    /\ PublicTree[r] = PublicCategory(r)
    /\ \A c \in DOMAIN PublicTree[r].children :
         PublicTree[r].children[c].count = Cardinality(Browse(c))

\* Staff see the same figures of a category in the list of all of them
\* (adminList) and by itself (adminFindById).
FiguresAgree == \A c \in Existing(category) : AdminRow(c) = AdminDetail(c)

\* The queries about stock do not contradict one another: what is counted out
\* of stock is not listed in stock, what runs low is, and a product listed in
\* stock shows a quantity, unless a row of its own outlived its move to
\* variants (mapProductsWithPricing then shows that row).
StockListsAgree ==
  \A p \in LiveProducts :
    /\ OutOfStock(p) => ~InStock(p)
    /\ LowStock(p) => InStock(p)
    /\ InStock(p) /\ (product[p].hasVariants => stock[p] = Null)
         => AvailableQuantity(p) > 0

\* Read to the end, the pages of a list are in order whatever it is ordered by:
\* nothing on a page comes before anything on an earlier one. A product that
\* ties with none is on one page. One that ties may be on several or on none,
\* as every page is a query of its own and the order names no second column
\* (paginatePublicProducts, adminList); where one is missed, another it ties
\* with is there twice. There are totalPages of them, none empty.
PagesInOrder ==
  LET found == Browse(Null)
      total == Cardinality(found) IN
  \A rank \in [found -> 1..total], limit \in 1..(total + 1) :
    LET pages == 1..TotalPages(total, limit) IN
    /\ \A s \in Sorted(found, rank) : Page(s, TotalPages(total, limit) + 1, limit) = << >>
    /\ \A query \in [pages -> Sorted(found, rank)] :
         LET shown(n) == ToSet(Page(query[n], n, limit))
             on(x) == {n \in pages : x \in shown(n)}
             ties(x) == {y \in found \ {x} : rank[y] = rank[x]} IN
         /\ \A n \in pages : shown(n) # {}
         /\ \A m, n \in pages : m < n => \A x \in shown(m), y \in shown(n) : rank[x] <= rank[y]
         /\ \A x \in found :
              /\ ties(x) = {} => Cardinality(on(x)) = 1
              /\ on(x) = {} => \E y \in ties(x) : \E m, n \in on(y) : m # n

\* The counts and the lists of the catalogue, one beside the other.
FeedsAgree == TreeCountsListed /\ FiguresAgree /\ StockListsAgree /\ PagesInOrder
=============================================================================
