--------------------------- MODULE CatalogueProofs ---------------------------
(***************************************************************************)
(* The catalogue, for any number of rows, files and requests: the two      *)
(* levels of categories, the stock row of every product and variant, the   *)
(* files of images and banners, the one primary image of a product; and    *)
(* that what is shown of the catalogue in two ways is shown alike.         *)
(***************************************************************************)
EXTENDS Feeds, Images, Sums, SequenceTheorems
-----------------------------------------------------------------------------
(* Categories: categories.service.ts.                                      *)


Rows == {c \in CategoryIds : category[c] # Null}

\* A parent is at the top, unless two requests overlap on one of the two.
Top(p, c) == category[p].parent = Null \/ p \in overlapped \/ c \in overlapped

\* What a request in flight has read still holds, but for what those that
\* overlap with it did.
CreateOK(r) ==
  r.parent # Null => /\ r.parent \in Rows /\ r.parent \in r.on
                     /\ category[r.parent].parent = Null \/ r.parent \in overlapped

UpdateOK(r) ==
  /\ r.category \in Rows /\ r.category \in r.on
  /\ r.moves \in BOOLEAN /\ r.active \in BOOLEAN
  /\ r.moves /\ r.parent # Null =>
       /\ r.parent \in Rows /\ r.parent \in r.on /\ r.parent # r.category
       /\ Top(r.parent, r.category)
       /\ r.op = "updateCategory" =>
            \A x \in Existing(category) :
              category[x].parent = r.category => r.category \in overlapped

RequestOK(r) ==
  /\ r.op = "createCategory" => CreateOK(r)
  /\ r.op \in {"countChildren", "updateCategory"} => UpdateOK(r)
  /\ r.op = "deleteCategory" => r.category \in Rows

ShapeOK ==
  /\ DOMAIN request = Handlers
  /\ category \in [CategoryIds -> CategoryRow \cup {Null}]
  /\ \A c \in Rows : category[c].parent # Null => category[c].parent \in Rows
  /\ \A h \in InFlight : RequestOK(request[h])
  /\ \A h, g \in InFlight : h # g => request[h].on \cap request[g].on \subseteq overlapped

IInv == ShapeOK /\ OneLevel

-----------------------------------------------------------------------------
(* Steps that write no category.                                            *)
LEMMA RequestsKeep ==
  ASSUME IInv, NEW h \in Handlers, UNCHANGED category, DOMAIN request' = Handlers,
         \A g \in Handlers \ {h} : request'[g] = request[g],
         overlapped \subseteq overlapped',
         NEW r, r = request'[h],
         r # Null => /\ RequestOK(r)
                     /\ \A g \in InFlight \ {h} : r.on \cap request[g].on \subseteq overlapped'
  PROVE  IInv'
<1>1. /\ Rows' = Rows /\ Existing(category)' = Existing(category)
      /\ \A q : RequestOK(q) => RequestOK(q)'
  BY DEF Rows, Existing, RequestOK, CreateOK, UpdateOK, Top
<1>2. \A g \in InFlight' : g = h \/ (g \in InFlight /\ request'[g] = request[g])
  BY DEF InFlight
<1>3. ASSUME NEW g \in InFlight', NEW q, q = request'[g]
      PROVE  RequestOK(q)'
  <2>1. RequestOK(q)
    BY <1>2, <1>3 DEF IInv, ShapeOK, InFlight
  <2> QED  BY <1>1, <2>1
<1>4. ASSUME NEW f \in InFlight', NEW g \in InFlight', f # g
      PROVE  request'[f].on \cap request'[g].on \subseteq overlapped'
  BY <1>2, <1>4 DEF IInv, ShapeOK, InFlight
<1>5. \A g \in InFlight' : RequestOK(request[g])'
  BY <1>3
<1>6. ShapeOK'
  BY <1>1, <1>4, <1>5 DEF IInv, ShapeOK
<1>7. OneLevel'
  BY <1>1 DEF IInv, OneLevel
<1> QED  BY <1>6, <1>7 DEF IInv

LEMMA BeginKeeps ==
  ASSUME IInv, NEW h \in Handlers, NEW r, Begin(h, r), RequestOK(r), UNCHANGED category
  PROVE  IInv'
<1>1. /\ DOMAIN request' = Handlers /\ r = request'[h]
      /\ \A g \in Handlers \ {h} : request'[g] = request[g]
      /\ overlapped \subseteq overlapped'
      /\ \A g \in InFlight : r.on \cap request[g].on \subseteq overlapped'
  BY DEF Begin, IInv, ShapeOK
<1> QED  BY <1>1, RequestsKeep

LEMMA GoOnKeeps ==
  ASSUME IInv, NEW h \in Handlers, h \in InFlight, NEW r, GoOn(h, r), UNCHANGED category,
         r # Null => RequestOK(r) /\ r.on = request[h].on
  PROVE  IInv'
<1>1. /\ DOMAIN request' = Handlers /\ r = request'[h]
      /\ \A g \in Handlers \ {h} : request'[g] = request[g]
      /\ overlapped' = overlapped
  BY DEF GoOn, IInv, ShapeOK
<1>2. r # Null => \A g \in InFlight \ {h} : r.on \cap request[g].on \subseteq overlapped'
  BY <1>1 DEF IInv, ShapeOK
<1> QED  BY <1>1, <1>2, RequestsKeep

-----------------------------------------------------------------------------
(* Steps that write one: the row of c gets a parent its request has found,  *)
(* or keeps it.                                                             *)
Follows(r, c, row) ==
  \/ c \in Rows /\ row.parent = category[c].parent
  \/ row.parent = Null
  \/ /\ row.parent \in Rows /\ row.parent \in r.on /\ row.parent # c
     /\ Top(row.parent, c)
     /\ \/ c \notin Rows
        \/ c \in r.on /\ \A x \in Existing(category) : category[x].parent = c => c \in overlapped

LEMMA WriteKeeps ==
  ASSUME IInv, NEW h \in Handlers, NEW r, r = request[h], r # Null, End(h),
         NEW c \in CategoryIds, NEW row \in CategoryRow,
         category' = [category EXCEPT ![c] = row],
         c \notin Rows \/ row.deleted \/ ~category[c].deleted,
         Follows(r, c, row)
  PROVE  IInv'
<1> DEFINE p == row.parent
<1>1. /\ category'[c] = row /\ row # Null
      /\ \A x \in CategoryIds \ {c} : category'[x] = category[x]
      /\ p \in CategoryIds \cup {Null}
      /\ category' \in [CategoryIds -> CategoryRow \cup {Null}]
  BY CategoryAssumption DEF IInv, ShapeOK, CategoryRow
<1>2. /\ Rows' = Rows \cup {c}
      /\ \A x \in Existing(category)' : x = c \/ x \in Existing(category)
      /\ \A x \in CategoryIds : x # c => (x \in Existing(category)' <=> x \in Existing(category))
      /\ c \in Rows => (c \in Existing(category)' => c \in Existing(category))
  BY <1>1 DEF Rows, Existing
<1>3. /\ overlapped' = overlapped
      /\ DOMAIN request' = Handlers
      /\ \A g \in InFlight' : g # h /\ g \in InFlight /\ request'[g] = request[g]
  BY DEF End, GoOn, IInv, ShapeOK, InFlight
<1>4. h \in InFlight
  BY DEF InFlight
<1>5. \A x \in Rows' : category'[x].parent # Null => category'[x].parent \in Rows'
  BY <1>1, <1>2 DEF IInv, ShapeOK, Rows, Follows
\* Whoever has c for a parent is told apart by an overlap once c gets one.
<1>6. ASSUME NEW g \in InFlight', NEW q, q = request'[g]
      PROVE  RequestOK(q)'
  <2>1. /\ RequestOK(q) /\ q.on \cap r.on \subseteq overlapped
    BY <1>3, <1>4, <1>6 DEF IInv, ShapeOK
  <2>2. ASSUME NEW z \in Rows, z \in q.on, category[z].parent = Null
        PROVE  category'[z].parent = Null \/ z \in overlapped
    BY <1>1, <2>1, <2>2 DEF Rows, Follows
  <2>3. q.op = "createCategory" => CreateOK(q)'
    <3>1. ASSUME q.op = "createCategory", q.parent # Null
          PROVE  /\ q.parent \in Rows' /\ q.parent \in q.on
                 /\ category'[q.parent].parent = Null \/ q.parent \in overlapped'
      BY <1>2, <1>3, <2>1, <2>2, <3>1 DEF RequestOK, CreateOK
    <3> QED  BY <3>1 DEF CreateOK
  <2>4. ASSUME q.op \in {"countChildren", "updateCategory"}
        PROVE  UpdateOK(q)'
    <3>1. UpdateOK(q)
      BY <2>1, <2>4 DEF RequestOK
    <3>2. ASSUME q.moves, q.parent # Null
          PROVE  Top(q.parent, q.category)'
      BY <1>3, <2>2, <3>1, <3>2 DEF UpdateOK, Top
    <3>3. ASSUME q.moves, q.parent # Null, q.op = "updateCategory",
                 NEW x \in Existing(category)', category'[x].parent = q.category
          PROVE  q.category \in overlapped'
      <4>1. CASE x = c /\ ~(c \in Rows /\ p = category[c].parent)
        <5>1. p # Null /\ p = q.category
          BY <1>1, <3>1, <3>3, <4>1, CategoryAssumption DEF UpdateOK, Rows
        <5> QED  BY <1>3, <2>1, <3>1, <4>1, <5>1 DEF UpdateOK, Follows
      <4>2. CASE x = c /\ c \in Rows /\ p = category[c].parent
        BY <1>1, <1>2, <1>3, <3>1, <3>3, <4>2 DEF UpdateOK
      <4>3. CASE x # c
        <5>1. x \in Existing(category) /\ category'[x] = category[x]
          BY <1>1, <1>2, <3>3, <4>3 DEF Existing
        <5> QED  BY <1>3, <3>1, <3>3, <5>1 DEF UpdateOK
      <4> QED  BY <4>1, <4>2, <4>3
    <3> QED  BY <1>2, <3>1, <3>2, <3>3 DEF UpdateOK
  <2> QED  BY <1>2, <2>1, <2>3, <2>4 DEF RequestOK
<1>7. \A g \in InFlight' : RequestOK(request[g])'
  BY <1>6
<1>8. \A f, g \in InFlight' : f # g => request'[f].on \cap request'[g].on \subseteq overlapped'
  BY <1>3 DEF IInv, ShapeOK
<1>9. ShapeOK'
  BY <1>1, <1>3, <1>5, <1>7, <1>8 DEF ShapeOK
<1>10. ASSUME NEW x \in Existing(category)', NEW y, y = category'[x].parent, y # Null,
              category'[y].parent # Null
       PROVE  x \in overlapped \/ y \in overlapped
  <2>1. x \in CategoryIds /\ x \in Rows' /\ y \in Rows'
    BY <1>5, <1>10 DEF Existing, Rows
  <2>2. CASE x # c /\ y # c
    <3>1. x \in Existing(category) /\ category[x].parent = y /\ category[y].parent # Null
      BY <1>1, <1>2, <1>10, <2>1, <2>2 DEF Existing, Rows
    <3> QED  BY <1>10, <3>1 DEF IInv, OneLevel
  <2>3. CASE x = c /\ y # c
    <3>1. y = p /\ category[y].parent # Null
      BY <1>1, <1>10, <2>1, <2>3 DEF Rows
    <3>2. CASE c \in Rows /\ p = category[c].parent
      BY <1>2, <1>10, <2>3, <3>1, <3>2 DEF IInv, OneLevel
    <3>3. CASE ~(c \in Rows /\ p = category[c].parent)
      BY <1>10, <2>3, <3>1, <3>3 DEF Top, Follows
    <3> QED  BY <3>2, <3>3
  <2>4. CASE x # c /\ y = c
    <3>1. x \in Existing(category) /\ category[x].parent = c /\ p # Null
      BY <1>1, <1>2, <1>10, <2>4 DEF Existing
    <3>2. c \in Rows
      BY <1>10, <2>4, <3>1 DEF IInv, ShapeOK, Existing, Rows
    <3>3. CASE p = category[c].parent
      BY <1>10, <2>4, <3>1, <3>3 DEF IInv, OneLevel
    <3>4. CASE p # category[c].parent
      BY <2>4, <3>1, <3>2, <3>4 DEF Follows
    <3> QED  BY <3>3, <3>4
  <2>5. CASE x = c /\ y = c
    <3>1. p = c /\ p # Null
      BY <1>1, <1>10, <2>5
    <3>2. c \in Rows /\ p = category[c].parent
      BY <3>1 DEF Follows
    <3> QED  BY <1>2, <1>10, <2>5, <3>1, <3>2 DEF IInv, OneLevel
  <2> QED  BY <2>2, <2>3, <2>4, <2>5
<1>11. OneLevel'
  BY <1>3, <1>10 DEF OneLevel
<1> QED  BY <1>9, <1>11 DEF IInv

LEMMA CreateKeeps ==
  ASSUME IInv, NEW h \in Handlers, NEW c \in CategoryIds, NEW active \in BOOLEAN,
         CreateCategory(h, c, active)
  PROVE  IInv'
<1> DEFINE r == request[h]
           row == [parent |-> r.parent, active |-> active, deleted |-> FALSE]
<1>1. /\ h \in InFlight /\ CreateOK(r) /\ End(h) /\ c \notin Rows
      /\ category' = [category EXCEPT ![c] = row]
  BY DEF CreateCategory, Doing, IInv, ShapeOK, InFlight, RequestOK, Rows
<1>2. row \in CategoryRow /\ row.parent = r.parent
  BY <1>1 DEF CreateOK, Rows, CategoryRow
<1>3. Follows(r, c, row)
  BY <1>1, <1>2 DEF CreateOK, Top, Follows
<1>4. r # Null /\ r = request[h]
  BY <1>1 DEF InFlight
<1> HIDE DEF r, row
<1> QED  BY <1>1, <1>2, <1>3, <1>4, WriteKeeps

LEMMA UpdateKeeps ==
  ASSUME IInv, NEW h \in Handlers, UpdateCategory(h)
  PROVE  IInv'
<1> DEFINE r == request[h]
           c == r.category
           row == [category[c] EXCEPT !.active = r.active,
                                      !.parent = IF r.moves THEN r.parent ELSE category[c].parent]
<1>1. /\ h \in InFlight /\ r.op = "updateCategory" /\ UpdateOK(r) /\ End(h)
      /\ c \in Rows /\ c \in CategoryIds /\ category[c] \in CategoryRow
  BY DEF UpdateCategory, Doing, IInv, ShapeOK, InFlight, RequestOK, UpdateOK, Rows
<1>2. r.moves => r.parent = Null \/ r.parent \in CategoryIds
  BY <1>1 DEF UpdateOK, Rows
<1>3. /\ row \in CategoryRow
      /\ row.parent = IF r.moves THEN r.parent ELSE category[c].parent
      /\ row.deleted = category[c].deleted
  BY <1>1, <1>2 DEF CategoryRow, UpdateOK
<1>4. category' = [category EXCEPT ![c] = row]
  BY DEF UpdateCategory
<1>5. Follows(r, c, row)
  BY <1>1, <1>3 DEF UpdateOK, Follows
<1>6. r # Null
  BY <1>1 DEF InFlight
<1>7. c \notin Rows \/ row.deleted \/ ~category[c].deleted
  BY <1>1, <1>3 DEF CategoryRow
<1> HIDE DEF r, c, row
<1> QED  BY <1>1, <1>3, <1>4, <1>5, <1>6, <1>7, WriteKeeps DEF r

LEMMA DeleteKeeps ==
  ASSUME IInv, NEW h \in Handlers, DeleteCategory(h)
  PROVE  IInv'
<1> DEFINE r == request[h]
           c == r.category
           row == [category[c] EXCEPT !.deleted = TRUE, !.active = FALSE]
<1>1. /\ h \in InFlight /\ End(h) /\ c \in Rows /\ c \in CategoryIds /\ category[c] \in CategoryRow
      /\ category' = [category EXCEPT ![c] = row]
  BY DEF DeleteCategory, Doing, IInv, ShapeOK, InFlight, RequestOK, Rows
<1>2. row \in CategoryRow /\ row.parent = category[c].parent /\ row.deleted
  BY <1>1 DEF CategoryRow
<1>3. Follows(r, c, row)
  BY <1>1, <1>2 DEF Follows
<1>4. r # Null
  BY <1>1 DEF InFlight
<1> HIDE DEF r, c, row
<1> QED  BY <1>1, <1>2, <1>3, <1>4, WriteKeeps DEF r

LEMMA CountKeeps ==
  ASSUME IInv, NEW h \in Handlers, CountChildren(h)
  PROVE  IInv'
<1> DEFINE r == request[h]
           q == [r EXCEPT !.op = "updateCategory"]
<1>1. h \in InFlight /\ r.op = "countChildren" /\ UpdateOK(r)
  BY DEF CountChildren, Doing, IInv, ShapeOK, InFlight, RequestOK
<1>2. GoOn(h, q) /\ UNCHANGED category /\ ChildrenOf(category, r.category) = {}
  BY DEF CountChildren, categoryVars
<1>3. /\ q.on = r.on /\ q.category = r.category /\ q.moves = r.moves /\ q.active = r.active
      /\ q.parent = r.parent
      /\ q.op # "createCategory" /\ q.op # "deleteCategory"
  BY <1>1
<1> HIDE DEF q
<1>4. UpdateOK(q)
  BY <1>1, <1>2, <1>3 DEF UpdateOK, ChildrenOf
<1>5. RequestOK(q)
  BY <1>3, <1>4 DEF RequestOK
<1> QED  BY <1>1, <1>2, <1>3, <1>5, GoOnKeeps

LEMMA BeginUpdateKeeps ==
  ASSUME IInv, NEW h \in Handlers, NEW c \in CategoryIds, NEW p \in CategoryIds \cup {Null},
         NEW moves \in BOOLEAN, NEW active \in BOOLEAN,
         BeginUpdateCategory(h, c, moves, p, active)
  PROVE  IInv'
<1> DEFINE r == [op |-> IF moves /\ p # Null THEN "countChildren" ELSE "updateCategory",
                 on |-> {c} \cup (IF moves THEN {p} \ {Null} ELSE {}),
                 category |-> c, moves |-> moves, parent |-> p, active |-> active]
<1>1. /\ Begin(h, r) /\ UNCHANGED category
      /\ c \in Existing(category)
      /\ moves /\ p # Null => p \in Existing(category) /\ p # c /\ category[p].parent = Null
  BY DEF BeginUpdateCategory, categoryVars, ResolvesParent
<1>2. UpdateOK(r)
  BY <1>1 DEF UpdateOK, Rows, Existing, Top
<1>3. RequestOK(r)
  BY <1>2 DEF RequestOK
<1> HIDE DEF r
<1> QED  BY <1>1, <1>3, BeginKeeps

LEMMA StepKeeps == IInv /\ [CategoriesNext]_<<requestVars, categoryVars>> => IInv'
<1> SUFFICES ASSUME IInv, [CategoriesNext]_<<requestVars, categoryVars>> PROVE IInv'
  OBVIOUS
<1>1. CASE UNCHANGED <<requestVars, categoryVars>>
  BY <1>1 DEF IInv, ShapeOK, OneLevel, Rows, Existing, InFlight, RequestOK, CreateOK, UpdateOK, Top,
              requestVars, categoryVars
<1>2. ASSUME NEW h \in Handlers, NEW c \in CategoryIds, NEW p \in CategoryIds \cup {Null},
             BeginCreateCategory(h, c, p)
      PROVE  IInv'
  <2> DEFINE r == [op |-> "createCategory", on |-> {p} \ {Null}, parent |-> p]
  <2>1. Begin(h, r) /\ UNCHANGED category /\ ResolvesParent(p, Null)
    BY <1>2 DEF BeginCreateCategory, categoryVars
  <2>2. RequestOK(r)
    BY <2>1 DEF RequestOK, CreateOK, ResolvesParent, Rows, Existing
  <2> HIDE DEF r
  <2> QED  BY <2>1, <2>2, BeginKeeps
<1>3. ASSUME NEW h \in Handlers, NEW c \in CategoryIds, NEW p \in CategoryIds \cup {Null},
             NEW moves \in BOOLEAN, NEW active \in BOOLEAN, BeginUpdateCategory(h, c, moves, p, active)
      PROVE  IInv'
  BY <1>3, BeginUpdateKeeps
<1>4. ASSUME NEW h \in Handlers, NEW c \in CategoryIds, BeginDeleteCategory(h, c) PROVE IInv'
  <2> DEFINE r == [op |-> "deleteCategory", on |-> {c}, category |-> c]
  <2>1. Begin(h, r) /\ UNCHANGED category /\ RequestOK(r)
    BY <1>4 DEF BeginDeleteCategory, categoryVars, RequestOK, Rows, Existing
  <2> HIDE DEF r
  <2> QED  BY <2>1, BeginKeeps
<1>5. ASSUME NEW h \in Handlers, NEW c \in CategoryIds, NEW active \in BOOLEAN,
             CreateCategory(h, c, active)
      PROVE  IInv'
  BY <1>5, CreateKeeps
<1>6. ASSUME NEW h \in Handlers, CountChildren(h) PROVE IInv'
  BY <1>6, CountKeeps
<1>7. ASSUME NEW h \in Handlers, UpdateCategory(h) PROVE IInv'
  BY <1>7, UpdateKeeps
<1>8. ASSUME NEW h \in Handlers, DeleteCategory(h) PROVE IInv'
  BY <1>8, DeleteKeeps
<1>9. ASSUME NEW h \in Handlers, Abandon(h), UNCHANGED categoryVars PROVE IInv'
  BY <1>9, GoOnKeeps DEF Abandon, End, InFlight, categoryVars
<1> QED  BY <1>1, <1>2, <1>3, <1>4, <1>5, <1>6, <1>7, <1>8, <1>9 DEF CategoriesNext, CategoryRequest

\* The categories stay at two levels, but for a category and its parent that
\* two requests were on at once: the count of the children and the parent that
\* was resolved still hold when the row is written.
THEOREM TwoLevels == CategoriesSpec => []OneLevel
<1>1. CategoriesInit /\ RequestsInit => IInv
  BY CategoryAssumption
     DEF CategoriesInit, RequestsInit, IInv, ShapeOK, OneLevel, Rows, Existing, InFlight
<1>2. IInv => OneLevel
  BY DEF IInv
<1> QED  BY <1>1, <1>2, StepKeeps, PTL DEF CategoriesSpec

-----------------------------------------------------------------------------
(* Products and their stock rows: products.service.ts.                     *)

HasRow(p) == p \in ProductIds /\ product[p] # Null

\* What a request in flight works on, which no step takes away.
ProductRequestOK(r) ==
  /\ "op" \in DOMAIN r
  /\ r.op \in {"createProduct", "reassign"} => r.category \in CategoryIds
  /\ r.op \in {"updateProduct", "ensureStock", "deleteProduct", "createVariant"} => HasRow(r.product)
  /\ r.op = "updateProduct" =>
       /\ r = [op |-> "updateProduct", on |-> {r.product}, product |-> r.product, new |-> r.new]
       /\ r.new \in ProductUpdate
  /\ r.op = "writeVariant" => r.variant \in VariantIds /\ stock[r.variant] # Null

ProductInv ==
  /\ DOMAIN request = Handlers
  /\ product \in [ProductIds -> ProductRow \cup {Null}]
  /\ DOMAIN variant = VariantIds /\ DOMAIN stock = ProductIds \cup VariantIds
  /\ \A h \in InFlight : ProductRequestOK(request[h])
  /\ StockRows

\* A step of one request that takes no row away, and leaves a stock row, or the
\* request to make it, with every product that is sold without variants.
LEMMA ProductStep ==
  ASSUME ProductInv, NEW h \in Handlers, NEW r, request' = [request EXCEPT ![h] = r],
         r = Null \/ ProductRequestOK(r)',
         product' \in [ProductIds -> ProductRow \cup {Null}],
         DOMAIN variant' = VariantIds, DOMAIN stock' = ProductIds \cup VariantIds,
         \A p \in ProductIds : product[p] # Null => product'[p] # Null,
         \A i \in ProductIds \cup VariantIds : stock[i] # Null => stock'[i] # Null,
         \A v \in VariantIds : variant'[v] # Null => stock'[v] # Null,
         unstocked \subseteq unstocked',
         \A p \in LiveProducts' :
           \/ product'[p].hasVariants \/ stock'[p] # Null \/ p \in unstocked'
           \/ r # Null /\ r.op = "ensureStock" /\ r.product = p
           \/ /\ p \in LiveProducts /\ (product[p].hasVariants => product'[p].hasVariants)
              /\ ~(Doing(h, "ensureStock") /\ request[h].product = p)
  PROVE  ProductInv'
<1>1. request'[h] = r /\ DOMAIN request' = Handlers /\ \A g \in Handlers \ {h} : request'[g] = request[g]
  BY DEF ProductInv
<1>2. \A q : ProductRequestOK(q) => ProductRequestOK(q)'
  BY DEF ProductRequestOK, HasRow
<1>3. (\A g \in InFlight : ProductRequestOK(request[g]))'
  BY <1>1, <1>2 DEF ProductInv, InFlight
<1>4. \A p \in LiveProducts' \ unstocked' :
        \/ product'[p].hasVariants \/ stock'[p] # Null
        \/ \E g \in Handlers : Doing(g, "ensureStock")' /\ request'[g].product = p
  <2> SUFFICES ASSUME NEW p \in LiveProducts', p \notin unstocked',
                      ~product'[p].hasVariants, stock'[p] = Null
               PROVE  \E g \in Handlers : Doing(g, "ensureStock")' /\ request'[g].product = p
    OBVIOUS
  <2>1. CASE r # Null /\ r.op = "ensureStock" /\ r.product = p
    BY <1>1, <2>1 DEF Doing
  <2>2. CASE /\ p \in LiveProducts /\ (product[p].hasVariants => product'[p].hasVariants)
             /\ ~(Doing(h, "ensureStock") /\ request[h].product = p)
    <3>1. ~product[p].hasVariants /\ stock[p] = Null /\ p \notin unstocked
      BY <2>2 DEF LiveProducts
    <3>2. PICK g \in Handlers : Doing(g, "ensureStock") /\ request[g].product = p
      BY <2>2, <3>1 DEF ProductInv, StockRows
    <3>3. g # h /\ request'[g] = request[g]
      BY <1>1, <2>2, <3>2
    <3> QED  BY <3>2, <3>3 DEF Doing
  <2> QED  BY <2>1, <2>2
<1>5. StockRows'
  BY <1>4 DEF StockRows
<1> QED  BY <1>1, <1>3, <1>5 DEF ProductInv

\* A step that changes no row.
LEMMA ProductRequestStep ==
  ASSUME ProductInv, NEW h \in Handlers, NEW r, request' = [request EXCEPT ![h] = r],
         r = Null \/ ProductRequestOK(r), UNCHANGED <<product, variant, stock>>,
         unstocked \subseteq unstocked',
         Doing(h, "ensureStock") => request[h].product \in unstocked'
  PROVE  ProductInv'
<1>1. r = Null \/ ProductRequestOK(r)'
  BY DEF ProductRequestOK, HasRow
<1>2. LiveProducts' = LiveProducts
  BY DEF LiveProducts
<1>3. \A v \in VariantIds : variant'[v] # Null => stock'[v] # Null
  BY DEF ProductInv, StockRows
<1>4. \A p \in LiveProducts' : p \in unstocked' \/ ~(Doing(h, "ensureStock") /\ request[h].product = p)
  OBVIOUS
<1>5. \A p \in LiveProducts' :
        \/ product'[p].hasVariants \/ stock'[p] # Null \/ p \in unstocked'
        \/ r # Null /\ r.op = "ensureStock" /\ r.product = p
        \/ /\ p \in LiveProducts /\ (product[p].hasVariants => product'[p].hasVariants)
           /\ ~(Doing(h, "ensureStock") /\ request[h].product = p)
  BY <1>2, <1>4
<1>6. /\ product' \in [ProductIds -> ProductRow \cup {Null}]
      /\ DOMAIN variant' = VariantIds /\ DOMAIN stock' = ProductIds \cup VariantIds
      /\ \A p \in ProductIds : product[p] # Null => product'[p] # Null
      /\ \A i \in ProductIds \cup VariantIds : stock[i] # Null => stock'[i] # Null
  BY DEF ProductInv
<1>7. /\ ProductInv /\ h \in Handlers /\ request' = [request EXCEPT ![h] = r]
      /\ unstocked \subseteq unstocked'
  OBVIOUS
<1> QED  BY ONLY <1>1, <1>3, <1>5, <1>6, <1>7, ProductStep

LEMMA BeginProductKeeps ==
  ASSUME ProductInv, NEW h \in Handlers, NEW r, Begin(h, r), ProductRequestOK(r),
         UNCHANGED productVars
  PROVE  ProductInv'
<1>1. request' = [request EXCEPT ![h] = r] /\ ~Doing(h, "ensureStock")
  BY DEF Begin, Doing
<1> QED  BY <1>1, ProductRequestStep DEF productVars

LEMMA CreateProductKeeps ==
  ASSUME ProductInv, NEW h \in Handlers, NEW p \in ProductIds, NEW hasVariants \in BOOLEAN,
         NEW on \in BOOLEAN, NEW n \in Units, CreateProduct(h, p, hasVariants, on, n)
  PROVE  ProductInv'
<1> DEFINE row == [category |-> request[h].category, hasVariants |-> hasVariants,
                   active |-> on, deleted |-> FALSE]
<1>1. /\ request' = [request EXCEPT ![h] = Null] /\ ~Doing(h, "ensureStock")
      /\ product' = [product EXCEPT ![p] = row]
      /\ stock' = IF hasVariants THEN stock ELSE [stock EXCEPT ![p] = n]
      /\ UNCHANGED <<variant, unstocked>>
  BY DEF CreateProduct, End, GoOn, Doing
<1>2. row \in ProductRow /\ row.hasVariants = hasVariants
  <2>1. h \in InFlight /\ request[h].op = "createProduct"
    BY DEF CreateProduct, Doing, InFlight
  <2>2. request[h].category \in CategoryIds
    BY <2>1 DEF ProductInv, ProductRequestOK
  <2> QED  BY <2>2 DEF ProductRow
<1> HIDE DEF row
<1>3. /\ product' \in [ProductIds -> ProductRow \cup {Null}] /\ product'[p] = row /\ row # Null
      /\ \A q \in ProductIds \ {p} : product'[q] = product[q]
  BY <1>1, <1>2, ProductAssumption DEF ProductInv
<1>4. /\ DOMAIN stock' = ProductIds \cup VariantIds
      /\ \A i \in ProductIds \cup VariantIds : stock[i] # Null => stock'[i] # Null
      /\ hasVariants \/ stock'[p] # Null
  BY <1>1, ProductAssumption DEF ProductInv
<1>5. \A v \in VariantIds : variant'[v] # Null => stock'[v] # Null
  BY <1>1, <1>4 DEF ProductInv, StockRows
<1>6. \A q \in LiveProducts' : q = p \/ (q \in LiveProducts /\ product'[q] = product[q])
  BY <1>3 DEF LiveProducts
<1>7. \A q \in LiveProducts' :
        \/ product'[q].hasVariants \/ stock'[q] # Null
        \/ q \in LiveProducts /\ product'[q] = product[q]
  BY <1>2, <1>3, <1>4, <1>6
<1>8. \A q \in ProductIds : product[q] # Null => product'[q] # Null
  BY <1>3
<1> QED  BY <1>1, <1>3, <1>4, <1>5, <1>7, <1>8, ProductStep DEF ProductInv

LEMMA UpdateProductKeeps ==
  ASSUME ProductInv, NEW h \in Handlers, UpdateProduct(h)
  PROVE  ProductInv'
<1> PICK r : r = request[h]
  OBVIOUS
<1> DEFINE p == r.product
           given(new, old) == IF new = Null THEN old ELSE new
           row == [product[p] EXCEPT !.category = given(r.new.category, @),
                                     !.hasVariants = given(r.new.hasVariants, @),
                                     !.active = given(r.new.active, @)]
           q == [op |-> "ensureStock", on |-> {p}, product |-> p, new |-> r.new]
           next == IF r.new.hasVariants = FALSE THEN q ELSE Null
<1>1. /\ HasRow(p) /\ r.new \in ProductUpdate /\ "op" \in DOMAIN r
      /\ r = [op |-> "updateProduct", on |-> {p}, product |-> p, new |-> r.new]
      /\ ~Doing(h, "ensureStock")
  <2>1. h \in InFlight /\ r.op = "updateProduct"
    BY DEF UpdateProduct, Doing, InFlight
  <2>2. ProductRequestOK(r)
    BY <2>1 DEF ProductInv
  <2> QED  BY <2>1, <2>2 DEF ProductRequestOK, Doing
<1>2. p \in ProductIds /\ product[p] \in ProductRow
  BY <1>1 DEF HasRow, ProductInv
<1>3. /\ row \in ProductRow
      /\ r.new.hasVariants # FALSE /\ product[p].hasVariants => row.hasVariants
      /\ row.deleted = product[p].deleted
  <2>1. /\ given(r.new.category, product[p].category) \in CategoryIds
        /\ given(r.new.hasVariants, product[p].hasVariants) \in BOOLEAN
        /\ given(r.new.active, product[p].active) \in BOOLEAN
        /\ r.new.hasVariants # FALSE /\ product[p].hasVariants
             => given(r.new.hasVariants, product[p].hasVariants)
    BY <1>1, <1>2 DEF ProductRow, ProductUpdate
  <2> HIDE DEF given
  <2> QED  BY <1>2, <2>1 DEF ProductRow
<1>4. [r EXCEPT !.op = "ensureStock"] = q
  BY <1>1
<1>5. /\ product' = [product EXCEPT ![p] = row] /\ request' = [request EXCEPT ![h] = next]
      /\ UNCHANGED <<variant, stock, unstocked>>
  <2>1. product' = [product EXCEPT ![p] = row]
    BY DEF UpdateProduct
  <2>2. request' = [request EXCEPT ![h] = next]
    BY <1>4 DEF UpdateProduct, GoOn, End
  <2> QED  BY <2>1, <2>2 DEF UpdateProduct
<1> HIDE DEF row
<1>6. /\ product' \in [ProductIds -> ProductRow \cup {Null}] /\ product'[p] = row /\ row # Null
      /\ \A x \in ProductIds \ {p} : product'[x] = product[x]
  BY <1>2, <1>3, <1>5, ProductAssumption DEF ProductInv
<1>7. q # Null
  BY <1>1, <1>2, ProductAssumption DEF EnsureRequest
<1>8. next = Null \/ ProductRequestOK(next)'
  <2>1. HasRow(p)'
    BY <1>2, <1>6 DEF HasRow
  <2>2. next = q => next.op = "ensureStock" /\ next.product = p /\ "op" \in DOMAIN next
    OBVIOUS
  <2>3. next = q \/ next = Null
    OBVIOUS
  <2> HIDE DEF next, q
  <2> QED  BY <2>1, <2>2, <2>3 DEF ProductRequestOK
<1>9. \A v \in VariantIds : variant'[v] # Null => stock'[v] # Null
  BY <1>5 DEF ProductInv, StockRows
<1>10. \A x \in LiveProducts' :
         \/ next # Null /\ next.op = "ensureStock" /\ next.product = x
         \/ x \in LiveProducts /\ (product[x].hasVariants => product'[x].hasVariants)
  <2> SUFFICES ASSUME NEW x \in LiveProducts'
               PROVE  \/ next # Null /\ next.op = "ensureStock" /\ next.product = x
                      \/ x \in LiveProducts /\ (product[x].hasVariants => product'[x].hasVariants)
    OBVIOUS
  <2>1. CASE x # p
    BY <1>6, <2>1 DEF LiveProducts
  <2>2. CASE x = p
    <3>1. x \in LiveProducts
      BY <1>1, <1>3, <1>6, <2>2 DEF LiveProducts, HasRow
    <3>2. CASE r.new.hasVariants = FALSE
      BY <1>7, <2>2, <3>2
    <3>3. CASE r.new.hasVariants # FALSE
      BY <1>3, <1>6, <2>2, <3>1, <3>3
    <3> QED  BY <3>2, <3>3
  <2> QED  BY <2>1, <2>2
<1>11. \A x \in ProductIds : product[x] # Null => product'[x] # Null
  BY <1>6
<1> HIDE DEF next
<1> QED  BY <1>1, <1>5, <1>6, <1>8, <1>9, <1>10, <1>11, ProductStep DEF ProductInv

LEMMA EnsureStockKeeps ==
  ASSUME ProductInv, NEW h \in Handlers, EnsureStock(h)
  PROVE  ProductInv'
<1> DEFINE p == request[h].product
<1>1. /\ request' = [request EXCEPT ![h] = Null] /\ UNCHANGED <<product, variant, unstocked>>
      /\ stock' = [stock EXCEPT ![p] = IF stock[p] = Null THEN 0 ELSE stock[p]]
      /\ h \in InFlight /\ request[h].op = "ensureStock"
  BY DEF EnsureStock, End, GoOn, Doing, InFlight
<1>2. p \in ProductIds
  BY <1>1 DEF ProductInv, ProductRequestOK, HasRow
<1>3. /\ DOMAIN stock' = ProductIds \cup VariantIds /\ stock'[p] # Null
      /\ \A i \in ProductIds \cup VariantIds : stock[i] # Null => stock'[i] # Null
  BY <1>1, <1>2, ProductAssumption DEF ProductInv
<1>4. \A v \in VariantIds : variant'[v] # Null => stock'[v] # Null
  BY <1>1, <1>3 DEF ProductInv, StockRows
<1>5. \A x \in LiveProducts' : x \in LiveProducts /\ product'[x] = product[x]
  BY <1>1 DEF LiveProducts
<1>6. \A x \in LiveProducts' : stock'[x] # Null \/ (x \in LiveProducts /\ product'[x] = product[x] /\ x # p)
  BY <1>3, <1>5
<1> HIDE DEF p
<1>7. \A x \in LiveProducts' :
        \/ stock'[x] # Null
        \/ /\ x \in LiveProducts /\ (product[x].hasVariants => product'[x].hasVariants)
           /\ ~(Doing(h, "ensureStock") /\ request[h].product = x)
  BY <1>6 DEF p
<1> QED  BY <1>1, <1>3, <1>4, <1>7, ProductStep DEF ProductInv

\* One product is written, which stays sold as it was, or all are.
LEMMA WriteProductsKeeps ==
  ASSUME ProductInv, NEW h \in Handlers, DeleteProduct(h) \/ BulkReassign(h)
  PROVE  ProductInv'
<1> DEFINE r == request[h]
<1>1. /\ request' = [request EXCEPT ![h] = Null] /\ UNCHANGED <<variant, stock, unstocked>>
      /\ h \in InFlight /\ request[h].op \in {"deleteProduct", "reassign"}
      /\ ~Doing(h, "ensureStock")
  BY DEF DeleteProduct, BulkReassign, End, GoOn, Doing, InFlight
<1>2. ASSUME NEW x \in ProductIds
      PROVE  /\ product'[x] \in ProductRow \cup {Null}
             /\ product[x] # Null => product'[x] # Null
             /\ x \in LiveProducts' => x \in LiveProducts /\ product'[x].hasVariants = product[x].hasVariants
  <2>1. CASE DeleteProduct(h)
    <3> DEFINE row == [[product[r.product] EXCEPT !.deleted = TRUE] EXCEPT !.active = FALSE]
    <3>1. r.product \in ProductIds /\ product[r.product] \in ProductRow
      BY <1>1, <2>1 DEF ProductInv, ProductRequestOK, HasRow, DeleteProduct, Doing
    <3>2. row \in ProductRow /\ row.deleted
      BY <3>1 DEF ProductRow
    <3>3. product' = [product EXCEPT ![r.product] = row]
      BY <2>1 DEF DeleteProduct
    <3> HIDE DEF row
    <3>4. product'[r.product] = row /\ (x # r.product => product'[x] = product[x])
      BY <3>1, <3>3 DEF ProductInv
    <3> QED  BY <3>2, <3>4, ProductAssumption DEF LiveProducts, ProductInv
  <2>2. CASE BulkReassign(h)
    <3> DEFINE row == [product[x] EXCEPT !.category = r.category]
    <3>1. r.category \in CategoryIds
      BY <1>1, <2>2 DEF ProductInv, ProductRequestOK, BulkReassign, Doing
    <3>2. product[x] \in ProductRow =>
            row \in ProductRow /\ row.hasVariants = product[x].hasVariants /\ row.deleted = product[x].deleted
      BY <3>1 DEF ProductRow
    <3>3. (product'[x] = row /\ x \in LiveProducts) \/ product'[x] = product[x]
      BY <2>2 DEF BulkReassign
    <3> HIDE DEF row
    <3>4. x \in LiveProducts => product[x] \in ProductRow
      BY DEF LiveProducts, ProductInv
    <3> QED  BY <3>2, <3>3, <3>4, ProductAssumption DEF LiveProducts, ProductInv
  <2> QED  BY <2>1, <2>2
<1>3. product' \in [ProductIds -> ProductRow \cup {Null}]
  <2>1. product' = [x \in ProductIds |-> product'[x]]
    BY DEF DeleteProduct, BulkReassign, ProductInv
  <2> QED  BY <1>2, <2>1
<1>4. \A v \in VariantIds : variant'[v] # Null => stock'[v] # Null
  BY <1>1 DEF ProductInv, StockRows
<1>5. \A x \in LiveProducts' : x \in LiveProducts /\ (product[x].hasVariants => product'[x].hasVariants)
  BY <1>2 DEF LiveProducts
<1> QED  BY <1>1, <1>2, <1>3, <1>4, <1>5, ProductStep DEF ProductInv

LEMMA CreateVariantKeeps ==
  ASSUME ProductInv, NEW h \in Handlers, NEW v \in VariantIds, NEW on \in BOOLEAN, NEW n \in Units,
         CreateVariant(h, v, on, n)
  PROVE  ProductInv'
<1> DEFINE r == request[h]
           p == r.product
           row == [product[p] EXCEPT !.hasVariants = TRUE]
<1>1. /\ request' = [request EXCEPT ![h] = Null] /\ UNCHANGED unstocked
      /\ h \in InFlight /\ r.op = "createVariant" /\ ~Doing(h, "ensureStock")
      /\ stock' = [stock EXCEPT ![v] = n]
      /\ product' = IF r.flag THEN [product EXCEPT ![p] = row] ELSE product
      /\ DOMAIN variant' = VariantIds /\ \A w \in VariantIds \ {v} : variant'[w] = variant[w]
  BY DEF CreateVariant, End, GoOn, Doing, InFlight, ProductInv
<1>2. p \in ProductIds /\ product[p] \in ProductRow
  BY <1>1 DEF ProductInv, ProductRequestOK, HasRow
<1>3. row \in ProductRow /\ row.hasVariants
  BY <1>2 DEF ProductRow
<1> HIDE DEF row
<1>4. /\ product' \in [ProductIds -> ProductRow \cup {Null}]
      /\ \A x \in ProductIds \ {p} : product'[x] = product[x]
      /\ product'[p] = row \/ product'[p] = product[p]
  BY <1>1, <1>2, <1>3 DEF ProductInv
<1>5. /\ \A x \in ProductIds : product[x] # Null => product'[x] # Null
      /\ \A x \in LiveProducts' : product'[x].hasVariants \/ (x \in LiveProducts /\ product'[x] = product[x])
  BY <1>3, <1>4, ProductAssumption DEF LiveProducts
<1>6. /\ DOMAIN stock' = ProductIds \cup VariantIds /\ stock'[v] # Null
      /\ \A i \in ProductIds \cup VariantIds : stock[i] # Null => stock'[i] # Null
  BY <1>1, ProductAssumption DEF ProductInv
<1>7. \A w \in VariantIds : variant'[w] # Null => stock'[w] # Null
  BY <1>1, <1>6 DEF ProductInv, StockRows
<1> QED  BY <1>1, <1>4, <1>5, <1>6, <1>7, ProductStep

LEMMA WriteVariantKeeps ==
  ASSUME ProductInv, NEW h \in Handlers, WriteVariant(h)
  PROVE  ProductInv'
<1> DEFINE w == request[h].variant
<1>1. /\ request' = [request EXCEPT ![h] = Null] /\ UNCHANGED <<product, stock, unstocked>>
      /\ h \in InFlight /\ request[h].op = "writeVariant" /\ ~Doing(h, "ensureStock")
      /\ DOMAIN variant' = VariantIds /\ \A v \in VariantIds \ {w} : variant'[v] = variant[v]
  BY DEF WriteVariant, End, GoOn, Doing, InFlight, ProductInv
<1>2. w \in VariantIds /\ stock[w] # Null
  BY <1>1 DEF ProductInv, ProductRequestOK
<1>3. \A v \in VariantIds : variant'[v] # Null => stock'[v] # Null
  BY <1>1, <1>2 DEF ProductInv, StockRows
<1>4. \A x \in LiveProducts' : x \in LiveProducts /\ product'[x] = product[x]
  BY <1>1 DEF LiveProducts
<1> QED  BY <1>1, <1>3, <1>4, ProductStep DEF ProductInv

\* Beginning a request on products or variants.
LEMMA BeginProductRequest ==
  ASSUME ProductInv, NEW h \in Handlers,
         \/ \E c \in CategoryIds :
              BeginCreateProduct(h, c) \/ \E ps \in SUBSET LiveProducts : BeginBulkReassign(h, ps, c)
         \/ \E p \in ProductIds :
              \/ \E new \in ProductUpdates : BeginUpdateProduct(h, p, new)
              \/ BeginDeleteProduct(h, p) \/ BeginCreateVariant(h, p)
         \/ \E v \in VariantIds, on \in BOOLEAN :
              \E deletes \in BOOLEAN : BeginWriteVariant(h, v, deletes, on)
  PROVE  ProductInv'
<1>1. ASSUME NEW c \in CategoryIds, BeginCreateProduct(h, c)
      PROVE  ProductInv'
  <2> DEFINE r == [op |-> "createProduct", on |-> {}, category |-> c]
  <2>1. ProductRequestOK(r)
    BY DEF ProductRequestOK
  <2> QED  BY <1>1, <2>1, BeginProductKeeps DEF BeginCreateProduct
<1>2. ASSUME NEW c \in CategoryIds, NEW ps \in SUBSET LiveProducts, BeginBulkReassign(h, ps, c)
      PROVE  ProductInv'
  <2> DEFINE r == [op |-> "reassign", on |-> ps, products |-> ps, category |-> c]
  <2>1. ProductRequestOK(r)
    BY DEF ProductRequestOK
  <2> QED  BY <1>2, <2>1, BeginProductKeeps DEF BeginBulkReassign
<1>3. ASSUME NEW p \in ProductIds, NEW new \in ProductUpdates, BeginUpdateProduct(h, p, new)
      PROVE  ProductInv'
  <2> DEFINE r == [op |-> "updateProduct", on |-> {p}, product |-> p, new |-> new]
  <2>1. new \in ProductUpdate
    BY DEF ProductUpdates, ProductUpdate, Same
  <2>2. HasRow(p)
    BY <1>3 DEF BeginUpdateProduct, OnProduct, LiveProducts, HasRow
  <2>3. ProductRequestOK(r)
    BY <2>1, <2>2 DEF ProductRequestOK
  <2>4. Begin(h, r) /\ UNCHANGED productVars
    <3>1. [[op |-> "updateProduct", on |-> {}, product |-> p, new |-> new] EXCEPT !.on = {p}] = r
      OBVIOUS
    <3> QED  BY <1>3, <3>1 DEF BeginUpdateProduct, OnProduct
  <2> HIDE DEF r
  <2> QED  BY <2>3, <2>4, BeginProductKeeps
<1>4. ASSUME NEW p \in ProductIds, BeginDeleteProduct(h, p)
      PROVE  ProductInv'
  <2> DEFINE r == [op |-> "deleteProduct", on |-> {p}, product |-> p]
  <2>1. HasRow(p)
    BY <1>4 DEF BeginDeleteProduct, OnProduct, LiveProducts, HasRow
  <2>2. ProductRequestOK(r)
    BY <2>1 DEF ProductRequestOK
  <2>3. Begin(h, r) /\ UNCHANGED productVars
    <3>1. [[op |-> "deleteProduct", on |-> {}, product |-> p] EXCEPT !.on = {p}] = r
      OBVIOUS
    <3> QED  BY <1>4, <3>1 DEF BeginDeleteProduct, OnProduct
  <2> HIDE DEF r
  <2> QED  BY <2>2, <2>3, BeginProductKeeps
<1>5. ASSUME NEW p \in ProductIds, BeginCreateVariant(h, p)
      PROVE  ProductInv'
  <2> DEFINE r == [op |-> "createVariant", on |-> {p}, product |-> p, flag |-> ~product[p].hasVariants]
  <2>1. HasRow(p)
    BY <1>5 DEF BeginCreateVariant, LiveProducts, HasRow
  <2>2. ProductRequestOK(r)
    BY <2>1 DEF ProductRequestOK
  <2> QED  BY <1>5, <2>2, BeginProductKeeps DEF BeginCreateVariant
<1>6. ASSUME NEW v \in VariantIds, NEW on \in BOOLEAN, NEW deletes \in BOOLEAN,
             BeginWriteVariant(h, v, deletes, on)
      PROVE  ProductInv'
  <2> DEFINE r == [op |-> "writeVariant", on |-> {v}, variant |-> v, deletes |-> deletes, active |-> on]
  <2>1. stock[v] # Null
    BY <1>6 DEF BeginWriteVariant, LiveVariants, ProductInv, StockRows
  <2>2. ProductRequestOK(r)
    BY <2>1 DEF ProductRequestOK
  <2> QED  BY <1>6, <2>2, BeginProductKeeps DEF BeginWriteVariant
<1> QED  BY <1>1, <1>2, <1>3, <1>4, <1>5, <1>6

\* The requests on categories are none of these.
LEMMA CategoryRequestStep ==
  ASSUME ProductInv, NEW h \in Handlers, CategoryRequest(h), UNCHANGED productVars
  PROVE  ProductInv'
<1>1. ASSUME request' = [request EXCEPT ![h] = Null], ~Doing(h, "ensureStock")
      PROVE  ProductInv'
  BY <1>1, ProductRequestStep DEF productVars
<1>2. ASSUME NEW c \in CategoryIds, NEW p \in CategoryIds \cup {Null}, BeginCreateCategory(h, c, p)
      PROVE  ProductInv'
  <2> DEFINE r == [op |-> "createCategory", on |-> {p} \ {Null}, parent |-> p]
  <2>1. r.op = "createCategory" /\ "op" \in DOMAIN r
    OBVIOUS
  <2>2. request' = [request EXCEPT ![h] = r] /\ ~Doing(h, "ensureStock")
    BY <1>2 DEF BeginCreateCategory, Begin, Doing
  <2>3. ProductRequestOK(r)
    BY <2>1 DEF ProductRequestOK
  <2> HIDE DEF r
  <2> QED  BY <2>2, <2>3, ProductRequestStep DEF productVars
<1>3. ASSUME NEW c \in CategoryIds, NEW p \in CategoryIds \cup {Null}, NEW moves \in BOOLEAN,
             NEW on \in BOOLEAN, BeginUpdateCategory(h, c, moves, p, on)
      PROVE  ProductInv'
  <2> DEFINE r == [op |-> IF moves /\ p # Null THEN "countChildren" ELSE "updateCategory",
                   on |-> {c} \cup (IF moves THEN {p} \ {Null} ELSE {}),
                   category |-> c, moves |-> moves, parent |-> p, active |-> on]
  <2>1. r.op \in {"countChildren", "updateCategory"} /\ "op" \in DOMAIN r
    OBVIOUS
  <2>2. request' = [request EXCEPT ![h] = r] /\ ~Doing(h, "ensureStock")
    BY <1>3 DEF BeginUpdateCategory, Begin, Doing
  <2>3. ProductRequestOK(r)
    BY <2>1 DEF ProductRequestOK
  <2> HIDE DEF r
  <2> QED  BY <2>2, <2>3, ProductRequestStep DEF productVars
<1>4. ASSUME NEW c \in CategoryIds, BeginDeleteCategory(h, c)
      PROVE  ProductInv'
  <2> DEFINE r == [op |-> "deleteCategory", on |-> {c}, category |-> c]
  <2>1. r.op = "deleteCategory" /\ "op" \in DOMAIN r
    OBVIOUS
  <2>2. request' = [request EXCEPT ![h] = r] /\ ~Doing(h, "ensureStock")
    BY <1>4 DEF BeginDeleteCategory, Begin, Doing
  <2>3. ProductRequestOK(r)
    BY <2>1 DEF ProductRequestOK
  <2> HIDE DEF r
  <2> QED  BY <2>2, <2>3, ProductRequestStep DEF productVars
<1>5. CASE CountChildren(h)
  <2> DEFINE r == [request[h] EXCEPT !.op = "updateCategory"]
  <2>1. "op" \in DOMAIN request[h] /\ request[h].op = "countChildren"
    BY <1>5 DEF CountChildren, Doing, ProductInv, InFlight, ProductRequestOK
  <2>2. r.op = "updateCategory" /\ "op" \in DOMAIN r
    BY <2>1
  <2>3. request' = [request EXCEPT ![h] = r] /\ ~Doing(h, "ensureStock")
    BY <1>5, <2>1 DEF CountChildren, GoOn, Doing
  <2>4. ProductRequestOK(r)
    BY <2>2 DEF ProductRequestOK
  <2> HIDE DEF r
  <2> QED  BY <2>3, <2>4, ProductRequestStep DEF productVars
<1>6. CASE \/ \E c \in CategoryIds, on \in BOOLEAN : CreateCategory(h, c, on)
           \/ UpdateCategory(h) \/ DeleteCategory(h)
  BY <1>1, <1>6 DEF CreateCategory, UpdateCategory, DeleteCategory, Doing, End, GoOn
<1> QED  BY <1>2, <1>3, <1>4, <1>5, <1>6 DEF CategoryRequest

LEMMA ProductsNextKeeps ==
  ASSUME ProductInv, ProductsNext
  PROVE  ProductInv'
<1> PICK h \in Handlers :
      \/ \E c \in CategoryIds :
           BeginCreateProduct(h, c) \/ \E ps \in SUBSET LiveProducts : BeginBulkReassign(h, ps, c)
      \/ \E p \in ProductIds :
           \/ \E hasVariants, on \in BOOLEAN : \E n \in Units : CreateProduct(h, p, hasVariants, on, n)
           \/ \E new \in ProductUpdates : BeginUpdateProduct(h, p, new)
           \/ BeginDeleteProduct(h, p) \/ BeginCreateVariant(h, p)
      \/ \E v \in VariantIds, on \in BOOLEAN :
           \/ \E n \in Units : CreateVariant(h, v, on, n)
           \/ \E deletes \in BOOLEAN : BeginWriteVariant(h, v, deletes, on)
      \/ UpdateProduct(h) \/ EnsureStock(h) \/ DeleteProduct(h) \/ BulkReassign(h)
      \/ WriteVariant(h) \/ AbandonProduct(h)
  BY DEF ProductsNext
<1>1. CASE \E p \in ProductIds : \E hasVariants, on \in BOOLEAN : \E n \in Units :
             CreateProduct(h, p, hasVariants, on, n)
  BY <1>1, CreateProductKeeps
<1>2. CASE \E v \in VariantIds, on \in BOOLEAN : \E n \in Units : CreateVariant(h, v, on, n)
  BY <1>2, CreateVariantKeeps
<1>3. CASE UpdateProduct(h) \/ EnsureStock(h) \/ DeleteProduct(h) \/ BulkReassign(h) \/ WriteVariant(h)
  BY <1>3, UpdateProductKeeps, EnsureStockKeeps, WriteProductsKeeps, WriteVariantKeeps
<1>4. CASE AbandonProduct(h)
  <2>1. /\ request' = [request EXCEPT ![h] = Null] /\ UNCHANGED <<product, variant, stock>>
        /\ unstocked \subseteq unstocked'
        /\ Doing(h, "ensureStock") => request[h].product \in unstocked'
    BY <1>4 DEF AbandonProduct, Abandon, End, GoOn
  <2> QED  BY <2>1, ProductRequestStep
<1> QED  BY <1>1, <1>2, <1>3, <1>4, BeginProductRequest

LEMMA ProductStepsKeep ==
  ProductInv /\ [CategoriesAndProductsNext]_<<requestVars, categoryVars, productVars>> => ProductInv'
<1>1. ASSUME ProductInv, UNCHANGED <<requestVars, categoryVars, productVars>>
      PROVE  ProductInv'
  <2>1. UNCHANGED <<request, product, variant, stock, unstocked>>
    BY <1>1 DEF requestVars, productVars
  <2>2. \A r : ProductRequestOK(r) => ProductRequestOK(r)'
    BY <2>1 DEF ProductRequestOK, HasRow
  <2>3. (\A g \in InFlight : ProductRequestOK(request[g]))'
    BY <1>1, <2>1, <2>2 DEF ProductInv, InFlight
  <2>4. StockRows'
    <3>1. StockRows
      BY <1>1 DEF ProductInv
    <3> QED  BY <2>1, <3>1 DEF StockRows, LiveProducts, Doing
  <2> QED  BY <1>1, <2>1, <2>3, <2>4 DEF ProductInv
<1> QED  BY <1>1, ProductsNextKeeps, CategoryRequestStep DEF CategoriesAndProductsNext

\* Every variant, and every product sold without variants, has the stock row
\* that an order locks (ProductsService), however many requests overlap.
THEOREM StockRowsAlways == ProductsSpec => []StockRows
<1>1. CategoriesInit /\ ProductsInit /\ RequestsInit => ProductInv
  BY DEF ProductsInit, RequestsInit, ProductInv, InFlight, StockRows, LiveProducts
<1>2. ProductInv => StockRows
  BY DEF ProductInv
<1> QED  BY <1>1, <1>2, ProductStepsKeep, PTL DEF ProductsSpec

-----------------------------------------------------------------------------
(* Images and their files.                                                  *)

BannerOps == {"banner", "clearBanner", "writeBanner"}

\* A request of these has saved the file that its row will name.
Bringing == BannerOps \cup {"add", "insert", "clearSelected", "insertSelected"}

\* Who a file belongs to: an image row, a category, a request that will write
\* it to a row.
OwnsRow(k, f) ==
  \E p \in Galleries : \E i \in DOMAIN images[p] : k = <<"row", p, i>> /\ images[p][i].path = f
OwnsBanner(k, f) ==
  \E c \in Banners :
    /\ k = <<"banner", c, 0>> /\ f # Null
    /\ \/ banner[c] = f
       \/ \E h \in InFlight : /\ request[h].op \in {"clearBanner", "writeBanner"}
                              /\ request[h].of = c /\ request[h].image = f
OwnsNew(k, f) ==
  \E h \in InFlight : /\ k = <<"new", h, 0>> /\ f # Null
                      /\ request[h].op \in Bringing /\ request[h].file = f
Owns(k, f) == OwnsRow(k, f) \/ OwnsBanner(k, f) \/ OwnsNew(k, f)

Exclusive == \A k, l, f : Owns(k, f) /\ Owns(l, f) => k = l

ImageRequestOK(r) ==
  /\ r \in ImageRequests /\ r.on = {r.of}
  /\ IF r.op \in BannerOps THEN r.of \in Banners ELSE r.of \in Galleries
  /\ r.op \in {"add", "insert", "select", "clearSelected", "insertSelected", "mark", "deleteFile"} =>
       r.primary \in BOOLEAN
  /\ r.op \in {"insert", "select", "clearSelected", "insertSelected"} => r.count \in Nat
  /\ r.op \in {"add", "insert", "clearSelected", "insertSelected"} => r.file \in ImageFiles
  /\ r.op \in {"setPrimary", "writePrimary", "mark", "deleteFile", "findNext", "promote"} =>
       r.image \in DOMAIN images[r.of]
  /\ r.op \in {"mark", "deleteFile"} => r.file = images[r.of][r.image].path
  /\ r.op = "deleteFile" => images[r.of][r.image].deleted
  /\ r.op \in {"clearBanner", "writeBanner"} => r.image \in ImageFiles \cup {Null}

NewStored ==
  \A h \in InFlight : request[h].op \in Bringing /\ request[h].file # Null => request[h].file \in stored

ImageInv ==
  /\ DOMAIN request = Handlers
  /\ images \in [Galleries -> Seq(ImageRow)]
  /\ banner \in [Banners -> ImageFiles \cup {Null}]
  /\ \A h \in InFlight : ImageRequestOK(request[h])
  /\ stored \subseteq ImageFiles
  /\ Exclusive /\ NewStored /\ ImagesServed /\ BannerServed

-----------------------------------------------------------------------------
(* Rows.                                                                    *)

\* Rows are only added, and what is deleted stays deleted.
RowsGrow ==
  /\ images' \in [Galleries -> Seq(ImageRow)]
  /\ \A p \in Galleries : \A i \in DOMAIN images[p] :
       /\ i \in DOMAIN images'[p] /\ images'[p][i].path = images[p][i].path
       /\ images[p][i].deleted => images'[p][i].deleted
RowsStay == RowsGrow /\ \A p \in Galleries : DOMAIN images'[p] = DOMAIN images[p]

LEMMA RowsSame ==
  ASSUME ImageInv, images' = images
  PROVE  RowsStay
BY DEF RowsStay, RowsGrow, ImageInv

LEMMA RowsTyped ==
  ASSUME ImageInv, NEW p \in Galleries
  PROVE  /\ images[p] \in Seq(ImageRow) /\ Len(images[p]) \in Nat
         /\ DOMAIN images[p] = 1..Len(images[p])
         /\ \A i \in DOMAIN images[p] : images[p][i] \in ImageRow
<1>1. images[p] \in Seq(ImageRow)
  BY DEF ImageInv
<1>2. Len(images[p]) \in Nat /\ DOMAIN images[p] = 1..Len(images[p])
  BY <1>1, LenProperties
<1>3. \A i \in 1..Len(images[p]) : images[p][i] \in ImageRow
  BY <1>1, ElementOfSeq
<1> QED  BY <1>1, <1>2, <1>3

\* Taking the primary flag off some rows.
LEMMA WithoutRows ==
  ASSUME ImageInv, NEW p \in Galleries, NEW off
  PROVE  LET s == Without(p, off) IN
         /\ s \in Seq(ImageRow) /\ Len(s) = Len(images[p]) /\ DOMAIN s = DOMAIN images[p]
         /\ \A i \in DOMAIN images[p] :
              /\ s[i].path = images[p][i].path /\ s[i].deleted = images[p][i].deleted
              /\ s[i].primary = (images[p][i].primary /\ i \notin off)
<1> DEFINE s == Without(p, off)
<1>1. s = [i \in DOMAIN images[p] |-> IF i \in off THEN [images[p][i] EXCEPT !.primary = FALSE] ELSE images[p][i]]
  BY DEF Without
<1> HIDE DEF s
<1>2. ASSUME NEW i \in DOMAIN images[p]
      PROVE  /\ s[i] \in ImageRow /\ s[i].path = images[p][i].path /\ s[i].deleted = images[p][i].deleted
             /\ s[i].primary = (images[p][i].primary /\ i \notin off)
  <2>1. images[p][i] \in ImageRow
    BY RowsTyped
  <2>2. s[i] = IF i \in off THEN [images[p][i] EXCEPT !.primary = FALSE] ELSE images[p][i]
    BY <1>1
  <2> QED  BY <2>1, <2>2 DEF ImageRow
<1>3. DOMAIN s = 1..Len(images[p]) /\ Len(images[p]) \in Nat
  BY <1>1, RowsTyped
<1>4. s \in [1..Len(images[p]) -> ImageRow]
  <2>1. \A i \in 1..Len(images[p]) : s[i] \in ImageRow
    BY <1>2, RowsTyped
  <2>2. s = [i \in 1..Len(images[p]) |-> s[i]]
    BY <1>1, RowsTyped
  <2> QED  BY <2>1, <2>2
<1>5. s \in Seq(ImageRow)
  BY <1>3, <1>4, SeqDef
<1>6. Len(s) = Len(images[p])
  BY <1>3, <1>5, LenProperties
<1> QED  BY <1>1, <1>2, <1>3, <1>5, <1>6, RowsTyped DEF s

\* Replacing the rows of one product by as many.
LEMMA RowsReplaced ==
  ASSUME ImageInv, NEW p \in Galleries, NEW s, images' = [images EXCEPT ![p] = s],
         s \in Seq(ImageRow), DOMAIN s = DOMAIN images[p],
         \A i \in DOMAIN images[p] : /\ s[i].path = images[p][i].path
                                     /\ images[p][i].deleted => s[i].deleted
  PROVE  RowsStay
<1>1. \A q \in Galleries : images'[q] = IF q = p THEN s ELSE images[q]
  BY DEF ImageInv
<1>2. images' \in [Galleries -> Seq(ImageRow)]
  BY DEF ImageInv
<1> QED  BY <1>1, <1>2 DEF RowsStay, RowsGrow

\* Changing a row of a product.
LEMMA RowChanged ==
  ASSUME ImageInv, NEW p \in Galleries, NEW i \in DOMAIN images[p], NEW s, NEW row,
         s \in Seq(ImageRow), DOMAIN s = DOMAIN images[p], row \in ImageRow
  PROVE  LET t == [s EXCEPT ![i] = row] IN
         /\ t \in Seq(ImageRow) /\ DOMAIN t = DOMAIN images[p] /\ t[i] = row
         /\ \A j \in DOMAIN images[p] \ {i} : t[j] = s[j]
<1>1. i \in 1..Len(s) /\ DOMAIN s = 1..Len(s)
  BY LenProperties
<1>2. [s EXCEPT ![i] = row] \in Seq(ImageRow)
  BY <1>1, ExceptSeq
<1> QED  BY <1>2

\* Adding a row.
LEMMA RowAppended ==
  ASSUME ImageInv, NEW p \in Galleries, NEW s, NEW row,
         s \in Seq(ImageRow), Len(s) = Len(images[p]), row \in ImageRow
  PROVE  LET t == Append(s, row) n == Len(images[p]) + 1 IN
         /\ t \in Seq(ImageRow) /\ DOMAIN t = DOMAIN images[p] \cup {n} /\ n \notin DOMAIN images[p]
         /\ t[n] = row /\ \A j \in DOMAIN images[p] : t[j] = s[j]
<1>1. DOMAIN images[p] = 1..Len(images[p]) /\ Len(images[p]) \in Nat
  BY RowsTyped
<1>2. /\ Append(s, row) \in Seq(ImageRow) /\ Len(Append(s, row)) = Len(s) + 1
      /\ Append(s, row)[Len(s) + 1] = row
      /\ \A j \in 1..Len(s) : Append(s, row)[j] = s[j]
  OBVIOUS
<1>3. DOMAIN Append(s, row) = 1..(Len(s) + 1)
  BY <1>2, LenProperties
<1> QED  BY <1>1, <1>2, <1>3

-----------------------------------------------------------------------------
(* Requests.                                                                *)

LEMMA RequestsOfImagesKeep ==
  ASSUME ImageInv, RowsGrow, NEW r, ImageRequestOK(r)
  PROVE  ImageRequestOK(r)'
<1>1. r.op \notin BannerOps => r.of \in Galleries
  BY DEF ImageRequestOK
<1>2. r.op \in {"setPrimary", "writePrimary", "mark", "deleteFile", "findNext", "promote"} => r.op \notin BannerOps
  BY DEF BannerOps
<1>3. r.op \in {"setPrimary", "writePrimary", "mark", "deleteFile", "findNext", "promote"} =>
        r.image \in DOMAIN images'[r.of]
  BY <1>1, <1>2 DEF ImageRequestOK, RowsGrow
<1>4. r.op \in {"mark", "deleteFile"} => r.file = images'[r.of][r.image].path
  BY <1>1, <1>2 DEF ImageRequestOK, RowsGrow
<1>5. r.op = "deleteFile" => images'[r.of][r.image].deleted
  BY <1>1, <1>2 DEF ImageRequestOK, RowsGrow
<1> QED  BY <1>3, <1>4, <1>5 DEF ImageRequestOK

\* A step of one request.
LEMMA ImageStep ==
  ASSUME ImageInv, NEW h \in Handlers, NEW r, request' = [request EXCEPT ![h] = r],
         RowsGrow, r = Null \/ ImageRequestOK(r)'
  PROVE  /\ DOMAIN request' = Handlers /\ request'[h] = r
         /\ \A g \in Handlers \ {h} : request'[g] = request[g]
         /\ \A g \in Handlers \ {h} : g \in InFlight' <=> g \in InFlight
         /\ (\A g \in InFlight : ImageRequestOK(request[g]))'
<1>1. /\ DOMAIN request' = Handlers /\ request'[h] = r
      /\ \A g \in Handlers \ {h} : request'[g] = request[g]
  BY DEF ImageInv
<1>2. \A g \in Handlers \ {h} : g \in InFlight' <=> g \in InFlight
  BY <1>1 DEF InFlight
<1>3. ASSUME NEW g \in InFlight' PROVE ImageRequestOK(request[g])'
  <2>1. CASE g = h
    BY <1>1, <1>3, <2>1 DEF InFlight
  <2>2. CASE g # h
    <3> PICK q : q = request[g]
      OBVIOUS
    <3>1. ImageRequestOK(q)
      BY <1>2, <1>3, <2>2 DEF ImageInv, InFlight
    <3>2. ImageRequestOK(q)'
      BY <3>1, RequestsOfImagesKeep
    <3> QED  BY <1>1, <1>3, <2>2, <3>2 DEF InFlight
  <2> QED  BY <2>1, <2>2
<1> QED  BY <1>1, <1>2, <1>3

\* No request other than h's comes to own a file by its step.
LEMMA BannersKept ==
  ASSUME ImageInv, NEW h \in Handlers, NEW r, request' = [request EXCEPT ![h] = r], RowsGrow,
         r = Null \/ ImageRequestOK(r)', banner' = banner,
         r # Null /\ r.op \in {"clearBanner", "writeBanner"} /\ r.image # Null =>
           \/ r.image = banner[r.of]
           \/ /\ Doing(h, "clearBanner") /\ request[h].of = r.of /\ request[h].image = r.image,
         NEW k, NEW f, OwnsBanner(k, f)'
  PROVE  OwnsBanner(k, f)
<1>1. PICK c \in Banners :
        /\ k = <<"banner", c, 0>> /\ f # Null
        /\ \/ banner'[c] = f
           \/ \E g \in InFlight' : /\ request'[g].op \in {"clearBanner", "writeBanner"}
                                   /\ request'[g].of = c /\ request'[g].image = f
  BY DEF OwnsBanner
<1>2. CASE banner[c] = f
  BY <1>1, <1>2 DEF OwnsBanner
<1>3. CASE banner[c] # f
  <2>1. PICK g \in InFlight' : /\ request'[g].op \in {"clearBanner", "writeBanner"}
                               /\ request'[g].of = c /\ request'[g].image = f
    BY <1>1, <1>3
  <2>2. CASE g # h
    <3>1. g \in InFlight /\ request[g] = request'[g]
      BY <2>1, <2>2, ImageStep DEF InFlight
    <3> QED  BY <1>1, <2>1, <3>1 DEF OwnsBanner
  <2>3. CASE g = h
    <3>1. r = request'[g] /\ r # Null
      BY <2>1, <2>3, ImageStep DEF InFlight
    <3>2. /\ h \in InFlight /\ request[h].op = "clearBanner"
          /\ request[h].of = c /\ request[h].image = f
      BY <1>1, <1>3, <2>1, <3>1 DEF Doing, InFlight
    <3> QED  BY <1>1, <3>2 DEF OwnsBanner
  <2> QED  BY <2>2, <2>3
<1> QED  BY <1>2, <1>3

LEMMA NewKept ==
  ASSUME ImageInv, NEW h \in Handlers, NEW r, request' = [request EXCEPT ![h] = r], RowsGrow,
         r = Null \/ ImageRequestOK(r)', NEW k, NEW f, OwnsNew(k, f)'
  PROVE  \/ OwnsNew(k, f) /\ k # <<"new", h, 0>>
         \/ k = <<"new", h, 0>> /\ f # Null /\ r # Null /\ r.op \in Bringing /\ r.file = f
<1>1. PICK g \in InFlight' : /\ k = <<"new", g, 0>> /\ f # Null
                             /\ request'[g].op \in Bringing /\ request'[g].file = f
  BY DEF OwnsNew
<1>2. CASE g = h
  <2>1. r = request'[g] /\ r # Null
    BY <1>1, <1>2, ImageStep DEF InFlight
  <2> QED  BY <1>1, <1>2, <2>1
<1>3. CASE g # h
  <2>1. g \in InFlight /\ request[g] = request'[g]
    BY <1>1, <1>3, ImageStep DEF InFlight
  <2> QED  BY <1>1, <1>3, <2>1 DEF OwnsNew
<1> QED  BY <1>2, <1>3

LEMMA RowsKept ==
  ASSUME ImageInv, RowsGrow, NEW k, NEW f, OwnsRow(k, f)'
  PROVE  \/ OwnsRow(k, f)
         \/ \E p \in Galleries : \E i \in DOMAIN images'[p] \ DOMAIN images[p] :
              k = <<"row", p, i>> /\ images'[p][i].path = f
<1>1. PICK p \in Galleries : \E i \in DOMAIN images'[p] : k = <<"row", p, i>> /\ images'[p][i].path = f
  BY DEF OwnsRow
<1> QED  BY <1>1 DEF OwnsRow, RowsGrow

-----------------------------------------------------------------------------
(* What is on disk.                                                         *)

LEMMA OwnersDiffer ==
  ASSUME ImageInv, NEW f
  PROVE  /\ \A p, q \in Galleries : \A i \in DOMAIN images[p], j \in DOMAIN images[q] :
              images[p][i].path = f /\ images[q][j].path = f => p = q /\ i = j
         /\ \A p \in Galleries, c \in Banners : \A i \in DOMAIN images[p] :
              images[p][i].path = f => ~OwnsBanner(<<"banner", c, 0>>, f)
         /\ \A p \in Galleries, h \in InFlight : \A i \in DOMAIN images[p] :
              images[p][i].path = f /\ request[h].op \in Bringing /\ f # Null => request[h].file # f
         /\ \A c, d \in Banners :
              OwnsBanner(<<"banner", c, 0>>, f) /\ OwnsBanner(<<"banner", d, 0>>, f) => c = d
         /\ \A c \in Banners, h \in InFlight :
              OwnsBanner(<<"banner", c, 0>>, f) /\ request[h].op \in Bringing => request[h].file # f
         /\ \A g, h \in InFlight :
              (/\ request[g].op \in Bringing /\ request[g].file = f /\ f # Null
               /\ request[h].op \in Bringing /\ request[h].file = f) => g = h
<1>1. \A p \in Galleries : \A i \in DOMAIN images[p] : images[p][i].path = f => Owns(<<"row", p, i>>, f)
  BY DEF Owns, OwnsRow
<1>2. \A h \in InFlight : request[h].op \in Bringing /\ request[h].file = f /\ f # Null => Owns(<<"new", h, 0>>, f)
  BY DEF Owns, OwnsNew
<1>3. \A c : OwnsBanner(<<"banner", c, 0>>, f) => Owns(<<"banner", c, 0>>, f) /\ f # Null
  BY DEF Owns, OwnsBanner
<1>4. \A k, l : Owns(k, f) /\ Owns(l, f) => k = l
  BY DEF ImageInv, Exclusive
<1> HIDE DEF Owns
<1>5. \A p, q \in Galleries : \A i \in DOMAIN images[p], j \in DOMAIN images[q] :
        images[p][i].path = f /\ images[q][j].path = f => p = q /\ i = j
  <2> SUFFICES ASSUME NEW p \in Galleries, NEW q \in Galleries,
                      NEW i \in DOMAIN images[p], NEW j \in DOMAIN images[q],
                      images[p][i].path = f, images[q][j].path = f
               PROVE  p = q /\ i = j
    OBVIOUS
  <2>1. <<"row", p, i>> = <<"row", q, j>>
    BY <1>1, <1>4
  <2> QED  BY <2>1
<1>6. \A p \in Galleries, c \in Banners : \A i \in DOMAIN images[p] :
        images[p][i].path = f => ~OwnsBanner(<<"banner", c, 0>>, f)
  <2> SUFFICES ASSUME NEW p \in Galleries, NEW c \in Banners, NEW i \in DOMAIN images[p],
                      images[p][i].path = f, OwnsBanner(<<"banner", c, 0>>, f)
               PROVE  FALSE
    OBVIOUS
  <2>1. <<"row", p, i>> = <<"banner", c, 0>>
    BY <1>1, <1>3, <1>4
  <2> QED  BY <2>1
<1>7. \A p \in Galleries, h \in InFlight : \A i \in DOMAIN images[p] :
        images[p][i].path = f /\ request[h].op \in Bringing /\ f # Null => request[h].file # f
  <2> SUFFICES ASSUME NEW p \in Galleries, NEW h \in InFlight, NEW i \in DOMAIN images[p],
                      images[p][i].path = f, request[h].op \in Bringing, f # Null, request[h].file = f
               PROVE  FALSE
    OBVIOUS
  <2>1. <<"row", p, i>> = <<"new", h, 0>>
    BY <1>1, <1>2, <1>4
  <2> QED  BY <2>1
<1>8. \A c, d \in Banners :
        OwnsBanner(<<"banner", c, 0>>, f) /\ OwnsBanner(<<"banner", d, 0>>, f) => c = d
  <2> SUFFICES ASSUME NEW c \in Banners, NEW d \in Banners,
                      OwnsBanner(<<"banner", c, 0>>, f), OwnsBanner(<<"banner", d, 0>>, f)
               PROVE  c = d
    OBVIOUS
  <2>1. <<"banner", c, 0>> = <<"banner", d, 0>>
    BY <1>3, <1>4
  <2> QED  BY <2>1
<1>9. \A c \in Banners, h \in InFlight :
        OwnsBanner(<<"banner", c, 0>>, f) /\ request[h].op \in Bringing => request[h].file # f
  <2> SUFFICES ASSUME NEW c \in Banners, NEW h \in InFlight, OwnsBanner(<<"banner", c, 0>>, f),
                      request[h].op \in Bringing, request[h].file = f
               PROVE  FALSE
    OBVIOUS
  <2>1. <<"banner", c, 0>> = <<"new", h, 0>>
    BY <1>2, <1>3, <1>4
  <2> QED  BY <2>1
<1>10. \A g, h \in InFlight :
         (/\ request[g].op \in Bringing /\ request[g].file = f /\ f # Null
          /\ request[h].op \in Bringing /\ request[h].file = f) => g = h
  <2> SUFFICES ASSUME NEW g \in InFlight, NEW h \in InFlight, f # Null,
                      request[g].op \in Bringing, request[g].file = f,
                      request[h].op \in Bringing, request[h].file = f
               PROVE  g = h
    OBVIOUS
  <2>1. <<"new", g, 0>> = <<"new", h, 0>>
    BY <1>2, <1>4
  <2> QED  BY <2>1
<1> QED  BY <1>5, <1>6, <1>7, <1>8, <1>9, <1>10

\* What a step of a request may do to the files on disk.
LEMMA FilesServed ==
  ASSUME ImageInv, NEW h \in Handlers, NEW r, request' = [request EXCEPT ![h] = r], RowsGrow,
         r = Null \/ ImageRequestOK(r)', unfinished \subseteq unfinished',
         \A p \in Galleries : \A i \in DOMAIN images'[p] \ DOMAIN images[p] : images'[p][i].path \in stored',
         r # Null /\ r.op \in Bringing /\ r.file # Null => r.file \in stored',
         \A c \in Banners :
           \/ /\ banner'[c] = banner[c]
              /\ Doing(h, "writeBanner") /\ request[h].of = c => c \in unfinished'
           \/ banner'[c] \in stored' \cup {Null},
         \A f \in stored \ stored' :
           \/ \E p \in Galleries : \E i \in DOMAIN images[p] : images[p][i].deleted /\ images[p][i].path = f
           \/ \E c \in Banners : /\ OwnsBanner(<<"banner", c, 0>>, f)
                                 /\ r # Null /\ r.op = "writeBanner" /\ r.of = c
  PROVE  NewStored' /\ ImagesServed' /\ BannerServed'
<1>1. ImageInv /\ NewStored /\ ImagesServed /\ BannerServed
  BY DEF ImageInv
<1>2. /\ request'[h] = r /\ \A g \in Handlers \ {h} : request'[g] = request[g]
      /\ \A g \in Handlers \ {h} : g \in InFlight' <=> g \in InFlight
  BY ImageStep
<1>3. ASSUME NEW g \in InFlight', request'[g].op \in Bringing, request'[g].file # Null
      PROVE  request'[g].file \in stored'
  <2>1. CASE g = h
    BY <1>2, <1>3, <2>1 DEF InFlight
  <2>2. CASE g # h
    <3> DEFINE f == request[g].file
    <3>1. g \in InFlight /\ request'[g] = request[g]
      BY <1>2, <1>3, <2>2 DEF InFlight
    <3>2. f \in stored
      BY <1>1, <1>3, <3>1 DEF NewStored
    <3>3. ~\E p \in Galleries : \E i \in DOMAIN images[p] : images[p][i].path = f
      BY <1>3, <3>1, OwnersDiffer
    <3>4. ~\E c \in Banners : OwnsBanner(<<"banner", c, 0>>, f)
      BY <1>3, <3>1, OwnersDiffer
    <3> QED  BY <3>1, <3>2, <3>3, <3>4
  <2> QED  BY <2>1, <2>2
<1>4. ASSUME NEW p \in Galleries, NEW i \in LiveImages(p)'
      PROVE  images'[p][i].path \in stored'
  <2>1. i \in DOMAIN images'[p] /\ ~images'[p][i].deleted
    BY DEF LiveImages
  <2>2. CASE i \in DOMAIN images[p]
    <3> PICK f : f = images[p][i].path
      OBVIOUS
    <3>1. images'[p][i].path = f /\ i \in LiveImages(p)
      BY <2>1, <2>2 DEF RowsGrow, LiveImages
    <3>2. f \in stored
      BY <1>1, <3>1 DEF ImagesServed
    <3>3. \A q \in Galleries : \A j \in DOMAIN images[q] : images[q][j].path = f => ~images[q][j].deleted
      <4> SUFFICES ASSUME NEW q \in Galleries, NEW j \in DOMAIN images[q], images[q][j].path = f
                   PROVE  ~images[q][j].deleted
        OBVIOUS
      <4>1. q = p /\ j = i
        BY <2>2, OwnersDiffer
      <4> QED  BY <3>1, <4>1 DEF LiveImages
    <3>4. ~\E c \in Banners : OwnsBanner(<<"banner", c, 0>>, f)
      BY <2>2, OwnersDiffer
    <3> QED  BY <3>1, <3>2, <3>3, <3>4
  <2> QED  BY <2>1, <2>2
<1>5. ASSUME NEW c \in Banners, c \notin unfinished', banner'[c] \notin stored' \cup {Null}
      PROVE  \E g \in InFlight' : Doing(g, "writeBanner")' /\ request'[g].of = c
  <2>1. /\ banner'[c] = banner[c] /\ c \notin unfinished
        /\ ~(Doing(h, "writeBanner") /\ request[h].of = c)
    BY <1>5
  <2>2. CASE banner[c] \in stored
    <3> DEFINE f == banner[c]
    <3>1. OwnsBanner(<<"banner", c, 0>>, f)
      BY <1>5, <2>1 DEF OwnsBanner
    <3>2. \A d \in Banners : OwnsBanner(<<"banner", d, 0>>, f) => d = c
      BY <3>1, OwnersDiffer
    <3>3. ~\E p \in Galleries : \E i \in DOMAIN images[p] : images[p][i].path = f
      BY <3>1, OwnersDiffer
    <3>4. r # Null /\ r.op = "writeBanner" /\ r.of = c
      BY <1>5, <2>1, <2>2, <3>2, <3>3
    <3> QED  BY <1>2, <3>4 DEF Doing, InFlight
  <2>3. CASE banner[c] \notin stored
    <3>1. PICK g \in InFlight : Doing(g, "writeBanner") /\ request[g].of = c
      BY <1>1, <1>5, <2>1, <2>3 DEF BannerServed
    <3>2. g # h /\ g \in Handlers
      BY <2>1, <3>1 DEF InFlight
    <3> QED  BY <1>2, <3>1, <3>2 DEF Doing
  <2> QED  BY <2>2, <2>3
<1>6. NewStored'
  BY <1>3 DEF NewStored
<1>7. ImagesServed'
  BY <1>4 DEF ImagesServed
<1>8. BannerServed'
  BY <1>5 DEF BannerServed
<1> QED  BY <1>6, <1>7, <1>8

\* A step after which every file belongs to whom it did.
LEMMA QuietStep ==
  ASSUME ImageInv, NEW h \in Handlers, NEW r, request' = [request EXCEPT ![h] = r], RowsStay,
         r = Null \/ ImageRequestOK(r)', unfinished \subseteq unfinished', banner' = banner,
         stored' \subseteq stored,
         r # Null /\ r.op \in Bringing /\ r.file # Null =>
           h \in InFlight /\ request[h].op \in Bringing /\ request[h].file = r.file,
         r # Null /\ r.op \in {"clearBanner", "writeBanner"} /\ r.image # Null =>
           \/ r.image = banner[r.of]
           \/ /\ Doing(h, "clearBanner") /\ request[h].of = r.of /\ request[h].image = r.image,
         Doing(h, "writeBanner") => request[h].of \in unfinished',
         \A f \in stored \ stored' :
           \/ \E p \in Galleries : \E i \in DOMAIN images[p] : images[p][i].deleted /\ images[p][i].path = f
           \/ \E c \in Banners : /\ OwnsBanner(<<"banner", c, 0>>, f)
                                 /\ r # Null /\ r.op = "writeBanner" /\ r.of = c
  PROVE  ImageInv'
<1>1. RowsGrow /\ \A p \in Galleries : DOMAIN images'[p] = DOMAIN images[p]
  BY DEF RowsStay
<1>2. ASSUME NEW k, NEW f, Owns(k, f)'
      PROVE  Owns(k, f)
  <2>1. OwnsRow(k, f)' => OwnsRow(k, f)
    BY <1>1, RowsKept
  <2>2. OwnsBanner(k, f)' => OwnsBanner(k, f)
    BY <1>1, BannersKept
  <2>3. ASSUME OwnsNew(k, f)' PROVE OwnsNew(k, f)
    <3>0. RowsGrow
      BY <1>1
    <3>1. \/ OwnsNew(k, f)
          \/ k = <<"new", h, 0>> /\ f # Null /\ r # Null /\ r.op \in Bringing /\ r.file = f
      BY ONLY <2>3, <3>0, ImageInv, request' = [request EXCEPT ![h] = r], RowsGrow, r = Null \/ ImageRequestOK(r)',
              OwnsNew(k, f)', h \in Handlers, NewKept
    <3> QED  BY <3>1 DEF OwnsNew
  <2> QED  BY <1>2, <2>1, <2>2, <2>3 DEF Owns
<1>3. Exclusive
  BY DEF ImageInv
<1>4. Exclusive'
  <2> HIDE DEF Owns
  <2> QED  BY <1>2, <1>3 DEF Exclusive
<1>5. r # Null /\ r.op \in Bringing /\ r.file # Null => r.file \in stored'
  <2> SUFFICES ASSUME r # Null, r.op \in Bringing, r.file # Null, r.file \notin stored' PROVE FALSE
    OBVIOUS
  <2>1. h \in InFlight /\ request[h].op \in Bringing /\ request[h].file = r.file
    OBVIOUS
  <2>2. r.file \in stored
    BY <2>1 DEF ImageInv, NewStored
  <2>3. ~\E p \in Galleries : \E i \in DOMAIN images[p] : images[p][i].path = r.file
    BY <2>1, OwnersDiffer
  <2>4. ~\E c \in Banners : OwnsBanner(<<"banner", c, 0>>, r.file)
    BY <2>1, OwnersDiffer
  <2> QED  BY <2>2, <2>3, <2>4
<1>6. \A c \in Banners : /\ banner'[c] = banner[c]
                         /\ Doing(h, "writeBanner") /\ request[h].of = c => c \in unfinished'
  OBVIOUS
<1>7. \A p \in Galleries : \A i \in DOMAIN images'[p] \ DOMAIN images[p] : images'[p][i].path \in stored'
  BY <1>1
<1>8. NewStored' /\ ImagesServed' /\ BannerServed'
  BY <1>1, <1>5, <1>6, <1>7, FilesServed
<1>9. DOMAIN request' = Handlers /\ (\A g \in InFlight : ImageRequestOK(request[g]))'
  BY <1>1, ImageStep
<1> QED  BY <1>1, <1>4, <1>8, <1>9 DEF ImageInv, RowsGrow

LEMMA ImageRequestGoes ==
  ASSUME NEW r \in ImageRequests, NEW op \in ImageOps
  PROVE  LET q == [r EXCEPT !.op = op] IN
         /\ q \in ImageRequests /\ q # Null /\ q.op = op /\ q.on = r.on /\ q.of = r.of /\ q.file = r.file
         /\ q.image = r.image /\ q.primary = r.primary /\ q.count = r.count /\ q.off = r.off
<1>1. [r EXCEPT !.op = op] \in ImageRequests
  BY DEF ImageRequests
<1> QED  BY <1>1, ImageAssumption DEF ImageRequests

LEMMA ImageRequestFile ==
  ASSUME NEW r \in ImageRequests, NEW file \in ImageFiles \cup {Null}
  PROVE  LET q == [r EXCEPT !.file = file] IN
         /\ q \in ImageRequests /\ q # Null /\ q.op = r.op /\ q.on = r.on /\ q.of = r.of /\ q.file = file
         /\ q.image = r.image /\ q.primary = r.primary /\ q.count = r.count /\ q.off = r.off
<1>1. [r EXCEPT !.file = file] \in ImageRequests
  BY DEF ImageRequests
<1> QED  BY <1>1, ImageAssumption DEF ImageRequests

LEMMA ImageRequestImage ==
  ASSUME NEW r \in ImageRequests, NEW image \in ImageFiles \cup Nat \cup {Null}
  PROVE  LET q == [r EXCEPT !.image = image] IN
         /\ q \in ImageRequests /\ q # Null /\ q.op = r.op /\ q.on = r.on /\ q.of = r.of /\ q.file = r.file
         /\ q.image = image /\ q.primary = r.primary /\ q.count = r.count /\ q.off = r.off
<1>1. [r EXCEPT !.image = image] \in ImageRequests
  BY DEF ImageRequests
<1> QED  BY <1>1, ImageAssumption DEF ImageRequests

LEMMA ImageRequestOff ==
  ASSUME NEW r \in ImageRequests, NEW off \in SUBSET Nat
  PROVE  LET q == [r EXCEPT !.off = off] IN
         /\ q \in ImageRequests /\ q # Null /\ q.op = r.op /\ q.on = r.on /\ q.of = r.of /\ q.file = r.file
         /\ q.image = r.image /\ q.primary = r.primary /\ q.count = r.count /\ q.off = off
<1>1. [r EXCEPT !.off = off] \in ImageRequests
  BY DEF ImageRequests
<1> QED  BY <1>1, ImageAssumption DEF ImageRequests

\* A request takes a file of its own.
LEMMA FreshStep ==
  ASSUME ImageInv, NEW h \in Handlers, NEW r, NEW f \in ImageFiles, NewFile(f),
         request' = [request EXCEPT ![h] = r], stored' = stored \cup {f},
         UNCHANGED <<images, banner, unfinished>>, ~Doing(h, "writeBanner"),
         r # Null, ImageRequestOK(r), r.op \in Bringing \ {"clearBanner", "writeBanner"}, r.file = f
  PROVE  ImageInv'
<1>1. RowsStay /\ RowsGrow
  BY RowsSame DEF RowsStay
<1>2. ImageRequestOK(r)'
  BY <1>1, RequestsOfImagesKeep
<1>3. ASSUME NEW k PROVE ~Owns(k, f)
  BY DEF Owns, OwnsRow, OwnsBanner, OwnsNew, NewFile
<1>4. ASSUME NEW k, NEW g, Owns(k, g)'
      PROVE  Owns(k, g) \/ (k = <<"new", h, 0>> /\ g = f)
  <2>1. OwnsRow(k, g)' => OwnsRow(k, g)
    BY <1>1, RowsKept
  <2>2. OwnsBanner(k, g)' => OwnsBanner(k, g)
    BY <1>1, <1>2, BannersKept
  <2>3. ASSUME OwnsNew(k, g)' PROVE OwnsNew(k, g) \/ (k = <<"new", h, 0>> /\ g = f)
    <3>1. r = Null \/ ImageRequestOK(r)'
      BY <1>2
    <3> HIDE DEF OwnsNew
    <3>2. \/ OwnsNew(k, g) /\ k # <<"new", h, 0>>
          \/ k = <<"new", h, 0>> /\ g # Null /\ r # Null /\ r.op \in Bringing /\ r.file = g
      BY ONLY <1>1, <2>3, <3>1, ImageInv, request' = [request EXCEPT ![h] = r], h \in Handlers, NewKept
    <3> QED  BY <3>2
  <2> QED  BY <1>4, <2>1, <2>2, <2>3 DEF Owns
<1>5. Exclusive'
  <2>1. Exclusive
    BY DEF ImageInv
  <2> HIDE DEF Owns
  <2> QED  BY <1>3, <1>4, <2>1 DEF Exclusive
<1>6. NewStored' /\ ImagesServed' /\ BannerServed'
  <2>1. \A c \in Banners : /\ banner'[c] = banner[c]
                           /\ Doing(h, "writeBanner") /\ request[h].of = c => c \in unfinished'
    OBVIOUS
  <2>2. \A g \in stored : g \in stored'
    OBVIOUS
  <2>3. r.file \in stored'
    OBVIOUS
  <2> QED  BY <1>1, <1>2, <2>1, <2>2, <2>3, FilesServed DEF RowsStay
<1>7. DOMAIN request' = Handlers /\ (\A g \in InFlight : ImageRequestOK(request[g]))'
  BY <1>1, <1>2, ImageStep
<1> QED  BY <1>5, <1>6, <1>7 DEF ImageInv

\* What a request brings becomes a row's.
RowsHanded(h, k0) ==
  \A k, f : OwnsRow(k, f)' => OwnsRow(k, f) \/ (k = k0 /\ OwnsNew(<<"new", h, 0>>, f))
BannersHanded(h, k0) ==
  \A k, f : OwnsBanner(k, f)' => OwnsBanner(k, f) \/ (k = k0 /\ OwnsNew(<<"new", h, 0>>, f))

LEMMA HandedOn ==
  ASSUME ImageInv, NEW h \in Handlers, request' = [request EXCEPT ![h] = Null], RowsGrow,
         NEW k0, RowsHanded(h, k0), BannersHanded(h, k0)
  PROVE  Exclusive'
<1>1. ASSUME NEW k, NEW f, Owns(k, f)'
      PROVE  \/ Owns(k, f) /\ k # <<"new", h, 0>>
             \/ k = k0 /\ Owns(<<"new", h, 0>>, f)
  <2>1. OwnsRow(k, f) \/ OwnsBanner(k, f) => k # <<"new", h, 0>>
    <3>1. OwnsRow(k, f) => k[1] = "row"
      BY DEF OwnsRow
    <3>2. OwnsBanner(k, f) => k[1] = "banner"
      BY DEF OwnsBanner
    <3> QED  BY <3>1, <3>2
  <2>2. ASSUME OwnsNew(k, f)' PROVE OwnsNew(k, f) /\ k # <<"new", h, 0>>
    <3> PICK r : r = Null
      OBVIOUS
    <3>1. request' = [request EXCEPT ![h] = r] /\ (r = Null \/ ImageRequestOK(r)')
      OBVIOUS
    <3>2. \/ OwnsNew(k, f) /\ k # <<"new", h, 0>>
          \/ k = <<"new", h, 0>> /\ f # Null /\ r # Null /\ r.op \in Bringing /\ r.file = f
      BY ONLY <2>2, <3>1, ImageInv, h \in Handlers, RowsGrow, NewKept
    <3> QED  BY <3>2
  <2> QED  BY <1>1, <2>1, <2>2 DEF Owns, RowsHanded, BannersHanded
<1>2. Exclusive
  BY DEF ImageInv
<1> HIDE DEF Owns
<1> QED  BY <1>1, <1>2 DEF Exclusive

-----------------------------------------------------------------------------
(* The steps, on the files.                                                 *)

LEMMA InFlightOK ==
  ASSUME ImageInv, NEW h \in InFlight
  PROVE  /\ h \in Handlers /\ ImageRequestOK(request[h]) /\ request[h] \in ImageRequests
         /\ request[h].op \in ImageOps /\ request[h].of \in Galleries \cup Banners
BY DEF ImageInv, InFlight, ImageRequestOK, ImageRequests

LEMMA SaveUploadKeeps ==
  ASSUME ImageInv, NEW h \in Handlers, NEW p \in Galleries, NEW f \in ImageFiles,
         NEW primary \in BOOLEAN, SaveUpload(h, p, f, primary)
  PROVE  ImageInv'
<1> DEFINE r == ImageRequest("add", p, f, Null, primary, Null, {})
<1>1. /\ r \in ImageRequests /\ r # Null /\ r.op = "add" /\ r.on = {p} /\ r.of = p /\ r.file = f
      /\ r.primary = primary
  BY ImageAssumption DEF ImageRequest, ImageRequests, ImageOps
<1>2. /\ NewFile(f) /\ request' = [request EXCEPT ![h] = r] /\ stored' = stored \cup {f}
      /\ UNCHANGED <<images, banner, unfinished>> /\ ~Doing(h, "writeBanner")
  BY DEF SaveUpload, Save, Begin, Doing
<1> HIDE DEF r
<1>3. ImageRequestOK(r) /\ r.op \in Bringing \ {"clearBanner", "writeBanner"}
  BY <1>1 DEF ImageRequestOK, BannerOps, Bringing
<1> QED  BY <1>1, <1>2, <1>3, FreshStep

LEMMA SaveSelectedKeeps ==
  ASSUME ImageInv, NEW h \in Handlers, NEW f \in ImageFiles, SaveSelected(h, f)
  PROVE  ImageInv'
<1> DEFINE q == [request[h] EXCEPT !.op = "clearSelected"]
           r == [q EXCEPT !.file = f]
<1>1. h \in InFlight /\ request[h].op = "select"
  BY DEF SaveSelected, Doing, InFlight
<1>2. ImageRequestOK(request[h]) /\ request[h] \in ImageRequests
  BY <1>1, InFlightOK
<1>3. /\ q \in ImageRequests /\ q.op = "clearSelected" /\ q.on = request[h].on /\ q.of = request[h].of
      /\ q.primary = request[h].primary /\ q.count = request[h].count
  BY <1>2, ImageRequestGoes DEF ImageOps
<1>4. /\ NewFile(f) /\ request' = [request EXCEPT ![h] = r] /\ stored' = stored \cup {f}
      /\ UNCHANGED <<images, banner, unfinished>>
  BY DEF SaveSelected, Save, GoOn
<1> HIDE DEF q
<1>5. /\ r \in ImageRequests /\ r # Null /\ r.op = q.op /\ r.on = q.on /\ r.of = q.of /\ r.file = f
      /\ r.primary = q.primary /\ r.count = q.count
  BY <1>3, ImageRequestFile
<1> HIDE DEF r
<1>6. ImageRequestOK(r) /\ r.op \in Bringing \ {"clearBanner", "writeBanner"}
  BY <1>1, <1>2, <1>3, <1>5 DEF ImageRequestOK, BannerOps, Bringing
<1>7. ~Doing(h, "writeBanner")
  BY <1>1 DEF Doing
<1> QED  BY <1>4, <1>5, <1>6, <1>7, FreshStep

LEMMA SaveBannerKeeps ==
  ASSUME ImageInv, NEW h \in Handlers, NEW c \in Banners, NEW f \in ImageFiles \cup {Null},
         SaveBanner(h, c, f)
  PROVE  ImageInv'
<1> DEFINE r == ImageRequest("banner", c, f, Null, Null, Null, {})
<1>1. /\ r \in ImageRequests /\ r # Null /\ r.op = "banner" /\ r.on = {c} /\ r.of = c /\ r.file = f
  BY ImageAssumption DEF ImageRequest, ImageRequests, ImageOps
<1>2. /\ request' = [request EXCEPT ![h] = r] /\ IF f = Null THEN UNCHANGED stored ELSE Save(f)
      /\ UNCHANGED <<images, banner, unfinished>> /\ ~Doing(h, "writeBanner")
  BY DEF SaveBanner, Begin, Doing
<1> HIDE DEF r
<1>3. ImageRequestOK(r) /\ r.op \in Bringing \ {"clearBanner", "writeBanner"}
  BY <1>1 DEF ImageRequestOK, BannerOps, Bringing
<1>4. CASE f # Null
  BY <1>1, <1>2, <1>3, <1>4, FreshStep DEF Save
<1>5. CASE f = Null
  <2>1. RowsStay /\ ImageRequestOK(r)'
    BY <1>2, <1>3, RowsSame, RequestsOfImagesKeep DEF RowsStay
  <2>2. r.file = Null /\ r.op \notin {"clearBanner", "writeBanner"}
    BY <1>1, <1>5
  <2> QED  BY <1>2, <1>5, <2>1, <2>2, QuietStep
<1> QED  BY <1>4, <1>5

LEMMA InsertImageKeeps ==
  ASSUME ImageInv, NEW h \in Handlers, InsertImage(h)
  PROVE  ImageInv' /\ RowsGrow
<1> PICK r : r = request[h]
  OBVIOUS
<1> DEFINE p == r.of
           row == [path |-> r.file, primary |-> r.primary, order |-> r.count, deleted |-> FALSE]
           s == Without(p, r.off)
           n == Len(images[p]) + 1
<1>1. /\ h \in InFlight /\ r.op \in {"insert", "insertSelected"}
      /\ images' = [images EXCEPT ![p] = Append(s, row)]
      /\ request' = [request EXCEPT ![h] = Null] /\ UNCHANGED <<banner, stored, unfinished>>
  BY DEF InsertImage, Doing, InFlight, End, GoOn
<1>2. ImageRequestOK(r) /\ p \in Galleries /\ row \in ImageRow /\ r.file \in ImageFiles
  BY <1>1, InFlightOK DEF ImageRequestOK, BannerOps, ImageRow
<1>3. /\ s \in Seq(ImageRow) /\ Len(s) = Len(images[p]) /\ DOMAIN s = DOMAIN images[p]
      /\ \A i \in DOMAIN images[p] : s[i].path = images[p][i].path /\ s[i].deleted = images[p][i].deleted
  BY <1>2, WithoutRows
<1> HIDE DEF s
<1>4. PICK t : t = Append(s, row)
  OBVIOUS
<1>5. /\ t \in Seq(ImageRow) /\ DOMAIN t = DOMAIN images[p] \cup {n} /\ n \notin DOMAIN images[p]
      /\ t[n] = row /\ \A j \in DOMAIN images[p] : t[j] = s[j]
  <2> HIDE DEF row
  <2> QED  BY <1>2, <1>3, <1>4, RowAppended
<1>6. row.path = r.file
  OBVIOUS
<1> HIDE DEF row, p, n
<1>7. \A q \in Galleries : images'[q] = IF q = p THEN t ELSE images[q]
  BY <1>1, <1>4 DEF ImageInv
<1>8. RowsGrow
  <2>1. images' \in [Galleries -> Seq(ImageRow)]
    BY <1>1, <1>2, <1>4, <1>5 DEF ImageInv
  <2> QED  BY <1>3, <1>5, <1>7, <2>1 DEF RowsGrow
<1>9. OwnsNew(<<"new", h, 0>>, r.file)
  BY <1>1, <1>2, ImageAssumption DEF OwnsNew, Bringing
<1>10. \A k, f : OwnsRow(k, f)' => OwnsRow(k, f) \/ (k = <<"row", p, n>> /\ OwnsNew(<<"new", h, 0>>, f))
  <2> SUFFICES ASSUME NEW k, NEW f, OwnsRow(k, f)', ~OwnsRow(k, f)
               PROVE  k = <<"row", p, n>> /\ OwnsNew(<<"new", h, 0>>, f)
    OBVIOUS
  <2>1. PICK q \in Galleries : \E i \in DOMAIN images'[q] \ DOMAIN images[q] :
          k = <<"row", q, i>> /\ images'[q][i].path = f
    BY <1>8, RowsKept
  <2>2. PICK i \in DOMAIN images'[q] \ DOMAIN images[q] : k = <<"row", q, i>> /\ images'[q][i].path = f
    BY <2>1
  <2>3. q = p /\ i = n /\ f = r.file
    BY <1>5, <1>6, <1>7, <2>2
  <2> QED  BY <1>9, <2>2, <2>3
<1>11. \A k, f : OwnsBanner(k, f)' => OwnsBanner(k, f)
  <2> SUFFICES ASSUME NEW k, NEW f, OwnsBanner(k, f)' PROVE OwnsBanner(k, f)
    OBVIOUS
  <2> PICK x : x = Null
    OBVIOUS
  <2>1. request' = [request EXCEPT ![h] = x] /\ banner' = banner
    BY <1>1
  <2> QED  BY <1>8, <2>1, BannersKept
<1>12. Exclusive'
  <2>1. request' = [request EXCEPT ![h] = Null]
    BY <1>1
  <2>2. \A k, f : OwnsBanner(k, f)' =>
          OwnsBanner(k, f) \/ (k = <<"row", p, n>> /\ OwnsNew(<<"new", h, 0>>, f))
    BY <1>11
  <2>3. PICK k0 : k0 = <<"row", p, n>>
    OBVIOUS
  <2> HIDE DEF OwnsRow, OwnsBanner, OwnsNew
  <2>4. RowsHanded(h, k0)
    BY <1>10, <2>3 DEF RowsHanded
  <2>5. BannersHanded(h, k0)
    BY <2>2, <2>3 DEF BannersHanded
  <2> QED  BY ONLY ImageInv, h \in Handlers, <1>8, <2>1, <2>4, <2>5, HandedOn
<1>13. r.file \in stored
  BY <1>1, <1>2, ImageAssumption DEF ImageInv, NewStored, Bringing
<1>14. NewStored' /\ ImagesServed' /\ BannerServed'
  <2> PICK x : x = Null
    OBVIOUS
  <2>1. request' = [request EXCEPT ![h] = x] /\ ~Doing(h, "writeBanner")
    BY <1>1 DEF Doing
  <2>2. \A q \in Galleries : \A i \in DOMAIN images'[q] \ DOMAIN images[q] : images'[q][i].path \in stored'
    <3> SUFFICES ASSUME NEW q \in Galleries, NEW i \in DOMAIN images'[q] \ DOMAIN images[q]
                 PROVE  images'[q][i].path \in stored'
      OBVIOUS
    <3>1. q = p /\ images'[q] = t
      BY <1>7
    <3>2. i = n /\ t[i].path = r.file
      BY <1>5, <1>6, <3>1
    <3> QED  BY <1>1, <1>13, <3>1, <3>2
  <2>3. /\ \A f \in stored \ stored' : FALSE
        /\ \A c \in Banners : banner'[c] = banner[c] /\ ~(Doing(h, "writeBanner") /\ request[h].of = c)
        /\ unfinished' = unfinished
    BY <1>1, <2>1
  <2> QED  BY <1>8, <2>1, <2>2, <2>3, FilesServed
<1>15. DOMAIN request' = Handlers /\ (\A g \in InFlight : ImageRequestOK(request[g]))'
  <2> PICK x : x = Null
    OBVIOUS
  <2>1. request' = [request EXCEPT ![h] = x]
    BY <1>1
  <2> QED  BY <1>8, <2>1, ImageStep
<1>16. banner' \in [Banners -> ImageFiles \cup {Null}]
  BY <1>1 DEF ImageInv
<1>17. stored' \subseteq ImageFiles
  BY <1>1 DEF ImageInv
<1> QED  BY <1>8, <1>12, <1>14, <1>15, <1>16, <1>17 DEF ImageInv, RowsGrow

LEMMA WriteBannerKeeps ==
  ASSUME ImageInv, NEW h \in Handlers, WriteBanner(h)
  PROVE  ImageInv'
<1> PICK r : r = request[h]
  OBVIOUS
<1> PICK x : x = Null
  OBVIOUS
<1>1. /\ h \in InFlight /\ r.op = "writeBanner" /\ banner' = [banner EXCEPT ![r.of] = r.file]
      /\ request' = [request EXCEPT ![h] = x] /\ UNCHANGED <<images, stored, unfinished>>
  BY DEF WriteBanner, Doing, InFlight, End, GoOn
<1>2. ImageRequestOK(r) /\ r.of \in Banners /\ r.file \in ImageFiles \cup {Null}
  BY <1>1, InFlightOK DEF ImageRequestOK, BannerOps, ImageRequests
<1>3. RowsStay /\ RowsGrow
  BY <1>1, RowsSame DEF RowsStay
<1>4. banner' \in [Banners -> ImageFiles \cup {Null}] /\ \A c \in Banners : banner'[c] = IF c = r.of THEN r.file ELSE banner[c]
  BY <1>1, <1>2 DEF ImageInv
<1>5. \A k, f : OwnsRow(k, f)' => OwnsRow(k, f)
  BY <1>1 DEF OwnsRow
<1>6. \A k, f : OwnsBanner(k, f)' =>
        OwnsBanner(k, f) \/ (k = <<"banner", r.of, 0>> /\ OwnsNew(<<"new", h, 0>>, f))
  <2> SUFFICES ASSUME NEW k, NEW f, OwnsBanner(k, f)', ~OwnsBanner(k, f)
               PROVE  k = <<"banner", r.of, 0>> /\ OwnsNew(<<"new", h, 0>>, f)
    OBVIOUS
  <2>1. PICK c \in Banners :
          /\ k = <<"banner", c, 0>> /\ f # Null
          /\ \/ banner'[c] = f
             \/ \E g \in InFlight' : /\ request'[g].op \in {"clearBanner", "writeBanner"}
                                     /\ request'[g].of = c /\ request'[g].image = f
    BY DEF OwnsBanner
  <2>2. \A g \in InFlight' : g \in InFlight /\ request'[g] = request[g]
    BY <1>1 DEF InFlight, ImageInv
  <2>3. c = r.of /\ r.file = f
    BY <1>4, <2>1, <2>2 DEF OwnsBanner
  <2> QED  BY <1>1, <2>1, <2>3 DEF OwnsNew, Bringing, BannerOps
<1>7. Exclusive'
  <2> HIDE DEF OwnsRow, OwnsBanner, OwnsNew
  <2>1. PICK k0 : k0 = <<"banner", r.of, 0>>
    OBVIOUS
  <2>2. RowsHanded(h, k0)
    BY <1>5 DEF RowsHanded
  <2>3. BannersHanded(h, k0)
    BY <1>6, <2>1 DEF BannersHanded
  <2>4. request' = [request EXCEPT ![h] = Null] /\ RowsGrow
    BY <1>1, <1>3
  <2> QED  BY ONLY ImageInv, h \in Handlers, <2>2, <2>3, <2>4, HandedOn
<1>8. NewStored' /\ ImagesServed' /\ BannerServed'
  <2>1. r.file \in stored \cup {Null}
    BY <1>1 DEF ImageInv, NewStored, Bringing, BannerOps
  <2>2. \A c \in Banners :
           \/ /\ banner'[c] = banner[c]
              /\ Doing(h, "writeBanner") /\ request[h].of = c => c \in unfinished'
           \/ banner'[c] \in stored' \cup {Null}
    BY <1>1, <1>4, <2>1
  <2>3. (\A f \in stored \ stored' : FALSE) /\ x = Null /\ unfinished' = unfinished
    BY <1>1
  <2>4. \A p \in Galleries : \A i \in DOMAIN images'[p] \ DOMAIN images[p] : images'[p][i].path \in stored'
    BY <1>1
  <2>5. request' = [request EXCEPT ![h] = x]
    BY <1>1
  <2> QED  BY <1>3, <2>2, <2>3, <2>4, <2>5, FilesServed
<1>9. DOMAIN request' = Handlers /\ (\A g \in InFlight : ImageRequestOK(request[g]))'
  BY <1>1, <1>3, ImageStep
<1>10. stored' \subseteq ImageFiles
  BY <1>1 DEF ImageInv
<1> QED  BY <1>3, <1>4, <1>7, <1>8, <1>9, <1>10 DEF ImageInv, RowsGrow

-----------------------------------------------------------------------------
(* The primary image.                                                       *)

OneOrNone(p) == LiveImages(p) = {} \/ \E i : Primaries(p) = {i}

Deleting == {"deleteFile", "findNext", "promote"}

\* What a request alone on its product knows of the images.
Knows(r) ==
  LET p == r.of IN
  /\ r.op \in {"insert", "insertSelected"} =>
       IF r.primary THEN r.off = LiveImages(p) ELSE r.off = {} /\ LiveImages(p) # {}
  /\ r.op \in {"select", "clearSelected"} => (r.primary <=> LiveImages(p) = {})
  /\ r.op \in {"setPrimary", "writePrimary", "mark", "promote"} => r.image \in LiveImages(p)
  /\ r.op = "writePrimary" => r.off = LiveImages(p)
  /\ r.op = "mark" => r.primary = images[p][r.image].primary
  /\ r.op = "deleteFile" => IF r.primary THEN Primaries(p) = {} ELSE OneOrNone(p)
  /\ r.op \in {"findNext", "promote"} => Primaries(p) = {}

PrimaryInv ==
  /\ \A g, h \in InFlight : g # h /\ request[g].of = request[h].of => request[g].of \in overlapped
  /\ \A h \in InFlight : request[h].of \in overlapped \cup unfinished \/ Knows(request[h])
  /\ \A p \in Galleries \ (overlapped \cup unfinished) :
       OneOrNone(p) \/ \E h \in InFlight : request[h].of = p /\ request[h].op \in Deleting

LEMMA LiveFinite ==
  ASSUME ImageInv, NEW p \in Galleries
  PROVE  /\ LiveImages(p) \in SUBSET DOMAIN images[p] /\ LiveImages(p) \in SUBSET Nat
         /\ Cardinality(LiveImages(p)) \in Nat
         /\ Cardinality(LiveImages(p)) = 0 <=> LiveImages(p) = {}
<1>1. DOMAIN images[p] = 1..Len(images[p]) /\ Len(images[p]) \in Nat
  BY RowsTyped
<1>2. LiveImages(p) \subseteq 1..Len(images[p])
  BY <1>1 DEF LiveImages
<1>3. IsFiniteSet(LiveImages(p))
  <2>1. IsFiniteSet(1..Len(images[p]))
    BY <1>1, FS_Interval
  <2> QED  BY <1>2, <2>1, FS_Subset
<1>4. Cardinality(LiveImages(p)) \in Nat
  BY <1>3, FS_CardinalityType
<1>5. Cardinality(LiveImages(p)) = 0 <=> LiveImages(p) = {}
  BY <1>3, FS_EmptySet
<1> QED  BY <1>1, <1>2, <1>4, <1>5

\* What a request knows is about the images of its product.
LEMMA KnowsSame ==
  ASSUME NEW r, images'[r.of] = images[r.of]
  PROVE  Knows(r)' <=> Knows(r)
BY DEF Knows, LiveImages, Primaries, OneOrNone

LEMMA OneOrNoneSame ==
  ASSUME NEW p, images'[p] = images[p]
  PROVE  OneOrNone(p)' <=> OneOrNone(p)
BY DEF LiveImages, Primaries, OneOrNone

\* A further step of a request.
LEMMA PrimaryStep ==
  ASSUME ImageInv, PrimaryInv, NEW h \in InFlight, NEW p, p = request[h].of, NEW r,
         request' = [request EXCEPT ![h] = r], UNCHANGED overlapped, unfinished \subseteq unfinished',
         \A q \in Galleries \ {p} : images'[q] = images[q],
         r = Null \/ r.of = p,
         p \notin overlapped \cup unfinished' =>
           /\ r = Null \/ Knows(r)'
           /\ p \in Galleries => OneOrNone(p)' \/ (r # Null /\ r.op \in Deleting)
  PROVE  PrimaryInv'
<1>1. /\ h \in Handlers /\ request'[h] = r /\ \A g \in Handlers \ {h} : request'[g] = request[g]
      /\ \A g \in Handlers \ {h} : g \in InFlight' <=> g \in InFlight
  BY DEF ImageInv, InFlight
<1>2. ASSUME NEW f \in InFlight', NEW g \in InFlight', f # g, request'[f].of = request'[g].of
      PROVE  request'[f].of \in overlapped'
  <2>1. f \in InFlight /\ g \in InFlight /\ request'[f].of = request[f].of /\ request'[g].of = request[g].of
    BY <1>1 DEF InFlight
  <2> QED  BY <1>2, <2>1 DEF PrimaryInv
<1>3. ASSUME NEW g \in InFlight', request'[g].of \notin overlapped' \cup unfinished'
      PROVE  Knows(request[g])'
  <2>1. CASE g = h
    <3>1. r # Null /\ request'[g] = r
      BY <1>1, <1>3, <2>1 DEF InFlight
    <3>2. Knows(r)'
      BY <1>3, <3>1
    <3> QED  BY <3>1, <3>2
  <2>2. CASE g # h
    <3>1. g \in InFlight /\ request'[g] = request[g]
      BY <1>1, <1>3, <2>2 DEF InFlight
    <3> PICK q : q = request[g]
      OBVIOUS
    <3>2. q.of # p /\ Knows(q)
      BY <1>3, <2>2, <3>1 DEF PrimaryInv
    <3>3. q.op \in BannerOps \/ q.of \in Galleries
      BY <3>1, InFlightOK DEF ImageRequestOK
    <3>4. Knows(q)'
      <4>1. CASE q.of \in Galleries
        BY <3>2, <4>1, KnowsSame
      <4>2. CASE q.op \in BannerOps
        BY <4>2 DEF Knows, BannerOps
      <4> QED  BY <3>3, <4>1, <4>2
    <3> QED  BY <3>1, <3>4
  <2> QED  BY <2>1, <2>2
<1>4. ASSUME NEW q \in Galleries, q \notin overlapped' \cup unfinished', ~OneOrNone(q)'
      PROVE  \E g \in InFlight' : request'[g].of = q /\ request'[g].op \in Deleting
  <2>1. CASE q = p
    BY <1>1, <1>4, <2>1 DEF InFlight
  <2>2. CASE q # p
    <3>1. ~OneOrNone(q)
      BY <1>4, <2>2, OneOrNoneSame
    <3>2. PICK g \in InFlight : request[g].of = q /\ request[g].op \in Deleting
      BY <1>4, <3>1 DEF PrimaryInv
    <3> QED  BY <1>1, <2>2, <3>2 DEF InFlight
  <2> QED  BY <2>1, <2>2
<1> QED  BY <1>2, <1>3, <1>4 DEF PrimaryInv

\* The first step of a request.
LEMMA PrimaryBegin ==
  ASSUME ImageInv, PrimaryInv, NEW h \in Handlers, NEW r, Begin(h, r), r # Null, r.on = {r.of},
         UNCHANGED <<images, unfinished>>, Knows(r)
  PROVE  PrimaryInv'
<1>1. /\ request'[h] = r /\ \A g \in Handlers \ {h} : request'[g] = request[g]
      /\ InFlight' = InFlight \cup {h} /\ h \notin InFlight
      /\ overlapped' = overlapped \cup UNION {r.on \cap request[g].on : g \in InFlight}
  BY DEF Begin, ImageInv, InFlight
<1>2. \A g \in InFlight : request'[g] = request[g] /\ (request[g].of = r.of => r.of \in overlapped')
  <2> SUFFICES ASSUME NEW g \in InFlight
               PROVE  request'[g] = request[g] /\ (request[g].of = r.of => r.of \in overlapped')
    OBVIOUS
  <2>1. request[g].on = {request[g].of}
    BY InFlightOK DEF ImageRequestOK
  <2>2. request[g].of = r.of => r.of \in r.on \cap request[g].on
    BY <2>1
  <2> QED  BY <1>1, <2>2 DEF InFlight
<1>3. ASSUME NEW f \in InFlight', NEW g \in InFlight', f # g, request'[f].of = request'[g].of
      PROVE  request'[f].of \in overlapped'
  BY <1>1, <1>2, <1>3 DEF PrimaryInv
<1>4. \A q : Knows(q)' <=> Knows(q)
  BY KnowsSame
<1>5. ASSUME NEW g \in InFlight', request'[g].of \notin overlapped' \cup unfinished'
      PROVE  Knows(request[g])'
  <2> PICK q : q = request'[g]
    OBVIOUS
  <2>1. Knows(q)
    BY <1>1, <1>2, <1>5 DEF PrimaryInv
  <2>2. Knows(q)'
    BY <1>4, <2>1
  <2> QED  BY <2>2
<1>6. ASSUME NEW q \in Galleries, q \notin overlapped' \cup unfinished', ~OneOrNone(q)'
      PROVE  \E g \in InFlight' : request'[g].of = q /\ request'[g].op \in Deleting
  <2>1. ~OneOrNone(q)
    BY <1>6, OneOrNoneSame
  <2>2. PICK g \in InFlight : request[g].of = q /\ request[g].op \in Deleting
    BY <1>1, <1>6, <2>1 DEF PrimaryInv
  <2> QED  BY <1>1, <1>2, <2>2
<1> QED  BY <1>3, <1>5, <1>6 DEF PrimaryInv

-----------------------------------------------------------------------------
(* The steps.                                                               *)

Both == ImageInv /\ PrimaryInv

LEMMA BeginQuiet ==
  ASSUME Both, NEW h \in Handlers, NEW r, Begin(h, r), UNCHANGED imageVars,
         r # Null, ImageRequestOK(r), r.op \notin Bringing, Knows(r)
  PROVE  Both'
<1>1. /\ request' = [request EXCEPT ![h] = r] /\ ~Doing(h, "writeBanner")
      /\ UNCHANGED <<images, banner, stored, unfinished>>
  BY DEF Begin, Doing, imageVars
<1>2. ImageInv /\ PrimaryInv
  BY DEF Both
<1>3. RowsStay /\ ImageRequestOK(r)'
  BY <1>1, <1>2, RowsSame, RequestsOfImagesKeep DEF RowsStay
<1>4. r.op \notin {"clearBanner", "writeBanner"}
  BY DEF Bringing, BannerOps
<1>5. ImageInv'
  BY <1>1, <1>2, <1>3, <1>4, QuietStep
<1>6. PrimaryInv'
  BY <1>1, <1>2, PrimaryBegin DEF ImageRequestOK
<1> QED  BY <1>5, <1>6 DEF Both

LEMMA GoOnQuiet ==
  ASSUME Both, NEW h \in InFlight, NEW r, GoOn(h, r), UNCHANGED imageVars,
         r # Null, ImageRequestOK(r), r.of = request[h].of,
         r.op \in Bringing => request[h].op \in Bringing /\ request[h].file = r.file,
         r.op \in {"clearBanner", "writeBanner"} => r.image = banner[r.of],
         request[h].op # "writeBanner", Knows(request[h]) => Knows(r),
         request[h].op \in Deleting => r.op \in Deleting
  PROVE  Both'
<1>1. /\ h \in Handlers /\ request' = [request EXCEPT ![h] = r] /\ ~Doing(h, "writeBanner")
      /\ UNCHANGED <<images, banner, stored, unfinished, overlapped>>
  BY DEF GoOn, Doing, imageVars, InFlight
<1>2. ImageInv /\ PrimaryInv
  BY DEF Both
<1>3. RowsStay /\ ImageRequestOK(r)'
  BY <1>1, <1>2, RowsSame, RequestsOfImagesKeep DEF RowsStay
<1>4. ImageInv'
  BY <1>1, <1>2, <1>3, QuietStep
<1>5. PICK p : p = request[h].of
  OBVIOUS
<1>6. p \notin overlapped \cup unfinished' =>
        /\ Knows(r)'
        /\ p \in Galleries => OneOrNone(p)' \/ r.op \in Deleting
  <2> SUFFICES ASSUME p \notin overlapped \cup unfinished
               PROVE  /\ Knows(r)'
                      /\ p \in Galleries => OneOrNone(p)' \/ r.op \in Deleting
    BY <1>1
  <2>1. Knows(r)
    BY <1>2, <1>5 DEF PrimaryInv
  <2>2. Knows(r)'
    BY <1>1, <2>1, KnowsSame
  <2>3. ASSUME p \in Galleries, r.op \notin Deleting
        PROVE  OneOrNone(p)
    <3>1. \A g \in InFlight : request[g].of = p => g = h
      BY <1>2, <1>5 DEF PrimaryInv
    <3> QED  BY <1>2, <2>3, <3>1 DEF PrimaryInv
  <2>4. p \in Galleries => OneOrNone(p)' \/ r.op \in Deleting
    BY <1>1, <2>3, OneOrNoneSame
  <2> QED  BY <2>2, <2>4
<1>7. PrimaryInv'
  BY <1>1, <1>2, <1>5, <1>6, PrimaryStep
<1> QED  BY <1>4, <1>7 DEF Both

\* A request that ends without a write.
LEMMA EndQuiet ==
  ASSUME Both, NEW h \in InFlight, End(h), UNCHANGED <<images, banner, stored>>,
         unfinished \subseteq unfinished',
         \/ request[h].of \in unfinished'
         \/ request[h].op \notin Deleting \cup {"writeBanner"}
         \/ request[h].op = "findNext" /\ LiveImages(request[h].of) = {}
  PROVE  Both'
<1> PICK r : r = Null
  OBVIOUS
<1>1. /\ h \in Handlers /\ request' = [request EXCEPT ![h] = r] /\ UNCHANGED overlapped
  BY DEF End, GoOn, InFlight
<1>2. ImageInv /\ PrimaryInv
  BY DEF Both
<1>3. RowsStay
  BY <1>1, <1>2, RowsSame
<1>4. Doing(h, "writeBanner") => request[h].of \in unfinished'
  BY DEF Doing, Deleting
<1>5. ImageInv'
  BY <1>1, <1>2, <1>3, <1>4, QuietStep
<1>6. PICK p : p = request[h].of
  OBVIOUS
<1>7. p \notin overlapped \cup unfinished' /\ p \in Galleries => OneOrNone(p)'
  <2> SUFFICES ASSUME p \notin overlapped \cup unfinished', p \in Galleries
               PROVE  OneOrNone(p)
    BY OneOrNoneSame
  <2>1. CASE request[h].op = "findNext" /\ LiveImages(p) = {}
    BY <2>1 DEF OneOrNone
  <2>2. CASE request[h].op \notin Deleting
    <3>1. \A g \in InFlight : request[g].of = p => g = h
      BY <1>2, <1>6 DEF PrimaryInv
    <3> QED  BY <1>2, <1>6, <2>2, <3>1 DEF PrimaryInv
  <2> QED  BY <1>6, <2>1, <2>2
<1>8. PrimaryInv'
  BY <1>1, <1>2, <1>6, <1>7, PrimaryStep
<1> QED  BY <1>5, <1>8 DEF Both

LEMMA BeginSelectKeeps ==
  ASSUME Both, NEW h \in Handlers, NEW p \in Galleries, BeginSelect(h, p)
  PROVE  Both'
<1> DEFINE n == Cardinality(LiveImages(p))
<1> PICK empty \in BOOLEAN : empty = (n = 0)
  OBVIOUS
<1> DEFINE r == ImageRequest("select", p, Null, Null, empty, n, {})
<1>1. n \in Nat /\ (n = 0 <=> LiveImages(p) = {})
  BY LiveFinite DEF Both
<1>2. Begin(h, r) /\ UNCHANGED imageVars
  BY DEF BeginSelect
<1> HIDE DEF n
<1>3. /\ r \in ImageRequests /\ r # Null /\ r.op = "select" /\ r.on = {p} /\ r.of = p
      /\ r.primary = empty /\ r.count = n
  <2>1. r \in ImageRequests
    BY <1>1 DEF ImageRequest, ImageRequests, ImageOps
  <2> QED  BY <2>1, ImageAssumption DEF ImageRequest
<1> HIDE DEF r
<1>4. ImageRequestOK(r) /\ r.op \notin Bringing
  BY <1>1, <1>3 DEF ImageRequestOK, BannerOps, Bringing
<1>5. Knows(r)
  BY <1>1, <1>3 DEF Knows
<1> QED  BY <1>2, <1>3, <1>4, <1>5, BeginQuiet

LEMMA BeginSetPrimaryKeeps ==
  ASSUME Both, NEW h \in Handlers, NEW p \in Galleries, NEW i \in DOMAIN images[p],
         BeginSetPrimary(h, p, i)
  PROVE  Both'
<1> DEFINE r == ImageRequest("setPrimary", p, Null, i, Null, Null, {})
<1>1. i \in Nat /\ i \in LiveImages(p)
  BY LiveFinite DEF Both, BeginSetPrimary
<1>2. Begin(h, r) /\ UNCHANGED imageVars
  BY DEF BeginSetPrimary
<1>3. r \in ImageRequests /\ r # Null /\ r.op = "setPrimary" /\ r.on = {p} /\ r.of = p /\ r.image = i
  BY <1>1, ImageAssumption DEF ImageRequest, ImageRequests, ImageOps
<1> HIDE DEF r
<1>4. ImageRequestOK(r) /\ r.op \notin Bringing
  BY <1>1, <1>3 DEF ImageRequestOK, BannerOps, Bringing
<1>5. Knows(r)
  BY <1>1, <1>3 DEF Knows
<1> QED  BY <1>2, <1>3, <1>4, <1>5, BeginQuiet

LEMMA BeginDeleteImageKeeps ==
  ASSUME Both, NEW h \in Handlers, NEW p \in Galleries, NEW i \in DOMAIN images[p],
         BeginDeleteImage(h, p, i)
  PROVE  Both'
<1> DEFINE row == images[p][i]
           r == ImageRequest("mark", p, row.path, i, row.primary, Null, {})
<1>1. i \in Nat /\ i \in LiveImages(p) /\ row \in ImageRow
  BY LiveFinite, RowsTyped DEF Both, BeginDeleteImage
<1>2. Begin(h, r) /\ UNCHANGED imageVars
  BY DEF BeginDeleteImage
<1>3. row.path \in ImageFiles /\ row.primary \in BOOLEAN
  BY <1>1 DEF ImageRow
<1> HIDE DEF row
<1>4. /\ r \in ImageRequests /\ r # Null /\ r.op = "mark" /\ r.on = {p} /\ r.of = p /\ r.image = i
      /\ r.file = row.path /\ r.primary = row.primary
  BY <1>1, <1>3, ImageAssumption DEF ImageRequest, ImageRequests, ImageOps
<1> HIDE DEF r
<1>5. ImageRequestOK(r) /\ r.op \notin Bringing
  BY <1>1, <1>3, <1>4 DEF ImageRequestOK, BannerOps, Bringing, row
<1>6. Knows(r)
  BY <1>1, <1>4 DEF Knows, row
<1> QED  BY <1>2, <1>4, <1>5, <1>6, BeginQuiet

LEMMA CountImagesKeeps ==
  ASSUME Both, NEW h \in Handlers, CountImages(h)
  PROVE  Both'
<1> PICK r : r = request[h]
  OBVIOUS
<1> DEFINE n == Cardinality(LiveImages(r.of))
           off == IF r.primary THEN LiveImages(r.of) ELSE {}
<1> PICK primary \in BOOLEAN : primary = (r.primary \/ n = 0)
  OBVIOUS
<1> DEFINE q == ImageRequest("insert", r.of, r.file, Null, primary, n, off)
<1>1. h \in InFlight /\ r.op = "add" /\ GoOn(h, q) /\ UNCHANGED imageVars
  BY DEF CountImages, Doing, InFlight
<1>2. ImageRequestOK(r) /\ r.of \in Galleries /\ r.primary \in BOOLEAN /\ r.file \in ImageFiles
  BY <1>1, InFlightOK DEF ImageRequestOK, BannerOps, Both
<1>3. n \in Nat /\ (n = 0 <=> LiveImages(r.of) = {}) /\ off \in SUBSET Nat
  BY <1>2, LiveFinite DEF Both
<1> HIDE DEF n
<1>4. /\ primary => off = LiveImages(r.of)
      /\ ~primary => off = {} /\ LiveImages(r.of) # {}
  BY <1>2, <1>3
<1> HIDE DEF off
<1>5. /\ q \in ImageRequests /\ q # Null /\ q.op = "insert" /\ q.on = {r.of} /\ q.of = r.of
      /\ q.file = r.file /\ q.primary = primary /\ q.count = n /\ q.off = off
  <2>1. r.file \in ImageFiles \cup {Null} /\ r.of \in Galleries \cup Banners /\ n \in Nat /\ off \in SUBSET Nat
    BY <1>2, <1>3
  <2>2. q \in ImageRequests
    BY ONLY <2>1, primary \in BOOLEAN DEF ImageRequest, ImageRequests, ImageOps
  <2> QED  BY <2>2, ImageAssumption DEF ImageRequest
<1> HIDE DEF q
<1>6. ImageRequestOK(q) /\ r.op \in Bringing
  BY <1>1, <1>2, <1>3, <1>5 DEF ImageRequestOK, BannerOps, Bringing
<1>7. Knows(q)
  BY <1>4, <1>5 DEF Knows
<1> QED  BY <1>1, <1>5, <1>6, <1>7, GoOnQuiet DEF Deleting

LEMMA SaveSelectedKnows ==
  ASSUME Both, NEW h \in Handlers, NEW f \in ImageFiles, SaveSelected(h, f)
  PROVE  Both'
<1> PICK x : x = request[h]
  OBVIOUS
<1> DEFINE s == [x EXCEPT !.op = "clearSelected"]
           r == [s EXCEPT !.file = f]
<1> PICK p : p = x.of
  OBVIOUS
<1>1. h \in InFlight /\ x.op = "select"
  BY DEF SaveSelected, Doing, InFlight
<1>2. x \in ImageRequests /\ p \in Galleries
  BY <1>1, InFlightOK DEF Both, ImageRequestOK, BannerOps
<1>3. /\ s \in ImageRequests /\ s.op = "clearSelected" /\ s.on = x.on /\ s.of = x.of
      /\ s.file = x.file /\ s.primary = x.primary
  <2>1. "clearSelected" \in ImageOps
    BY DEF ImageOps
  <2> QED  BY <1>2, <2>1, ImageRequestGoes
<1>4. request' = [request EXCEPT ![h] = r] /\ UNCHANGED <<images, unfinished, overlapped>>
  BY DEF SaveSelected, GoOn
<1> HIDE DEF s
<1>5. r # Null /\ r.op = "clearSelected" /\ r.of = p /\ r.primary = x.primary
  BY <1>3, ImageRequestFile
<1> HIDE DEF r
<1>6. ImageInv /\ PrimaryInv /\ ImageInv'
  BY SaveSelectedKeeps DEF Both
<1>7. p \notin overlapped \cup unfinished' => Knows(r)' /\ OneOrNone(p)'
  <2> SUFFICES ASSUME p \notin overlapped \cup unfinished PROVE Knows(r)' /\ OneOrNone(p)'
    BY <1>4
  <2>1. Knows(x)
    BY <1>1, <1>6 DEF PrimaryInv
  <2>2. Knows(r)
    BY <1>1, <1>5, <2>1 DEF Knows
  <2>3. \A g \in InFlight : request[g].of = p => g = h
    BY <1>1, <1>6 DEF PrimaryInv
  <2>4. OneOrNone(p)
    <3>1. ~\E g \in InFlight : request[g].of = p /\ request[g].op \in Deleting
      BY <1>1, <2>3 DEF Deleting
    <3> QED  BY <1>2, <1>6, <3>1 DEF PrimaryInv
  <2> QED  BY <1>4, <2>2, <2>4, KnowsSame, OneOrNoneSame
<1>8. PrimaryInv'
  BY <1>1, <1>4, <1>5, <1>6, <1>7, PrimaryStep
<1> QED  BY <1>6, <1>8 DEF Both

LEMMA ClearForSelectedKeeps ==
  ASSUME Both, NEW h \in Handlers, ClearForSelected(h)
  PROVE  Both'
<1> PICK r : r = request[h]
  OBVIOUS
<1> DEFINE off == IF r.primary THEN LiveImages(r.of) ELSE {}
           s == [r EXCEPT !.op = "insertSelected"]
           q == [s EXCEPT !.off = off]
<1>1. h \in InFlight /\ r.op = "clearSelected" /\ GoOn(h, q) /\ UNCHANGED imageVars
  BY DEF ClearForSelected, Doing, InFlight
<1>2. /\ ImageRequestOK(r) /\ r \in ImageRequests /\ r.of \in Galleries /\ r.primary \in BOOLEAN
      /\ r.file \in ImageFiles
  BY <1>1, InFlightOK DEF ImageRequestOK, BannerOps, Both
<1>3. off \in SUBSET Nat
  BY <1>2, LiveFinite DEF Both
<1>4. /\ r.primary => off = LiveImages(r.of)
      /\ ~r.primary => off = {}
  OBVIOUS
<1> HIDE DEF off
<1>5. /\ s \in ImageRequests /\ s.op = "insertSelected" /\ s.on = r.on /\ s.of = r.of
      /\ s.file = r.file /\ s.primary = r.primary /\ s.count = r.count
  BY <1>2, ImageRequestGoes DEF ImageOps
<1> HIDE DEF s
<1>6. /\ q \in ImageRequests /\ q # Null /\ q.op = "insertSelected" /\ q.on = r.on /\ q.of = r.of
      /\ q.file = r.file /\ q.primary = r.primary /\ q.count = r.count /\ q.off = off
  BY <1>3, <1>5, ImageRequestOff
<1> HIDE DEF q
<1>7. ImageRequestOK(q) /\ r.op \in Bringing
  BY <1>1, <1>2, <1>6 DEF ImageRequestOK, BannerOps, Bringing
<1>8. Knows(r) => Knows(q)
  BY <1>1, <1>2, <1>4, <1>6 DEF Knows
<1> QED  BY <1>1, <1>6, <1>7, <1>8, GoOnQuiet DEF Deleting

LEMMA ClearForPrimaryKeeps ==
  ASSUME Both, NEW h \in Handlers, ClearForPrimary(h)
  PROVE  Both'
<1> PICK r : r = request[h]
  OBVIOUS
<1> DEFINE off == LiveImages(r.of)
           s == [r EXCEPT !.op = "writePrimary"]
           q == [s EXCEPT !.off = off]
<1>1. h \in InFlight /\ r.op = "setPrimary" /\ GoOn(h, q) /\ UNCHANGED imageVars
  BY DEF ClearForPrimary, Doing, InFlight
<1>2. ImageRequestOK(r) /\ r \in ImageRequests /\ r.of \in Galleries
  BY <1>1, InFlightOK DEF ImageRequestOK, BannerOps, Both
<1>3. off \in SUBSET Nat
  BY <1>2, LiveFinite DEF Both
<1> HIDE DEF off
<1>4. /\ s \in ImageRequests /\ s.op = "writePrimary" /\ s.on = r.on /\ s.of = r.of /\ s.image = r.image
  BY <1>2, ImageRequestGoes DEF ImageOps
<1> HIDE DEF s
<1>5. /\ q \in ImageRequests /\ q # Null /\ q.op = "writePrimary" /\ q.on = r.on /\ q.of = r.of
      /\ q.image = r.image /\ q.off = off
  BY <1>3, <1>4, ImageRequestOff
<1> HIDE DEF q
<1>6. ImageRequestOK(q) /\ q.op \notin Bringing \cup {"clearBanner", "writeBanner"}
  BY <1>1, <1>2, <1>5 DEF ImageRequestOK, BannerOps, Bringing
<1>7. Knows(r) => Knows(q)
  BY <1>1, <1>5 DEF Knows, off
<1> QED  BY <1>1, <1>5, <1>6, <1>7, GoOnQuiet DEF Deleting

LEMMA FindBannerKeeps ==
  ASSUME Both, NEW h \in Handlers, FindBanner(h)
  PROVE  Both'
<1> PICK r : r = request[h]
  OBVIOUS
<1> DEFINE image == banner[r.of]
           s == [r EXCEPT !.op = "clearBanner"]
           q == [s EXCEPT !.image = image]
<1>1. h \in InFlight /\ r.op = "banner" /\ GoOn(h, q) /\ UNCHANGED imageVars
  BY DEF FindBanner, Doing, InFlight
<1>2. ImageRequestOK(r) /\ r \in ImageRequests /\ r.of \in Banners
  BY <1>1, InFlightOK DEF ImageRequestOK, BannerOps, Both
<1>3. image \in ImageFiles \cup {Null}
  BY <1>2 DEF Both, ImageInv
<1> HIDE DEF image
<1>4. /\ s \in ImageRequests /\ s.op = "clearBanner" /\ s.on = r.on /\ s.of = r.of /\ s.file = r.file
  BY <1>2, ImageRequestGoes DEF ImageOps
<1> HIDE DEF s
<1>5. /\ q \in ImageRequests /\ q # Null /\ q.op = "clearBanner" /\ q.on = r.on /\ q.of = r.of
      /\ q.file = r.file /\ q.image = image
  BY <1>3, <1>4, ImageRequestImage
<1> HIDE DEF q
<1>6. ImageRequestOK(q) /\ r.op \in Bringing
  BY <1>1, <1>2, <1>3, <1>5 DEF ImageRequestOK, BannerOps, Bringing
<1>7. Knows(q)
  BY <1>5 DEF Knows
<1>8. q.image = banner[q.of]
  BY <1>5 DEF image
<1> QED  BY <1>1, <1>5, <1>6, <1>7, <1>8, GoOnQuiet DEF Deleting

LEMMA ClearBannerKeeps ==
  ASSUME Both, NEW h \in Handlers, ClearBanner(h)
  PROVE  Both'
<1> PICK r : r = request[h]
  OBVIOUS
<1> DEFINE q == [r EXCEPT !.op = "writeBanner"]
<1>1. /\ h \in InFlight /\ r.op = "clearBanner" /\ request' = [request EXCEPT ![h] = q]
      /\ UNCHANGED <<overlapped, images, banner, unfinished>>
      /\ stored' \subseteq stored /\ \A f \in stored \ stored' : f = r.image
  BY DEF ClearBanner, DeleteFile, Doing, InFlight, GoOn
<1>2. ImageRequestOK(r) /\ r \in ImageRequests /\ r.of \in Banners
  BY <1>1, InFlightOK DEF ImageRequestOK, BannerOps, Both
<1>3. /\ q \in ImageRequests /\ q # Null /\ q.op = "writeBanner" /\ q.on = r.on /\ q.of = r.of
      /\ q.file = r.file /\ q.image = r.image
  BY <1>2, ImageRequestGoes DEF ImageOps
<1> HIDE DEF q
<1>4. ImageRequestOK(q) /\ r.op \in Bringing
  BY <1>1, <1>2, <1>3 DEF ImageRequestOK, BannerOps, Bringing
<1>5. ImageInv /\ PrimaryInv
  BY DEF Both
<1>6. RowsStay /\ ImageRequestOK(q)'
  BY <1>1, <1>4, <1>5, RowsSame, RequestsOfImagesKeep DEF RowsStay
<1>7. \A f \in stored \ stored' : OwnsBanner(<<"banner", r.of, 0>>, f)
  <2>1. \A f \in stored : f # Null
    BY <1>5, ImageAssumption DEF ImageInv
  <2> QED  BY <1>1, <1>2, <2>1 DEF OwnsBanner
<1>8. ImageInv'
  <2>1. \A f \in stored \ stored' :
           \E c \in Banners : /\ OwnsBanner(<<"banner", c, 0>>, f)
                              /\ q # Null /\ q.op = "writeBanner" /\ q.of = c
    BY <1>2, <1>3, <1>7
  <2>2. ~Doing(h, "writeBanner") /\ h \in Handlers
    BY <1>1 DEF Doing, InFlight
  <2>3. Doing(h, "clearBanner") /\ request[h].of = q.of /\ request[h].image = q.image
    BY <1>1, <1>3 DEF Doing, InFlight
  <2> QED  BY <1>1, <1>3, <1>4, <1>5, <1>6, <2>1, <2>2, <2>3, QuietStep
<1>9. PrimaryInv'
  <2> PICK p : p = r.of
    OBVIOUS
  <2>1. p \notin overlapped \cup unfinished' =>
          /\ Knows(q)'
          /\ p \in Galleries => OneOrNone(p)'
    <3> SUFFICES ASSUME p \notin overlapped \cup unfinished
                 PROVE  Knows(q)' /\ (p \in Galleries => OneOrNone(p)')
      BY <1>1
    <3>1. Knows(q)'
      BY <1>3 DEF Knows
    <3>2. \A g \in InFlight : request[g].of = p => g = h
      BY <1>1, <1>5 DEF PrimaryInv
    <3>3. p \in Galleries => OneOrNone(p)
      BY <1>1, <1>5, <3>2 DEF PrimaryInv, Deleting
    <3> QED  BY <1>1, <3>1, <3>3, OneOrNoneSame
  <2> QED  BY <1>1, <1>3, <1>5, <2>1, PrimaryStep
<1> QED  BY <1>8, <1>9 DEF Both

LEMMA WritePrimaryKeeps ==
  ASSUME Both, NEW h \in Handlers, WritePrimary(h)
  PROVE  Both'
<1> PICK r : r = request[h]
  OBVIOUS
<1> PICK x : x = Null
  OBVIOUS
<1> PICK p : p = r.of
  OBVIOUS
<1> PICK i : i = r.image
  OBVIOUS
<1> PICK s : s = Without(p, r.off)
  OBVIOUS
<1> DEFINE row == [s[i] EXCEPT !.primary = TRUE]
<1> PICK t : t = [s EXCEPT ![i] = row]
  OBVIOUS
<1>1. /\ h \in InFlight /\ h \in Handlers /\ r.op = "writePrimary" /\ request' = [request EXCEPT ![h] = x]
      /\ images' = [images EXCEPT ![p] = t]
      /\ UNCHANGED <<overlapped, banner, stored, unfinished>>
  BY DEF WritePrimary, Doing, InFlight, End, GoOn
<1>2. ImageInv /\ PrimaryInv
  BY DEF Both
<1>3. ImageRequestOK(r) /\ p \in Galleries /\ i \in DOMAIN images[p]
  BY <1>1, <1>2, InFlightOK DEF ImageRequestOK, BannerOps
<1>4. /\ s \in Seq(ImageRow) /\ DOMAIN s = DOMAIN images[p]
      /\ \A j \in DOMAIN images[p] :
           /\ s[j].path = images[p][j].path /\ s[j].deleted = images[p][j].deleted
           /\ s[j].primary = (images[p][j].primary /\ j \notin r.off)
  BY <1>2, <1>3, WithoutRows
<1>5. row \in ImageRow /\ row.path = s[i].path /\ row.deleted = s[i].deleted /\ row.primary
  <2>1. s[i] \in ImageRow
    BY <1>3, <1>4, LenProperties, ElementOfSeq
  <2> QED  BY <2>1 DEF ImageRow
<1> HIDE DEF row
<1>6. /\ t \in Seq(ImageRow) /\ DOMAIN t = DOMAIN images[p] /\ t[i] = row
      /\ \A j \in DOMAIN images[p] \ {i} : t[j] = s[j]
  BY <1>2, <1>3, <1>4, <1>5, RowChanged
<1>7. RowsStay
  <2>1. \A j \in DOMAIN images[p] : /\ t[j].path = images[p][j].path
                                    /\ images[p][j].deleted => t[j].deleted
    BY <1>3, <1>4, <1>5, <1>6
  <2> QED  BY <1>1, <1>2, <1>3, <1>6, <2>1, RowsReplaced
<1>8. ImageInv'
  BY <1>1, <1>2, <1>7, QuietStep DEF Doing
<1>9. images'[p] = t /\ \A q \in Galleries \ {p} : images'[q] = images[q]
  BY <1>1, <1>2, <1>3 DEF ImageInv
<1>10. p \notin overlapped \cup unfinished' => OneOrNone(p)'
  <2> SUFFICES ASSUME p \notin overlapped \cup unfinished PROVE OneOrNone(p)'
    BY <1>1
  <2>1. i \in LiveImages(p) /\ r.off = LiveImages(p)
    BY <1>1, <1>2 DEF PrimaryInv, Knows
  <2>2. \A j : j \in Primaries(p)' <=> j \in DOMAIN t /\ ~t[j].deleted /\ t[j].primary
    BY <1>9 DEF Primaries, LiveImages
  <2>3. i \in Primaries(p)'
    BY <1>3, <1>4, <1>5, <1>6, <2>1, <2>2 DEF LiveImages
  <2>4. ASSUME NEW j \in Primaries(p)', j # i PROVE FALSE
    <3>1. j \in DOMAIN images[p] /\ ~t[j].deleted /\ t[j].primary /\ t[j] = s[j]
      BY <1>6, <2>2, <2>4
    <3>2. ~images[p][j].deleted /\ j \notin r.off
      BY <1>4, <3>1
    <3> QED  BY <2>1, <3>1, <3>2 DEF LiveImages
  <2>5. Primaries(p)' = {i}
    BY <2>3, <2>4
  <2> QED  BY <2>5 DEF OneOrNone
<1>11. PrimaryInv'
  BY <1>1, <1>2, <1>9, <1>10, PrimaryStep
<1> QED  BY <1>8, <1>11 DEF Both

LEMMA MarkDeletedKeeps ==
  ASSUME Both, NEW h \in Handlers, MarkDeleted(h)
  PROVE  Both'
<1> PICK r : r = request[h]
  OBVIOUS
<1> PICK p : p = r.of
  OBVIOUS
<1> PICK i : i = r.image
  OBVIOUS
<1> DEFINE row == [[images[p][i] EXCEPT !.deleted = TRUE] EXCEPT !.primary = FALSE]
           q == [r EXCEPT !.op = "deleteFile"]
<1> PICK t : t = [images[p] EXCEPT ![i] = row]
  OBVIOUS
<1>1. ImageInv /\ PrimaryInv
  BY DEF Both
<1>2. /\ h \in InFlight /\ h \in Handlers /\ r.op = "mark" /\ request' = [request EXCEPT ![h] = q]
      /\ UNCHANGED <<overlapped, banner, stored, unfinished>>
      /\ images' = [images EXCEPT ![p][i].deleted = TRUE, ![p][i].primary = FALSE]
  BY DEF MarkDeleted, Doing, InFlight, GoOn
<1>3. ImageRequestOK(r) /\ r \in ImageRequests /\ p \in Galleries /\ i \in DOMAIN images[p]
  BY <1>1, <1>2, InFlightOK DEF ImageRequestOK, BannerOps
<1>4. images[p] \in Seq(ImageRow) /\ images[p][i] \in ImageRow
  BY <1>1, <1>3, RowsTyped
<1>5. row \in ImageRow /\ row.path = images[p][i].path /\ row.deleted /\ ~row.primary
  BY <1>4 DEF ImageRow
<1>6. images' = [images EXCEPT ![p] = t]
  <2>1. p \in DOMAIN images
    BY <1>1, <1>3 DEF ImageInv
  <2> DEFINE first == [images EXCEPT ![p][i].deleted = TRUE]
  <2>2. first[p] = [images[p] EXCEPT ![i].deleted = TRUE]
    BY <2>1
  <2>3. first[p][i] = [images[p][i] EXCEPT !.deleted = TRUE]
    BY <1>3, <2>2
  <2>4. images' = [first EXCEPT ![p][i].primary = FALSE]
    BY <1>2
  <2>5. images'[p] = [first[p] EXCEPT ![i].primary = FALSE]
    BY <2>1, <2>4
  <2>6. images'[p][i] = row /\ DOMAIN images'[p] = DOMAIN images[p]
    BY <1>3, <2>2, <2>3, <2>5
  <2>7. \A j \in DOMAIN images[p] : j # i => images'[p][j] = images[p][j]
    BY <2>2, <2>5
  <2>8. images'[p] = t
    <3> HIDE DEF row
    <3>1. images'[p] = [j \in DOMAIN images[p] |-> images'[p][j]]
      BY <2>2, <2>5
    <3>2. t = [j \in DOMAIN images[p] |-> IF j = i THEN row ELSE images[p][j]]
      OBVIOUS
    <3> QED  BY <2>6, <2>7, <3>1, <3>2
  <2>9. \A g \in DOMAIN images : g # p => images'[g] = images[g]
    BY <2>4
  <2>10. images' = [g \in DOMAIN images |-> images'[g]]
    <3>1. DOMAIN first = DOMAIN images
      OBVIOUS
    <3> HIDE DEF first
    <3> QED  BY <2>4, <3>1
  <2>11. [images EXCEPT ![p] = t] = [g \in DOMAIN images |-> IF g = p THEN t ELSE images[g]]
    OBVIOUS
  <2> QED  BY <2>8, <2>9, <2>10, <2>11
<1> HIDE DEF row
<1>7. /\ t \in Seq(ImageRow) /\ DOMAIN t = DOMAIN images[p] /\ t[i] = row
      /\ \A j \in DOMAIN images[p] \ {i} : t[j] = images[p][j]
  BY <1>1, <1>3, <1>4, <1>5, RowChanged
<1>8. RowsStay
  <2>1. \A j \in DOMAIN images[p] : /\ t[j].path = images[p][j].path
                                    /\ images[p][j].deleted => t[j].deleted
    BY <1>3, <1>5, <1>7
  <2>2. ImageInv /\ p \in Galleries /\ images' = [images EXCEPT ![p] = t] /\ t \in Seq(ImageRow)
        /\ DOMAIN t = DOMAIN images[p]
    BY <1>1, <1>3, <1>6, <1>7
  <2> QED  BY ONLY <2>1, <2>2, RowsReplaced
<1>9. images'[p] = t /\ \A g \in Galleries \ {p} : images'[g] = images[g]
  BY <1>1, <1>3, <1>6 DEF ImageInv
<1>10. /\ q \in ImageRequests /\ q # Null /\ q.op = "deleteFile" /\ q.on = r.on /\ q.of = r.of
       /\ q.file = r.file /\ q.image = r.image /\ q.primary = r.primary
  <2>1. "deleteFile" \in ImageOps
    BY DEF ImageOps
  <2> QED  BY <1>3, <2>1, ImageRequestGoes
<1> PICK z : z = q
  OBVIOUS
<1> HIDE DEF q
<1>11. ImageRequestOK(z)'
  <2>1. z.of = p /\ z.image = i /\ i \in DOMAIN images'[p] /\ z.file = images'[p][i].path /\ images'[p][i].deleted
    <3>1. r.file = images[p][i].path
      BY <1>2, <1>3 DEF ImageRequestOK
    <3> QED  BY <1>3, <1>5, <1>7, <1>9, <1>10, <3>1
  <2> QED  BY <1>2, <1>3, <1>10, <2>1 DEF ImageRequestOK, BannerOps
<1>12. ImageInv'
  <2>1. z.op \notin Bringing \cup {"clearBanner", "writeBanner"} /\ ~Doing(h, "writeBanner")
    BY <1>2, <1>10 DEF Bringing, BannerOps, Doing
  <2>2. request' = [request EXCEPT ![h] = z]
    BY <1>2
  <2> QED  BY <1>1, <1>2, <1>8, <1>11, <2>1, <2>2, QuietStep
<1>13. p \notin overlapped \cup unfinished' => Knows(z)'
  <2> SUFFICES ASSUME p \notin overlapped \cup unfinished PROVE Knows(z)'
    BY <1>2
  <2>1. i \in LiveImages(p) /\ r.primary = images[p][i].primary
    BY <1>1, <1>2 DEF PrimaryInv, Knows
  <2>2. OneOrNone(p)
    <3>1. ~\E g \in InFlight : request[g].of = p /\ request[g].op \in Deleting
      BY <1>1, <1>2 DEF PrimaryInv, Deleting
    <3> QED  BY <1>1, <1>2, <1>3, <3>1 DEF PrimaryInv
  <2>3. PICK m : Primaries(p) = {m}
    BY <2>1, <2>2 DEF OneOrNone
  <2>4. \A j : j \in Primaries(p)' <=> j \in DOMAIN t /\ ~t[j].deleted /\ t[j].primary
    BY <1>9 DEF Primaries, LiveImages
  <2>5. \A j : j \in Primaries(p)' <=> j \in Primaries(p) /\ j # i
    BY <1>3, <1>5, <1>7, <2>4 DEF Primaries, LiveImages
  <2>6. CASE r.primary
    <3>1. m = i
      BY <2>1, <2>3, <2>6 DEF Primaries
    <3>2. Primaries(p)' = {}
      BY <2>3, <2>5, <3>1
    <3> QED  BY <1>10, <2>6, <3>2 DEF Knows
  <2>7. CASE ~r.primary
    <3>1. m # i
      BY <2>1, <2>3, <2>7 DEF Primaries
    <3>2. Primaries(p)' = {m}
      BY <2>3, <2>5, <3>1
    <3>3. OneOrNone(p)'
      BY <3>2 DEF OneOrNone
    <3> QED  BY <1>10, <2>7, <3>3 DEF Knows
  <2> QED  BY <2>6, <2>7
<1>14. PrimaryInv'
  <2>1. z # Null /\ z.op \in Deleting /\ z.of = p /\ request' = [request EXCEPT ![h] = z]
    BY <1>2, <1>10 DEF Deleting
  <2> QED  BY <1>1, <1>2, <1>9, <1>13, <2>1, PrimaryStep
<1> QED  BY <1>12, <1>14 DEF Both

\* The next image to be the primary one is there.
LEMMA FirstImage ==
  ASSUME ImageInv, NEW p \in Galleries, LiveImages(p) # {}
  PROVE  (CHOOSE i \in LiveImages(p) : \A j \in LiveImages(p) : Before(p, i, j)) \in LiveImages(p)
<1> DEFINE live == LiveImages(p)
           orders == {images[p][i].order : i \in live}
<1>1. live \in SUBSET Nat /\ \A i \in live : images[p][i].order \in Nat
  <2>1. \A i \in live : images[p][i] \in ImageRow
    BY LiveFinite, RowsTyped
  <2> QED  BY <2>1, LiveFinite DEF ImageRow
<1>2. orders \in SUBSET Nat /\ orders # {}
  BY <1>1
<1>3. PICK m \in orders : \A n \in orders : m <= n
  BY <1>2, SmallestOf
<1> DEFINE first == {i \in live : images[p][i].order = m}
<1>4. first \in SUBSET Nat /\ first # {}
  BY <1>1
<1>5. PICK i \in first : \A j \in first : i <= j
  BY <1>4, SmallestOf
<1>6. ASSUME NEW j \in live PROVE Before(p, i, j)
  <2>1. images[p][j].order \in orders /\ m <= images[p][j].order /\ images[p][i].order = m
    BY <1>3
  <2>2. m \in Nat /\ images[p][j].order \in Nat
    BY <1>1, <1>2
  <2>3. CASE images[p][j].order = m
    BY <1>5, <2>1, <2>3 DEF Before
  <2>4. CASE images[p][j].order # m
    BY <2>1, <2>2, <2>4 DEF Before
  <2> QED  BY <2>3, <2>4
<1>7. \E x \in live : \A j \in live : Before(p, x, j)
  BY <1>6
<1> QED  BY <1>7

LEMMA DeleteImageFileKeeps ==
  ASSUME Both, NEW h \in Handlers, DeleteImageFile(h)
  PROVE  Both'
<1> PICK r : r = request[h]
  OBVIOUS
<1> PICK p : p = r.of
  OBVIOUS
<1> DEFINE q == [r EXCEPT !.op = "findNext"]
<1> PICK z : z = IF r.primary THEN q ELSE Null
  OBVIOUS
<1>1. ImageInv /\ PrimaryInv
  BY DEF Both
<1>2. /\ h \in InFlight /\ h \in Handlers /\ r.op = "deleteFile" /\ request' = [request EXCEPT ![h] = z]
      /\ UNCHANGED <<overlapped, images, banner, unfinished>>
      /\ stored' \subseteq stored /\ \A f \in stored \ stored' : f = r.file
  BY DEF DeleteImageFile, DeleteFile, Doing, InFlight, End, GoOn
<1>3. /\ ImageRequestOK(r) /\ r \in ImageRequests /\ p \in Galleries
      /\ r.image \in DOMAIN images[p] /\ images[p][r.image].path = r.file /\ images[p][r.image].deleted
  BY <1>1, <1>2, InFlightOK DEF ImageRequestOK, BannerOps
<1>4. /\ q \in ImageRequests /\ q # Null /\ q.op = "findNext" /\ q.on = r.on /\ q.of = r.of
      /\ q.file = r.file /\ q.image = r.image /\ q.primary = r.primary
  <2>1. "findNext" \in ImageOps
    BY DEF ImageOps
  <2> QED  BY <1>3, <2>1, ImageRequestGoes
<1> HIDE DEF q
<1>5. ImageRequestOK(q)
  BY <1>3, <1>4 DEF ImageRequestOK, BannerOps
<1>6. RowsStay /\ (z = Null \/ ImageRequestOK(z)')
  <2>1. RowsStay /\ RowsGrow
    BY <1>1, <1>2, RowsSame DEF RowsStay
  <2>2. z = Null \/ ImageRequestOK(z)
    BY <1>5
  <2> QED  BY <1>1, <2>1, <2>2, RequestsOfImagesKeep
<1>7. z # Null => z.op = "findNext" /\ z.of = p /\ r.primary
  BY <1>4
<1>8. ImageInv'
  <2>1. z # Null => z.op \notin Bringing \cup {"clearBanner", "writeBanner"}
    BY <1>7 DEF Bringing, BannerOps
  <2>2. ~Doing(h, "writeBanner")
    BY <1>2 DEF Doing
  <2>3. \A f \in stored \ stored' :
          \E x \in Galleries : \E i \in DOMAIN images[x] : images[x][i].deleted /\ images[x][i].path = f
    BY <1>2, <1>3
  <2> QED  BY <1>1, <1>2, <1>6, <2>1, <2>2, <2>3, QuietStep
<1>9. p \notin overlapped \cup unfinished' =>
        /\ z = Null \/ Knows(z)'
        /\ OneOrNone(p)' \/ (z # Null /\ z.op \in Deleting)
  <2> SUFFICES ASSUME p \notin overlapped \cup unfinished
               PROVE  /\ z = Null \/ Knows(z)'
                      /\ OneOrNone(p)' \/ (z # Null /\ z.op \in Deleting)
    BY <1>2
  <2>1. IF r.primary THEN Primaries(p) = {} ELSE OneOrNone(p)
    BY <1>1, <1>2 DEF PrimaryInv, Knows
  <2>2. CASE r.primary
    <3>1. z # Null /\ z.op = "findNext" /\ z.of = p
      BY <1>4, <1>7, <2>2
    <3>2. Primaries(p)' = {}
      BY <1>2, <2>1, <2>2 DEF Primaries, LiveImages
    <3> QED  BY <3>1, <3>2 DEF Knows, Deleting
  <2>3. CASE ~r.primary
    BY <1>2, <2>1, <2>3, OneOrNoneSame
  <2> QED  BY <2>2, <2>3
<1>10. PrimaryInv'
  BY <1>1, <1>2, <1>7, <1>9, PrimaryStep
<1> QED  BY <1>8, <1>10 DEF Both

LEMMA FindNextKeeps ==
  ASSUME Both, NEW h \in Handlers, FindNext(h)
  PROVE  Both'
<1> PICK r : r = request[h]
  OBVIOUS
<1> PICK p : p = r.of
  OBVIOUS
<1> DEFINE i == CHOOSE i \in LiveImages(p) : \A j \in LiveImages(p) : Before(p, i, j)
           s == [r EXCEPT !.op = "promote"]
           q == [s EXCEPT !.image = i]
<1>1. /\ h \in InFlight /\ r.op = "findNext" /\ UNCHANGED imageVars
      /\ IF LiveImages(p) = {} THEN End(h) ELSE GoOn(h, q)
  BY DEF FindNext, Doing, InFlight
<1>2. ImageRequestOK(r) /\ r \in ImageRequests /\ p \in Galleries
  BY <1>1, InFlightOK DEF ImageRequestOK, BannerOps, Both
<1>3. CASE LiveImages(p) = {}
  BY <1>1, <1>3, EndQuiet DEF imageVars
<1>4. CASE LiveImages(p) # {}
  <2>1. i \in LiveImages(p)
    BY <1>2, <1>4, FirstImage DEF Both
  <2>2. i \in DOMAIN images[p] /\ i \in Nat
    BY <1>2, <2>1, LiveFinite DEF Both
  <2> HIDE DEF i
  <2>3. /\ s \in ImageRequests /\ s.op = "promote" /\ s.on = r.on /\ s.of = r.of
    <3>1. "promote" \in ImageOps
      BY DEF ImageOps
    <3> QED  BY <1>2, <3>1, ImageRequestGoes
  <2> HIDE DEF s
  <2>4. q \in ImageRequests /\ q # Null /\ q.op = "promote" /\ q.on = r.on /\ q.of = r.of /\ q.image = i
    BY <2>2, <2>3, ImageRequestImage
  <2> HIDE DEF q
  <2>5. ImageRequestOK(q) /\ q.op \notin Bringing \cup {"clearBanner", "writeBanner"}
    BY <1>1, <1>2, <2>2, <2>4 DEF ImageRequestOK, BannerOps, Bringing
  <2>6. Knows(r) => Knows(q)
    BY <1>1, <2>1, <2>4 DEF Knows
  <2>7. GoOn(h, q) /\ q.op \in Deleting
    BY <1>1, <1>4, <2>4 DEF Deleting
  <2> QED  BY <1>1, <2>4, <2>5, <2>6, <2>7, GoOnQuiet
<1> QED  BY <1>3, <1>4

LEMMA PromoteKeeps ==
  ASSUME Both, NEW h \in Handlers, Promote(h)
  PROVE  Both'
<1> PICK r : r = request[h]
  OBVIOUS
<1> PICK x : x = Null
  OBVIOUS
<1> PICK p : p = r.of
  OBVIOUS
<1> PICK i : i = r.image
  OBVIOUS
<1> DEFINE row == [images[p][i] EXCEPT !.primary = TRUE]
<1> PICK t : t = [images[p] EXCEPT ![i] = row]
  OBVIOUS
<1>1. ImageInv /\ PrimaryInv
  BY DEF Both
<1>2. /\ h \in InFlight /\ h \in Handlers /\ r.op = "promote" /\ request' = [request EXCEPT ![h] = x]
      /\ UNCHANGED <<overlapped, banner, stored, unfinished>>
      /\ images' = [images EXCEPT ![p] = t]
  BY DEF Promote, Doing, InFlight, End, GoOn
<1>3. ImageRequestOK(r) /\ p \in Galleries /\ i \in DOMAIN images[p]
  BY <1>1, <1>2, InFlightOK DEF ImageRequestOK, BannerOps
<1>4. images[p] \in Seq(ImageRow) /\ images[p][i] \in ImageRow
  BY <1>1, <1>3, RowsTyped
<1>5. row \in ImageRow /\ row.path = images[p][i].path /\ row.deleted = images[p][i].deleted /\ row.primary
  BY <1>4 DEF ImageRow
<1> HIDE DEF row
<1>6. /\ t \in Seq(ImageRow) /\ DOMAIN t = DOMAIN images[p] /\ t[i] = row
      /\ \A j \in DOMAIN images[p] \ {i} : t[j] = images[p][j]
  BY <1>1, <1>3, <1>4, <1>5, RowChanged
<1>7. RowsStay
  <2>1. \A j \in DOMAIN images[p] : /\ t[j].path = images[p][j].path
                                    /\ images[p][j].deleted => t[j].deleted
    BY <1>3, <1>5, <1>6
  <2>2. ImageInv /\ p \in Galleries /\ images' = [images EXCEPT ![p] = t] /\ t \in Seq(ImageRow)
        /\ DOMAIN t = DOMAIN images[p]
    BY <1>1, <1>2, <1>3, <1>6
  <2> QED  BY ONLY <2>1, <2>2, RowsReplaced
<1>8. ImageInv'
  BY <1>1, <1>2, <1>7, QuietStep DEF Doing
<1>9. images'[p] = t /\ \A g \in Galleries \ {p} : images'[g] = images[g]
  BY <1>1, <1>2, <1>3 DEF ImageInv
<1>10. p \notin overlapped \cup unfinished' => OneOrNone(p)'
  <2> SUFFICES ASSUME p \notin overlapped \cup unfinished PROVE OneOrNone(p)'
    BY <1>2
  <2>1. i \in LiveImages(p) /\ Primaries(p) = {}
    BY <1>1, <1>2 DEF PrimaryInv, Knows
  <2>2. \A j : j \in Primaries(p)' <=> j \in DOMAIN t /\ ~t[j].deleted /\ t[j].primary
    BY <1>9 DEF Primaries, LiveImages
  <2>3. i \in Primaries(p)'
    BY <1>3, <1>5, <1>6, <2>1, <2>2 DEF LiveImages
  <2>4. \A j \in Primaries(p)' : j = i
    BY <1>6, <2>1, <2>2 DEF Primaries, LiveImages
  <2>5. Primaries(p)' = {i}
    BY <2>3, <2>4
  <2> QED  BY <2>5 DEF OneOrNone
<1>11. PrimaryInv'
  BY <1>1, <1>2, <1>9, <1>10, PrimaryStep
<1> QED  BY <1>8, <1>11 DEF Both

LEMMA SaveUploadKnows ==
  ASSUME Both, NEW h \in Handlers, NEW p \in Galleries, NEW f \in ImageFiles,
         NEW primary \in BOOLEAN, SaveUpload(h, p, f, primary)
  PROVE  Both'
<1> DEFINE r == ImageRequest("add", p, f, Null, primary, Null, {})
<1>1. r \in ImageRequests /\ r # Null /\ r.op = "add" /\ r.on = {p} /\ r.of = p
  BY ImageAssumption DEF ImageRequest, ImageRequests, ImageOps
<1>2. Begin(h, r) /\ UNCHANGED <<images, unfinished>>
  BY DEF SaveUpload
<1> HIDE DEF r
<1>3. Knows(r) /\ r.on = {r.of}
  BY <1>1 DEF Knows
<1> QED  BY <1>1, <1>2, <1>3, SaveUploadKeeps, PrimaryBegin DEF Both

LEMMA SaveBannerKnows ==
  ASSUME Both, NEW h \in Handlers, NEW c \in Banners, NEW f \in ImageFiles \cup {Null},
         SaveBanner(h, c, f)
  PROVE  Both'
<1> DEFINE r == ImageRequest("banner", c, f, Null, Null, Null, {})
<1>1. r \in ImageRequests /\ r # Null /\ r.op = "banner" /\ r.on = {c} /\ r.of = c
  BY ImageAssumption DEF ImageRequest, ImageRequests, ImageOps
<1>2. Begin(h, r) /\ UNCHANGED <<images, unfinished>>
  BY DEF SaveBanner
<1> HIDE DEF r
<1>3. Knows(r) /\ r.on = {r.of}
  BY <1>1 DEF Knows
<1> QED  BY <1>1, <1>2, <1>3, SaveBannerKeeps, PrimaryBegin DEF Both

LEMMA WriteBannerKnows ==
  ASSUME Both, NEW h \in Handlers, WriteBanner(h)
  PROVE  Both'
<1> PICK x : x = Null
  OBVIOUS
<1> PICK p : p = request[h].of
  OBVIOUS
<1>1. /\ h \in InFlight /\ request[h].op = "writeBanner" /\ request' = [request EXCEPT ![h] = x]
      /\ UNCHANGED <<images, unfinished, overlapped>>
  BY DEF WriteBanner, Doing, InFlight, End, GoOn
<1>2. ImageInv /\ PrimaryInv
  BY DEF Both
<1>3. p \notin overlapped \cup unfinished' /\ p \in Galleries => OneOrNone(p)'
  <2> SUFFICES ASSUME p \notin overlapped \cup unfinished, p \in Galleries
               PROVE  OneOrNone(p)
    BY <1>1, OneOrNoneSame
  <2>1. ~\E g \in InFlight : request[g].of = p /\ request[g].op \in Deleting
    BY <1>1, <1>2 DEF PrimaryInv, Deleting
  <2> QED  BY <1>2, <2>1 DEF PrimaryInv
<1>4. PrimaryInv'
  BY <1>1, <1>2, <1>3, PrimaryStep
<1> QED  BY <1>4, WriteBannerKeeps DEF Both

LEMMA InsertImageKnows ==
  ASSUME Both, NEW h \in Handlers, InsertImage(h)
  PROVE  Both'
<1> PICK r : r = request[h]
  OBVIOUS
<1> PICK x : x = Null
  OBVIOUS
<1> PICK p : p = r.of
  OBVIOUS
<1> PICK s : s = Without(p, r.off)
  OBVIOUS
<1> DEFINE row == [path |-> r.file, primary |-> r.primary, order |-> r.count, deleted |-> FALSE]
<1> PICK n : n = Len(images[p]) + 1
  OBVIOUS
<1> PICK t : t = Append(s, row)
  OBVIOUS
<1>1. ImageInv /\ PrimaryInv
  BY DEF Both
<1>2. /\ h \in InFlight /\ h \in Handlers /\ r.op \in {"insert", "insertSelected"}
      /\ images' = [images EXCEPT ![p] = t]
      /\ request' = [request EXCEPT ![h] = x] /\ UNCHANGED <<overlapped, unfinished>>
  BY DEF InsertImage, Doing, InFlight, End, GoOn
<1>3. ImageRequestOK(r) /\ p \in Galleries /\ row \in ImageRow /\ r.primary \in BOOLEAN
  BY <1>1, <1>2, InFlightOK DEF ImageRequestOK, BannerOps, ImageRow
<1>4. row.primary = r.primary /\ ~row.deleted
  OBVIOUS
<1> HIDE DEF row
<1>5. /\ s \in Seq(ImageRow) /\ Len(s) = Len(images[p]) /\ DOMAIN s = DOMAIN images[p]
      /\ \A i \in DOMAIN images[p] : /\ s[i].deleted = images[p][i].deleted
                                     /\ s[i].primary = (images[p][i].primary /\ i \notin r.off)
  BY <1>1, <1>3, WithoutRows
<1>6. /\ t \in Seq(ImageRow) /\ DOMAIN t = DOMAIN images[p] \cup {n} /\ n \notin DOMAIN images[p]
      /\ t[n] = row /\ \A j \in DOMAIN images[p] : t[j] = s[j]
  BY <1>1, <1>3, <1>5, RowAppended
<1>7. images'[p] = t /\ \A g \in Galleries \ {p} : images'[g] = images[g]
  BY <1>1, <1>2, <1>3 DEF ImageInv
<1>8. p \notin overlapped \cup unfinished' => OneOrNone(p)'
  <2> SUFFICES ASSUME p \notin overlapped \cup unfinished PROVE OneOrNone(p)'
    BY <1>2
  <2>1. IF r.primary THEN r.off = LiveImages(p) ELSE r.off = {} /\ LiveImages(p) # {}
    BY <1>1, <1>2 DEF PrimaryInv, Knows
  <2>2. \A j : j \in Primaries(p)' <=> j \in DOMAIN t /\ ~t[j].deleted /\ t[j].primary
    BY <1>7 DEF Primaries, LiveImages
  <2>3. n \in Primaries(p)' <=> r.primary
    BY <1>3, <1>4, <1>6, <2>2
  <2>4. \A j \in DOMAIN images[p] : j \in Primaries(p)' <=> j \in Primaries(p) /\ j \notin r.off
    <3> SUFFICES ASSUME NEW j \in DOMAIN images[p]
                 PROVE  j \in Primaries(p)' <=> j \in Primaries(p) /\ j \notin r.off
      OBVIOUS
    <3>1. t[j].deleted = images[p][j].deleted /\ t[j].primary = (images[p][j].primary /\ j \notin r.off)
      BY <1>5, <1>6
    <3> QED  BY <1>6, <2>2, <3>1 DEF Primaries, LiveImages
  <2>5. \A j \in Primaries(p)' : j = n \/ j \in DOMAIN images[p]
    BY <1>6, <2>2
  <2>6. \A j \in Primaries(p) : j \in LiveImages(p) /\ j \in DOMAIN images[p]
    BY DEF Primaries, LiveImages
  <2>7. CASE r.primary
    <3>1. Primaries(p)' = {n}
      BY <2>1, <2>3, <2>4, <2>5, <2>6, <2>7
    <3> QED  BY <3>1 DEF OneOrNone
  <2>8. CASE ~r.primary
    <3>1. ~\E g \in InFlight : request[g].of = p /\ request[g].op \in Deleting
      BY <1>1, <1>2 DEF PrimaryInv, Deleting
    <3>2. OneOrNone(p)
      BY <1>1, <1>3, <3>1 DEF PrimaryInv
    <3>3. PICK m : Primaries(p) = {m}
      BY <2>1, <2>8, <3>2 DEF OneOrNone
    <3>4. Primaries(p)' = {m}
      BY <2>1, <2>3, <2>4, <2>5, <2>6, <2>8, <3>3
    <3> QED  BY <3>4 DEF OneOrNone
  <2> QED  BY <2>7, <2>8
<1>9. PrimaryInv'
  BY <1>1, <1>2, <1>7, <1>8, PrimaryStep
<1> QED  BY <1>9, InsertImageKeeps DEF Both

LEMMA AbandonImageKeeps ==
  ASSUME Both, NEW h \in Handlers, AbandonImage(h)
  PROVE  Both'
<1>1. /\ h \in InFlight /\ End(h) /\ UNCHANGED <<images, banner, stored>>
      /\ unfinished \subseteq unfinished'
      /\ request[h].of \in unfinished' \/ request[h].op \notin Deleting \cup {"writeBanner"}
  BY DEF AbandonImage, Abandon, InFlight, Deleting
<1> QED  BY <1>1, EndQuiet

LEMMA ImagesUnchanged ==
  ASSUME Both, UNCHANGED <<requestVars, images, banner, stored, unfinished>>
  PROVE  Both'
<1>1. ImageInv /\ PrimaryInv /\ UNCHANGED <<request, overlapped, images, banner, stored, unfinished>>
  BY DEF Both, requestVars
<1>2. InFlight' = InFlight /\ RowsGrow
  BY <1>1, RowsSame DEF InFlight, RowsStay
<1>3. (\A g \in InFlight : ImageRequestOK(request[g]))'
  <2> SUFFICES ASSUME NEW g \in InFlight PROVE ImageRequestOK(request[g])'
    BY <1>2
  <2> PICK q : q = request[g]
    OBVIOUS
  <2>1. ImageRequestOK(q)'
    BY <1>1, <1>2, InFlightOK, RequestsOfImagesKeep
  <2> QED  BY <1>1, <2>1
<1>4. Exclusive'
  <2>1. Exclusive
    BY <1>1 DEF ImageInv
  <2>2. \A k, f : Owns(k, f)' <=> Owns(k, f)
    BY <1>1, <1>2 DEF Owns, OwnsRow, OwnsBanner, OwnsNew
  <2> HIDE DEF Owns
  <2> QED  BY <2>1, <2>2 DEF Exclusive
<1>5. NewStored' /\ ImagesServed' /\ BannerServed'
  <2>1. NewStored /\ ImagesServed /\ BannerServed
    BY <1>1 DEF ImageInv
  <2> QED  BY <1>1, <1>2, <2>1 DEF NewStored, ImagesServed, BannerServed, LiveImages, Doing
<1>6. ImageInv'
  BY <1>1, <1>3, <1>4, <1>5 DEF ImageInv
<1>7. (\A g \in InFlight : request[g].of \in overlapped \cup unfinished \/ Knows(request[g]))'
  <2> SUFFICES ASSUME NEW g \in InFlight, request[g].of \notin overlapped \cup unfinished
               PROVE  Knows(request[g])'
    BY <1>1, <1>2
  <2> PICK q : q = request[g]
    OBVIOUS
  <2>1. Knows(q)'
    BY <1>1, KnowsSame DEF PrimaryInv
  <2> QED  BY <1>1, <2>1
<1>8. \A p : OneOrNone(p)' <=> OneOrNone(p)
  BY <1>1, OneOrNoneSame
<1>9. PrimaryInv'
  BY <1>1, <1>2, <1>7, <1>8 DEF PrimaryInv
<1> QED  BY <1>6, <1>9 DEF Both

LEMMA ImagesNextKeeps ==
  ASSUME Both, ImagesNext
  PROVE  Both'
<1>1. ASSUME NEW h \in Handlers,
             \/ \E p \in Galleries :
                  \/ \E f \in ImageFiles, primary \in BOOLEAN : SaveUpload(h, p, f, primary)
                  \/ BeginSelect(h, p)
                  \/ \E i \in DOMAIN images[p] : BeginSetPrimary(h, p, i) \/ BeginDeleteImage(h, p, i)
             \/ \E f \in ImageFiles : SaveSelected(h, f)
             \/ CountImages(h) \/ ClearForSelected(h) \/ InsertImage(h)
             \/ ClearForPrimary(h) \/ WritePrimary(h)
             \/ MarkDeleted(h) \/ DeleteImageFile(h) \/ FindNext(h) \/ Promote(h)
             \/ AbandonImage(h)
      PROVE  Both'
  BY <1>1, SaveUploadKnows, BeginSelectKeeps, BeginSetPrimaryKeeps, BeginDeleteImageKeeps,
     SaveSelectedKnows, CountImagesKeeps, ClearForSelectedKeeps, InsertImageKnows,
     ClearForPrimaryKeeps, WritePrimaryKeeps, MarkDeletedKeeps, DeleteImageFileKeeps,
     FindNextKeeps, PromoteKeeps, AbandonImageKeeps
<1>2. ASSUME NEW p \in Galleries, NEW skipped \in BOOLEAN, MarkReviewed(p, skipped)
      PROVE  Both'
  BY <1>2, ImagesUnchanged DEF MarkReviewed
<1>3. ASSUME BannerNext PROVE Both'
  BY <1>3, SaveBannerKnows, FindBannerKeeps, ClearBannerKeeps, WriteBannerKnows, AbandonImageKeeps
  DEF BannerNext
<1> QED  BY <1>1, <1>2, <1>3 DEF ImagesNext, GalleryNext

LEMMA ImagesInvariant == ImagesSpec => []Both
<1>1. ImagesInit /\ RequestsInit => Both
  <2> SUFFICES ASSUME ImagesInit, RequestsInit PROVE Both
    OBVIOUS
  <2>1. /\ InFlight = {} /\ DOMAIN request = Handlers /\ stored = {}
        /\ \A p \in Galleries : images[p] = << >> /\ LiveImages(p) = {}
        /\ \A c \in Banners : banner[c] = Null
    BY DEF ImagesInit, RequestsInit, InFlight, LiveImages
  <2>2. images \in [Galleries -> Seq(ImageRow)] /\ banner \in [Banners -> ImageFiles \cup {Null}]
    BY EmptySeq DEF ImagesInit
  <2>3. \A k, f : ~Owns(k, f)
    BY <2>1 DEF Owns, OwnsRow, OwnsBanner, OwnsNew
  <2>4. Exclusive
    BY <2>3 DEF Exclusive
  <2>5. ImageInv
    BY <2>1, <2>2, <2>4 DEF ImageInv, NewStored, ImagesServed, BannerServed
  <2>6. PrimaryInv
    BY <2>1 DEF PrimaryInv, OneOrNone
  <2> QED  BY <2>5, <2>6 DEF Both
<1>2. Both /\ [ImagesNext]_<<requestVars, imageVars>> => Both'
  BY ImagesNextKeeps, ImagesUnchanged DEF imageVars
<1> QED  BY <1>1, <1>2, PTL DEF ImagesSpec

\* What is shown of products and categories is on disk (AdminProductImagesService,
\* CategoriesService), however the requests on them overlap and are lost.
THEOREM UploadsAlwaysServed == ImagesSpec => []UploadsServed
<1>1. Both => UploadsServed
  BY DEF Both, ImageInv, UploadsServed
<1> QED  BY <1>1, ImagesInvariant, PTL

\* A product that has images has one primary image, unless two requests on
\* them overlap or a deletion is lost halfway (ProductsService.deleteImage).
THEOREM AlwaysOnePrimary == ImagesSpec => []OnePrimary
<1>1. Both => OnePrimary
  <2> SUFFICES ASSUME Both, NEW p \in Galleries, p \notin overlapped \cup unfinished,
                      LiveImages(p) # {},
                      ~\E h \in InFlight : request[h].of = p /\ request[h].op \in {"deleteFile", "findNext", "promote"}
               PROVE  Cardinality(Primaries(p)) = 1
    BY DEF OnePrimary
  <2>1. OneOrNone(p)
    BY DEF Both, PrimaryInv, Deleting
  <2>2. PICK i : Primaries(p) = {i}
    BY <2>1 DEF OneOrNone
  <2> QED  BY <2>2, FS_Singleton
<1> QED  BY <1>1, ImagesInvariant, PTL

-----------------------------------------------------------------------------
(* What the catalogue shows: categories.service.ts, products.service.ts.    *)

LEMMA MinOfTwo ==
  ASSUME NEW a \in Int, NEW b \in Int
  PROVE  Min({a, b}) = IF a <= b THEN a ELSE b
<1>1. \E x \in {a, b} : \A y \in {a, b} : x =< y
  <2>1. CASE a <= b
    BY <2>1
  <2>2. CASE ~(a <= b)
    BY <2>2
  <2> QED  BY <2>1, <2>2
<1> DEFINE m == Min({a, b})
<1>2. m \in {a, b} /\ \A y \in {a, b} : m =< y
  BY <1>1 DEF Min
<1> HIDE DEF m
<1>3. m = IF a <= b THEN a ELSE b
  BY <1>2
<1> QED  BY <1>3 DEF m

\* A division that rounds down.
LEMMA Rounded ==
  ASSUME NEW a \in Nat, NEW b \in Nat \ {0}
  PROVE  LET q == a \div b IN q \in Nat /\ q * b <= a /\ a < (q + 1) * b
OBVIOUS

\* The pages of a list of `n` are as many as it takes.
LEMMA PagesCounted ==
  ASSUME NEW n \in Nat, NEW limit \in Nat \ {0}, NEW t, t = (n + limit - 1) \div limit
  PROVE  /\ t \in Nat /\ n <= t * limit /\ (t + 1) * limit = t * limit + limit
         /\ \A k \in 1..t : /\ (k - 1) * limit \in Nat /\ k * limit = (k - 1) * limit + limit
                            /\ (k - 1) * limit < n
<1>1. n + limit - 1 \in Nat
  OBVIOUS
<1>2. t \in Nat /\ t * limit <= n + limit - 1 /\ n + limit - 1 < (t + 1) * limit
  BY <1>1, Rounded
<1>3. (t + 1) * limit = t * limit + limit /\ t * limit \in Nat
  BY ONLY <1>2, limit \in Nat \ {0}
<1>4. ASSUME NEW k \in 1..t
      PROVE  /\ (k - 1) * limit \in Nat /\ k * limit = (k - 1) * limit + limit
             /\ (k - 1) * limit < n
  <2>1. k \in Int /\ k >= 1 /\ k <= t
    BY <1>2
  <2>2. (k - 1) * limit \in Nat /\ k * limit = (k - 1) * limit + limit
    BY ONLY <2>1, limit \in Nat \ {0}
  <2>3. k * limit <= t * limit
    BY ONLY <2>1, t \in Nat, limit \in Nat \ {0}
  <2> QED  BY <1>2, <1>3, <2>2, <2>3
<1>5. n <= t * limit
  BY <1>2, <1>3
<1> QED  BY <1>2, <1>3, <1>4, <1>5

\* There is nothing on the page after the last.
LEMMA PageBeyond ==
  ASSUME NEW T, NEW s \in Seq(T), NEW limit \in Nat \ {0}, NEW k \in Nat, Len(s) <= k * limit
  PROVE  Page(s, k + 1, limit) = << >>
<1>1. PICK page : page = k + 1
  OBVIOUS
<1> DEFINE n == (page - 1) * limit
           m == Min({Len(s), page * limit})
<1>2. Len(s) \in Nat /\ n \in Nat /\ page * limit \in Nat /\ Len(s) <= n
  <2>1. Len(s) \in Nat
    OBVIOUS
  <2>2. page - 1 = k /\ page \in Nat
    BY <1>1
  <2>3. n = k * limit
    BY <2>2
  <2>4. k * limit \in Nat /\ page * limit \in Nat
    BY ONLY <2>2, k \in Nat, limit \in Nat \ {0}
  <2> QED  BY <2>1, <2>3, <2>4
<1>3. m = IF Len(s) <= page * limit THEN Len(s) ELSE page * limit
  BY <1>2, MinOfTwo
<1>4. Page(s, page, limit) = SubSeq(s, n + 1, m)
  BY DEF Page
<1> HIDE DEF m, n
<1>5. m \in Int /\ m < n + 1
  BY ONLY <1>2, <1>3
<1>6. SubSeq(s, n + 1, m) = << >>
  BY <1>2, <1>5, SubSeqEmpty
<1> QED  BY <1>1, <1>4, <1>6

\* Requests on products leave the categories, and those on them, alone.
LEMMA ProductsKeepCategories ==
  ASSUME IInv, ProductInv, ProductsNext, UNCHANGED categoryVars
  PROVE  IInv'
<1> USE DEF categoryVars
<1> PICK h \in Handlers :
      \/ \E c \in CategoryIds :
           BeginCreateProduct(h, c) \/ \E ps \in SUBSET LiveProducts : BeginBulkReassign(h, ps, c)
      \/ \E p \in ProductIds :
           \/ \E hasVariants, on \in BOOLEAN : \E n \in Units : CreateProduct(h, p, hasVariants, on, n)
           \/ \E new \in ProductUpdates : BeginUpdateProduct(h, p, new)
           \/ BeginDeleteProduct(h, p) \/ BeginCreateVariant(h, p)
      \/ \E v \in VariantIds, on \in BOOLEAN :
           \/ \E n \in Units : CreateVariant(h, v, on, n)
           \/ \E deletes \in BOOLEAN : BeginWriteVariant(h, v, deletes, on)
      \/ UpdateProduct(h) \/ EnsureStock(h) \/ DeleteProduct(h) \/ BulkReassign(h)
      \/ WriteVariant(h) \/ AbandonProduct(h)
  BY DEF ProductsNext
<1> DEFINE Others == {"createProduct", "updateProduct", "ensureStock", "deleteProduct", "reassign",
                      "createVariant", "writeVariant"}
<1>1. \A r : r.op \in Others => RequestOK(r)
  BY DEF RequestOK
<1>2. ASSUME NEW r, Begin(h, r), r.op \in Others PROVE IInv'
  <2>1. RequestOK(r)
    BY <1>1, <1>2
  <2> QED  BY <1>2, <2>1, BeginKeeps
<1>3. ASSUME End(h), h \in InFlight PROVE IInv'
  BY <1>3, GoOnKeeps DEF End
<1>4. ASSUME NEW c \in CategoryIds, BeginCreateProduct(h, c) PROVE IInv'
  <2>1. Begin(h, [op |-> "createProduct", on |-> {}, category |-> c])
    BY <1>4 DEF BeginCreateProduct
  <2> QED  BY <1>2, <2>1
<1>5. ASSUME NEW c \in CategoryIds, NEW ps, BeginBulkReassign(h, ps, c) PROVE IInv'
  <2>1. Begin(h, [op |-> "reassign", on |-> ps, products |-> ps, category |-> c])
    BY <1>5 DEF BeginBulkReassign
  <2> QED  BY <1>2, <2>1
<1>6. ASSUME NEW p \in ProductIds, NEW new \in ProductUpdates, BeginUpdateProduct(h, p, new) PROVE IInv'
  <2>1. Begin(h, [[op |-> "updateProduct", on |-> {}, product |-> p, new |-> new] EXCEPT !.on = {p}])
    BY <1>6 DEF BeginUpdateProduct, OnProduct
  <2> QED  BY <1>2, <2>1
<1>7. ASSUME NEW p \in ProductIds, BeginDeleteProduct(h, p) PROVE IInv'
  <2>1. Begin(h, [[op |-> "deleteProduct", on |-> {}, product |-> p] EXCEPT !.on = {p}])
    BY <1>7 DEF BeginDeleteProduct, OnProduct
  <2> QED  BY <1>2, <2>1
<1>8. ASSUME NEW p \in ProductIds, BeginCreateVariant(h, p) PROVE IInv'
  <2>1. Begin(h, [op |-> "createVariant", on |-> {p}, product |-> p, flag |-> ~product[p].hasVariants])
    BY <1>8 DEF BeginCreateVariant
  <2> QED  BY <1>2, <2>1
<1>9. ASSUME NEW v \in VariantIds, NEW deletes \in BOOLEAN, NEW on \in BOOLEAN,
             BeginWriteVariant(h, v, deletes, on)
      PROVE  IInv'
  <2>1. Begin(h, [op |-> "writeVariant", on |-> {v}, variant |-> v, deletes |-> deletes, active |-> on])
    BY <1>9 DEF BeginWriteVariant
  <2> QED  BY <1>2, <2>1
<1>10. ASSUME UpdateProduct(h) PROVE IInv'
  <2> DEFINE q == request[h]
  <2>1. h \in InFlight /\ q.op = "updateProduct"
    BY <1>10 DEF UpdateProduct, Doing, InFlight
  <2>2. q = [op |-> "updateProduct", on |-> {q.product}, product |-> q.product, new |-> q.new]
    <3>1. ProductRequestOK(q)
      BY <2>1 DEF ProductInv
    <3> QED  BY <2>1, <3>1 DEF ProductRequestOK
  <2> DEFINE r == [q EXCEPT !.op = "ensureStock"]
  <2>3. GoOn(h, r) \/ End(h)
    BY <1>10 DEF UpdateProduct
  <2>4. r.op = "ensureStock" /\ r.on = q.on
    BY <2>2
  <2> HIDE DEF r
  <2>5. RequestOK(r) /\ r.on = request[h].on
    <3>1. RequestOK(r)
      BY <1>1, <2>4
    <3> QED  BY <2>4, <3>1
  <2> HIDE DEF q
  <2>6. CASE GoOn(h, r)
    BY <2>1, <2>5, <2>6, GoOnKeeps
  <2> QED  BY <1>3, <2>1, <2>3, <2>6
<1>11. CASE \/ \E p \in ProductIds : \E hasVariants, on \in BOOLEAN : \E n \in Units :
                 CreateProduct(h, p, hasVariants, on, n)
            \/ \E v \in VariantIds, on \in BOOLEAN : \E n \in Units : CreateVariant(h, v, on, n)
            \/ EnsureStock(h) \/ DeleteProduct(h) \/ BulkReassign(h) \/ WriteVariant(h)
            \/ AbandonProduct(h)
  <2>1. End(h) /\ h \in InFlight
    BY <1>11 DEF CreateProduct, CreateVariant, EnsureStock, DeleteProduct, BulkReassign, WriteVariant,
                 AbandonProduct, Abandon, Doing, InFlight
  <2> QED  BY <1>3, <2>1
<1> QED  BY <1>4, <1>5, <1>6, <1>7, <1>8, <1>9, <1>10, <1>11

\* What staff give as stock is a number.
StockTyped == stock \in [ProductIds \cup VariantIds -> Nat \cup {Null}]

LEMMA StockStaysTyped ==
  ASSUME StockTyped, ProductInv, ProductsNext
  PROVE  StockTyped'
<1> USE ProductAssumption DEF StockTyped
<1>1. ASSUME NEW h \in Handlers, NEW p \in ProductIds, NEW hasVariants, NEW on, NEW n \in Units,
             CreateProduct(h, p, hasVariants, on, n)
      PROVE  StockTyped'
  BY <1>1 DEF CreateProduct
<1>2. ASSUME NEW h \in Handlers, NEW v \in VariantIds, NEW on, NEW n \in Units,
             CreateVariant(h, v, on, n)
      PROVE  StockTyped'
  BY <1>2 DEF CreateVariant
<1>3. ASSUME NEW h \in Handlers, EnsureStock(h) PROVE StockTyped'
  BY <1>3 DEF EnsureStock
<1>4. ASSUME UNCHANGED stock PROVE StockTyped'
  BY <1>4
<1> QED
  BY <1>1, <1>2, <1>3, <1>4
  DEF ProductsNext, BeginCreateProduct, BeginBulkReassign, BeginUpdateProduct, BeginDeleteProduct,
      BeginCreateVariant, OnProduct, BeginWriteVariant, UpdateProduct, DeleteProduct, BulkReassign,
      WriteVariant, AbandonProduct, productVars

\* Everything the catalogue's requests write.
RowsInv == IInv /\ ProductInv /\ StockTyped

LEMMA RowsInvariant == ProductsSpec => []RowsInv
<1>1. CategoriesInit /\ ProductsInit /\ RequestsInit => RowsInv
  <2>1. CategoriesInit /\ RequestsInit => IInv
    BY CategoryAssumption
       DEF CategoriesInit, RequestsInit, IInv, ShapeOK, OneLevel, Rows, Existing, InFlight
  <2>2. ProductsInit /\ RequestsInit => ProductInv
    BY DEF ProductsInit, RequestsInit, ProductInv, InFlight, StockRows, LiveProducts
  <2>3. ProductsInit => StockTyped
    BY DEF ProductsInit, StockTyped
  <2> QED  BY <2>1, <2>2, <2>3 DEF RowsInv
<1>2. RowsInv /\ [CategoriesAndProductsNext]_<<requestVars, categoryVars, productVars>> => RowsInv'
  <2> SUFFICES ASSUME RowsInv, [CategoriesAndProductsNext]_<<requestVars, categoryVars, productVars>>
               PROVE  RowsInv'
    OBVIOUS
  <2>1. ProductInv'
    BY ProductStepsKeep DEF RowsInv
  <2>2. CASE UNCHANGED <<requestVars, categoryVars, productVars>>
    <3>1. IInv'
      BY <2>2, StepKeeps DEF RowsInv
    <3>2. StockTyped'
      BY <2>2 DEF RowsInv, StockTyped, productVars
    <3> QED  BY <2>1, <3>1, <3>2 DEF RowsInv
  <2>3. ASSUME NEW h \in Handlers, CategoryRequest(h), UNCHANGED productVars PROVE RowsInv'
    <3>1. IInv'
      BY <2>3, StepKeeps DEF RowsInv, CategoriesNext
    <3>2. StockTyped'
      BY <2>3 DEF RowsInv, StockTyped, productVars
    <3> QED  BY <2>1, <3>1, <3>2 DEF RowsInv
  <2>4. ASSUME ProductsNext, UNCHANGED categoryVars PROVE RowsInv'
    BY <2>1, <2>4, ProductsKeepCategories, StockStaysTyped DEF RowsInv
  <2> QED  BY <2>2, <2>3, <2>4 DEF CategoriesAndProductsNext
<1> QED  BY <1>1, <1>2, PTL DEF ProductsSpec

\* What is shown is computed from rows like these.
Catalogue ==
  /\ category \in [CategoryIds -> CategoryRow \cup {Null}]
  /\ product \in [ProductIds -> ProductRow \cup {Null}]
  /\ StockTyped
  /\ \A c \in Existing(category) :
       LET p == category[c].parent IN p # Null => category[p].parent = Null

LEMMA SumIs == ASSUME NEW f PROVE SumFunction(f) = SumFunctionOnSet(f, DOMAIN f)
BY DEF SumFunction, SumFunctionOnSet, FoldFunction

LEMMA ProductsFinite ==
  ASSUME NEW K
  PROVE  /\ IsFiniteSet(In(K)) /\ IsFiniteSet(Active(In(K))) /\ Cardinality(Active(In(K))) \in Nat
         /\ Cardinality(In(K)) \in Nat
<1>1. In(K) \in SUBSET ProductIds /\ Active(In(K)) \in SUBSET ProductIds
  BY DEF In, Active, LiveProducts
<1> QED  BY <1>1, FeedsAssumption, FS_Subset, FS_CardinalityType

\* Products counted by category are all the products of those categories.
LEMMA CountedByCategory ==
  ASSUME NEW K \in SUBSET CategoryIds, NEW S \in SUBSET In(K), NEW part, DOMAIN part = K,
         \A c \in K : part[c] = Cardinality({p \in S : product[p].category = c})
  PROVE  SumFunction(part) = Cardinality(S)
<1> DEFINE key == [p \in S |-> product[p].category]
<1>1. IsFiniteSet(K) /\ IsFiniteSet(S)
  <2>1. IsFiniteSet(In(K))
    BY ProductsFinite
  <2> QED  BY <2>1, FeedsAssumption, FS_Subset
<1>2. \A p \in S : key[p] \in K
  BY DEF In
<1>3. CountsOfGroups(part, S, key, K)
  <2>1. ASSUME NEW c \in K PROVE part[c] = Cardinality(Keyed(S, key, c))
    <3>1. {p \in S : product[p].category = c} = Keyed(S, key, c)
      BY DEF Keyed
    <3> QED  BY <3>1
  <2> QED  BY <2>1 DEF CountsOfGroups
<1> HIDE DEF key
<1>4. SumFunctionOnSet(part, K) = Cardinality(S)
  BY <1>1, <1>2, <1>3, CountOfParts
<1> QED  BY <1>4, SumIs

LEMMA SumDirectCounts ==
  ASSUME NEW K \in SUBSET CategoryIds
  PROVE  SumDirect(K) = Cardinality(Active(In(K))) /\ SumDirect(K) \in Nat
<1> DEFINE part == [c \in K |-> Direct(c)]
           S == Active(In(K))
<1>1. ASSUME NEW c \in K PROVE part[c] = Cardinality({p \in S : product[p].category = c})
  <2>1. Active(In({c})) = {p \in S : product[p].category = c}
    BY DEF In, Active
  <2> QED  BY <2>1 DEF Direct
<1>2. S \in SUBSET In(K) /\ DOMAIN part = K
  BY DEF Active
<1> HIDE DEF part, S
<1>3. SumFunction(part) = Cardinality(S)
  BY <1>1, <1>2, CountedByCategory
<1> QED  BY <1>3, ProductsFinite DEF part, S, SumDirect

\* A category and what is below it, counted together or one by one.
LEMMA OneMoreCounted ==
  ASSUME NEW r \in CategoryIds, NEW K \in SUBSET CategoryIds, r \notin K
  PROVE  SumDirect({r} \cup K) = Direct(r) + SumDirect(K)
<1> DEFINE S == Active(In({r} \cup K))
           T == Active(In(K))
           U == Active(In({r}))
<1>1. SumDirect({r} \cup K) = Cardinality(S) /\ SumDirect(K) = Cardinality(T) /\ Direct(r) = Cardinality(U)
  <2>1. {r} \cup K \in SUBSET CategoryIds
    OBVIOUS
  <2> QED  BY <2>1, SumDirectCounts DEF Direct
<1>2. S = U \cup T /\ U \cap T = {}
  BY DEF In, Active
<1>3. IsFiniteSet(U) /\ IsFiniteSet(T) /\ Cardinality(U) \in Nat /\ Cardinality(T) \in Nat
  BY ProductsFinite
<1> HIDE DEF S, T, U
<1>4. Cardinality(U \cup T) = Cardinality(U) + Cardinality(T) - Cardinality({})
  BY <1>2, <1>3, FS_Union
<1>5. Cardinality(U \cup T) = Cardinality(U) + Cardinality(T)
  BY <1>3, <1>4, FS_EmptySet
<1> QED  BY <1>1, <1>2, <1>5

LEMMA BrowseIs ==
  ASSUME NEW c \in CategoryIds
  PROVE  Browse(c) = Active(In({c} \cup ChildrenOf(category, c)))
<1>1. c # Null /\ Null # FALSE
  BY CategoryAssumption, FeedsAssumption
<1> QED  BY <1>1 DEF Browse, ListWhere, CategoryFilter, Keep

\* The tree of the public and the lists of its categories (listPublic,
\* resolveCategoryIdFilter).
LEMMA TreeAgrees == Catalogue => TreeCountsListed
<1> SUFFICES ASSUME Catalogue, NEW r \in ShownUnder(Null)
             PROVE  /\ ChildrenOf(category, r) \subseteq Shown(category)
                         => PublicTree[r].count = Cardinality(Browse(r))
                    /\ PublicTree[r] = PublicCategory(r)
                    /\ \A c \in DOMAIN PublicTree[r].children :
                         PublicTree[r].children[c].count = Cardinality(Browse(c))
  BY DEF TreeCountsListed, PublicTree
<1> DEFINE below == ShownUnder(r)
           kids == [c \in below |-> [count |-> Direct(c), isEmpty |-> Direct(c) = 0]]
           count == Direct(r) + SumDirect(below)
<1>1. PublicTree[r] = [children |-> kids, count |-> count, isEmpty |-> count = 0]
  BY DEF PublicTree
<1>2. r \in Existing(category) /\ category[r].parent = Null
  BY DEF ShownUnder, Shown
<1>3. r \in CategoryIds /\ below \in SUBSET CategoryIds /\ r \notin below
  BY <1>2, CategoryAssumption DEF ShownUnder, Shown, Existing
<1>4. SumDirect({r} \cup below) = count
  BY <1>3, OneMoreCounted
<1>5. PublicTree[r] = PublicCategory(r)
  BY <1>1, <1>4 DEF PublicCategory
<1>6. ASSUME ChildrenOf(category, r) \subseteq Shown(category)
      PROVE  PublicTree[r].count = Cardinality(Browse(r))
  <2>1. ChildrenOf(category, r) = below
    BY <1>6 DEF ChildrenOf, ShownUnder, Shown
  <2>2. {r} \cup below \in SUBSET CategoryIds
    BY <1>3
  <2>3. SumDirect({r} \cup below) = Cardinality(Active(In({r} \cup below)))
    BY <2>2, SumDirectCounts
  <2>4. Browse(r) = Active(In({r} \cup below))
    BY <1>3, <2>1, BrowseIs
  <2> QED  BY <1>1, <1>4, <2>3, <2>4
<1>7. ASSUME NEW c \in below PROVE PublicTree[r].children[c].count = Cardinality(Browse(c))
  <2>1. c \in CategoryIds /\ category[c].parent = r /\ c \in Existing(category)
    BY DEF ShownUnder, Shown, Existing
  <2>2. ChildrenOf(category, c) = {}
    <3> SUFFICES ASSUME NEW x \in Existing(category), category[x].parent = c PROVE FALSE
      BY DEF ChildrenOf
    <3>1. c # Null /\ r # Null
      BY <1>3, <2>1, CategoryAssumption
    <3>2. category[c].parent = Null
      BY <3>1 DEF Catalogue
    <3> QED  BY <2>1, <3>1, <3>2
  <2>3. {c} \cup ChildrenOf(category, c) = {c}
    BY <2>2
  <2>4. Browse(c) = Active(In({c}))
    BY <2>1, <2>3, BrowseIs
  <2> QED  BY <1>1, <2>4 DEF Direct
<1>8. DOMAIN PublicTree[r].children = below
  BY <1>1
<1> HIDE DEF below, kids, count
<1> QED  BY <1>5, <1>6, <1>7, <1>8

\* The figures of one category, in the list of all and by itself (adminList,
\* adminFindById).
LEMMA FiguresOfOne == Catalogue => FiguresAgree
<1> SUFFICES ASSUME Catalogue, NEW c \in Existing(category) PROVE AdminRow(c) = AdminDetail(c)
  BY DEF FiguresAgree
<1> DEFINE kids == ChildrenOf(category, c)
           active(x) == Active(In({x}))
           both(x) == Direct(x) + Cardinality(In({x}) \ active(x))
           part == [x \in kids |-> both(x)]
<1>1. kids \in SUBSET CategoryIds
  BY DEF ChildrenOf, Existing
<1>2. active(c) = {p \in In({c}) : product[p].active}
      /\ In({c}) \ active(c) = {p \in In({c}) : ~product[p].active}
  BY DEF Active
<1>3. ASSUME NEW x \in kids PROVE part[x] = Cardinality({p \in In(kids) : product[p].category = x})
  <2> DEFINE S == In({x})
             T == Active(S)
  <2>1. IsFiniteSet(S) /\ Cardinality(S) \in Nat /\ Cardinality(T) \in Nat /\ S \cap T = T
    BY ProductsFinite DEF Active
  <2>2. Cardinality(S \ T) = Cardinality(S) - Cardinality(T)
    <3> HIDE DEF S, T
    <3>1. Cardinality(S \ T) = Cardinality(S) - Cardinality(S \cap T)
      BY <2>1, FS_Difference
    <3> QED  BY <2>1, <3>1
  <2>3. part[x] = Cardinality(T) + Cardinality(S \ T)
    BY DEF Direct
  <2>4. S = {p \in In(kids) : product[p].category = x}
    BY DEF In
  <2> HIDE DEF S, T, part
  <2>5. part[x] = Cardinality(S)
    BY <2>1, <2>2, <2>3
  <2> QED  BY <2>4, <2>5
<1>4. SumFunction(part) = Cardinality(In(kids))
  <2>1. In(kids) \in SUBSET In(kids) /\ DOMAIN part = kids
    OBVIOUS
  <2> HIDE DEF part, kids
  <2> QED  BY <1>1, <1>3, <2>1, CountedByCategory
<1>5. AdminRow(c) = Figures(Cardinality(active(c)), Cardinality(In({c}) \ active(c)),
                            Cardinality({p \in In({c}) : OutOfStock(p)}), Cardinality(kids),
                            SumFunction(part))
  BY DEF AdminRow, Direct
<1>6. AdminDetail(c) = Figures(Cardinality({p \in In({c}) : product[p].active}),
                               Cardinality({p \in In({c}) : ~product[p].active}),
                               Cardinality({p \in In({c}) : OutOfStock(p)}), Cardinality(kids),
                               Cardinality(In(kids)))
  BY DEF AdminDetail
<1> HIDE DEF part, kids, active
<1> QED  BY <1>2, <1>4, <1>5, <1>6

\* What the three queries say of a product's stock (products.service.ts).
LEMMA StockAgrees == Catalogue => StockListsAgree
<1> SUFFICES ASSUME Catalogue, NEW p \in LiveProducts
             PROVE  /\ OutOfStock(p) => ~InStock(p)
                    /\ LowStock(p) => InStock(p)
                    /\ InStock(p) /\ (product[p].hasVariants => stock[p] = Null)
                         => AvailableQuantity(p) > 0
  BY DEF StockListsAgree
<1>1. p \in ProductIds /\ product[p].hasVariants \in BOOLEAN
  BY DEF LiveProducts, Catalogue, ProductRow
<1>2. \A i \in ProductIds \cup VariantIds : stock[i] # Null => stock[i] \in Nat
  BY DEF Catalogue, StockTyped
<1>3. OutOfStock(p) => ~InStock(p)
  <2>1. stock[p] # Null => ~(stock[p] <= 0 /\ stock[p] > 0)
    BY <1>1, <1>2
  <2> QED  BY <1>1, <2>1 DEF OutOfStock, InStock
<1>4. LowStock(p) => InStock(p)
  BY <1>1 DEF LowStock, InStock
<1>5. ASSUME InStock(p), product[p].hasVariants => stock[p] = Null PROVE AvailableQuantity(p) > 0
  <2>1. CASE stock[p] # Null
    BY <1>5, <2>1 DEF InStock, AvailableQuantity
  <2>2. CASE stock[p] = Null
    <3> DEFINE units == [v \in VariantsOf(p) |-> IF stock[v] = Null THEN 0 ELSE stock[v]]
               S == VariantsOf(p)
    <3>1. PICK v \in S : stock[v] # Null /\ stock[v] > 0
      BY <1>5, <2>2 DEF InStock
    <3>2. S \in SUBSET VariantIds
      BY DEF VariantsOf, LiveVariants
    <3>3. \A x \in S : units[x] \in Nat
      BY <1>2, <3>2
    <3>4. units[v] > 0 /\ DOMAIN units = S
      BY <3>1
    <3>5. IsFiniteSet(S) /\ IsFiniteSet(S \ {v})
      BY <3>2, FeedsAssumption, FS_Subset
    <3> HIDE DEF units, S
    <3>6. SumFunctionOnSet(units, S) = units[v] + SumFunctionOnSet(units, S \ {v})
      BY <3>3, <3>5, SumTakeOut
    <3>7. SumFunctionOnSet(units, S \ {v}) \in Nat
      BY <3>3, <3>5, SumNat
    <3>8. SumFunctionOnSet(units, S) > 0
      BY <3>3, <3>4, <3>6, <3>7
    <3>9. SumFunction(units) > 0
      BY <3>4, <3>8, SumIs
    <3> QED  BY <2>2, <3>9 DEF AvailableQuantity, units
  <2> QED  BY <2>1, <2>2
<1> QED  BY <1>3, <1>4, <1>5

\* A set put in some order has all its elements in it.
LEMMA OrderHasAll ==
  ASSUME NEW S, IsFiniteSet(S), NEW s \in SetToSeqs(S)
  PROVE  /\ Len(s) = Cardinality(S) /\ DOMAIN s = 1..Len(s)
         /\ \A i \in 1..Len(s) : s[i] \in S
         /\ \A x \in S : \E i \in 1..Len(s) : s[i] = x
         /\ \A i, j \in 1..Len(s) : i # j => s[i] # s[j]
         /\ s \in Seq(S)
<1>1. Cardinality(S) \in Nat
  BY FS_CardinalityType
<1>2. s \in [1..Cardinality(S) -> S] /\ \A i, j \in 1..Cardinality(S) : i # j => s[i] # s[j]
  BY DEF SetToSeqs
<1>3. s \in Injection(1..Cardinality(S), S)
  BY <1>2 DEF Injection, IsInjective
<1>4. Cardinality(1..Cardinality(S)) = Cardinality(S)
  BY <1>1, FS_Interval
<1>5. s \in Surjection(1..Cardinality(S), S)
  BY <1>3, <1>4, FS_Injection
<1>6. Len(s) = Cardinality(S)
  BY <1>1, <1>2
<1> QED  BY <1>2, <1>5, <1>6 DEF Surjection

\* Two orders of the same products differ in ties alone.
LEMMA NoneLower ==
  ASSUME NEW S, IsFiniteSet(S), NEW rank, \A x \in S : rank[x] \in Int,
         NEW s \in Sorted(S, rank), NEW t \in Sorted(S, rank), NEW i \in 1..Cardinality(S)
  PROVE  rank[s[i]] >= rank[t[i]]
<1>1. /\ Len(s) = Cardinality(S) /\ DOMAIN s = 1..Len(s) /\ \A k \in 1..Len(s) : s[k] \in S
      /\ \A k, l \in 1..Len(s) : k # l => s[k] # s[l]
  BY OrderHasAll DEF Sorted
<1>2. /\ Len(t) = Cardinality(S) /\ DOMAIN t = 1..Len(t) /\ \A k \in 1..Len(t) : t[k] \in S
      /\ \A x \in S : \E k \in 1..Len(t) : t[k] = x
  BY OrderHasAll DEF Sorted
<1>3. Cardinality(S) \in Nat /\ i \in Nat /\ i >= 1 /\ i <= Cardinality(S)
  BY FS_CardinalityType
<1>4. SUFFICES ASSUME ~(rank[s[i]] >= rank[t[i]]) PROVE FALSE
  OBVIOUS
<1> DEFINE at == [k \in 1..i |-> CHOOSE l \in 1..Len(t) : t[l] = s[k]]
<1>5. ASSUME NEW k \in 1..i PROVE at[k] \in 1..(i - 1) /\ t[at[k]] = s[k]
  <2>1. k \in 1..Len(s) /\ s[k] \in S /\ i \in 1..Len(s) /\ i \in 1..Len(t) /\ k <= i
    BY <1>1, <1>2, <1>3
  <2>2. PICK l : l = at[k]
    OBVIOUS
  <2>3. l \in 1..Len(t) /\ t[l] = s[k]
    BY <1>2, <2>1, <2>2
  <2>4. rank[s[k]] <= rank[s[i]]
    <3>1. k < i => rank[s[k]] <= rank[s[i]]
      BY <1>1, <2>1 DEF Sorted
    <3>2. rank[s[i]] \in Int
      BY <1>1, <2>1
    <3> QED  BY <2>1, <3>1, <3>2
  <2>5. ~(l >= i)
    <3>1. i < l => rank[t[i]] <= rank[t[l]]
      BY <1>2, <2>1, <2>3 DEF Sorted
    <3>2. rank[s[i]] \in Int /\ rank[t[i]] \in Int /\ rank[s[k]] \in Int
      BY <1>1, <1>2, <2>1
    <3> QED  BY <1>3, <1>4, <2>3, <2>4, <3>1, <3>2
  <2> QED  BY <1>2, <1>3, <2>2, <2>3, <2>5
<1>6. at \in [1..i -> 1..(i - 1)]
  BY <1>5
<1> HIDE DEF at
<1>7. /\ IsFiniteSet(1..i) /\ Cardinality(1..i) = i
      /\ IsFiniteSet(1..(i - 1)) /\ Cardinality(1..(i - 1)) = i - 1
  <2>1. IsFiniteSet(1..i) /\ Cardinality(1..i) = i
    BY <1>3, FS_Interval
  <2>2. PICK j : j = i - 1
    OBVIOUS
  <2>3. j \in Nat
    BY <1>3, <2>2
  <2>4. IsFiniteSet(1..j) /\ Cardinality(1..j) = j
    <3>1. IsFiniteSet(1..j) /\ Cardinality(1..j) = IF 1 > j THEN 0 ELSE j - 1 + 1
      BY <2>3, FS_Interval
    <3> QED  BY <2>3, <3>1
  <2> QED  BY <2>1, <2>2, <2>4
<1>8. Cardinality(1..(i - 1)) < Cardinality(1..i)
  BY <1>3, <1>7
<1>9. PICK k \in 1..i, l \in 1..i : k # l /\ at[k] = at[l]
  BY <1>6, <1>7, <1>8, FS_PigeonHole
<1>10. s[k] = s[l] /\ k \in 1..Len(s) /\ l \in 1..Len(s)
  BY <1>1, <1>3, <1>5, <1>9
<1> QED  BY <1>1, <1>9, <1>10

LEMMA SortedAlike ==
  ASSUME NEW S, IsFiniteSet(S), NEW rank, \A x \in S : rank[x] \in Int,
         NEW s \in Sorted(S, rank), NEW t \in Sorted(S, rank), NEW i \in 1..Cardinality(S)
  PROVE  rank[s[i]] = rank[t[i]]
<1>1. rank[s[i]] >= rank[t[i]] /\ rank[t[i]] >= rank[s[i]]
  BY NoneLower
<1>2. s[i] \in S /\ t[i] \in S
  BY OrderHasAll DEF Sorted
<1> QED  BY <1>1, <1>2

\* The places of a list that its nth page shows.
Places(n, limit, total) == {k \in 1..total : (n - 1) * limit < k /\ k <= n * limit}

\* Every place is on one page, every page has one, and later pages have later ones.
LEMMA PlacesParted ==
  ASSUME NEW total \in Nat, NEW limit \in Nat \ {0}, NEW t, t = TotalPages(total, limit)
  PROVE  /\ t \in Nat
         /\ \A k \in 1..total : \E n \in 1..t : k \in Places(n, limit, total)
         /\ \A n \in 1..t : Places(n, limit, total) # {}
         /\ \A m, n \in 1..t : m < n =>
              \A k \in Places(m, limit, total), l \in Places(n, limit, total) : k < l
<1>1. /\ t \in Nat /\ total <= t * limit
      /\ \A k \in 1..t : /\ (k - 1) * limit \in Nat /\ k * limit = (k - 1) * limit + limit
                         /\ (k - 1) * limit < total
  BY PagesCounted DEF TotalPages
<1>2. ASSUME NEW k \in 1..total PROVE \E n \in 1..t : k \in Places(n, limit, total)
  <2> DEFINE q == (k - 1) \div limit
  <2>1. k - 1 \in Nat /\ k \in Nat
    OBVIOUS
  <2>2. q \in Nat /\ q * limit <= k - 1 /\ k - 1 < (q + 1) * limit
    BY <2>1, Rounded
  <2> HIDE DEF q
  <2>3. q < t
    <3> SUFFICES ASSUME ~(q < t) PROVE FALSE
      OBVIOUS
    <3>1. t * limit <= q * limit
      BY ONLY <1>1, <2>2, limit \in Nat \ {0}, ~(q < t)
    <3>2. t * limit \in Int /\ q * limit \in Int
      BY ONLY <1>1, <2>2, limit \in Nat \ {0}
    <3> QED  BY ONLY <1>1, <2>1, <2>2, <3>1, <3>2, k \in 1..total, total \in Nat
  <2>4. PICK n : n = q + 1
    OBVIOUS
  <2>5. n \in 1..t /\ n - 1 = q
    BY <1>1, <2>2, <2>3, <2>4
  <2>6. (n - 1) * limit < k /\ k <= n * limit
    <3>1. (n - 1) * limit = q * limit /\ n * limit = (q + 1) * limit
      BY <2>4, <2>5
    <3>2. q * limit \in Int /\ (q + 1) * limit \in Int
      BY ONLY <2>2, limit \in Nat \ {0}
    <3>3. PICK a, b : a = q * limit /\ b = (q + 1) * limit
      OBVIOUS
    <3>4. a < k /\ k <= b
      BY ONLY <2>1, <2>2, <3>2, <3>3
    <3> QED  BY <3>1, <3>3, <3>4
  <2> QED  BY <2>5, <2>6 DEF Places
<1>3. ASSUME NEW n \in 1..t PROVE Places(n, limit, total) # {}
  <2>1. PICK a : a = (n - 1) * limit
    OBVIOUS
  <2>2. a \in Nat /\ n * limit = a + limit /\ a < total
    BY <1>1, <2>1
  <2>3. a + 1 \in 1..total /\ a < a + 1 /\ a + 1 <= a + limit
    BY ONLY <2>2, total \in Nat, limit \in Nat \ {0}
  <2>4. a + 1 \in Places(n, limit, total)
    BY <2>1, <2>2, <2>3 DEF Places
  <2> QED  BY <2>4
<1>4. ASSUME NEW m \in 1..t, NEW n \in 1..t, m < n,
             NEW k \in Places(m, limit, total), NEW l \in Places(n, limit, total)
      PROVE  k < l
  <2>1. m * limit <= (n - 1) * limit
    <3>1. m \in Nat /\ n \in Nat /\ n - 1 \in Nat /\ m <= n - 1
      BY <1>1, <1>4
    <3>2. PICK p : p = n - 1
      OBVIOUS
    <3>3. p \in Nat /\ m <= p
      BY <3>1, <3>2
    <3>4. m * limit <= p * limit
      BY ONLY <3>1, <3>3, limit \in Nat \ {0}
    <3> QED  BY <3>2, <3>4
  <2>2. PICK a, b : a = m * limit /\ b = (n - 1) * limit
    OBVIOUS
  <2>3. k \in Int /\ l \in Int /\ k <= a /\ b < l /\ a <= b
    BY <2>1, <2>2 DEF Places
  <2>4. a \in Int /\ b \in Int
    BY <1>1, <2>2
  <2> QED  BY ONLY <2>3, <2>4
<1> QED  BY <1>1, <1>2, <1>3, <1>4

\* What a page shows is what is in its places.
LEMMA PageShows ==
  ASSUME NEW T, NEW s \in Seq(T), NEW total, total = Len(s), NEW limit \in Nat \ {0},
         NEW n \in 1..TotalPages(total, limit)
  PROVE  ToSet(Page(s, n, limit)) = {s[k] : k \in Places(n, limit, total)}
<1>1. total \in Nat
  OBVIOUS
<1>2. PICK t : t = TotalPages(total, limit)
  OBVIOUS
<1>3. /\ t \in Nat
      /\ \A k \in 1..t : /\ (k - 1) * limit \in Nat /\ k * limit = (k - 1) * limit + limit
                         /\ (k - 1) * limit < total
  BY <1>1, <1>2, PagesCounted DEF TotalPages
<1>4. PICK a, b : a = (n - 1) * limit /\ b = n * limit
  OBVIOUS
<1>5. n \in 1..t /\ a \in Nat /\ b = a + limit /\ a < total /\ b \in Int
  BY <1>2, <1>3, <1>4
<1>6. PICK m : m = IF total <= b THEN total ELSE b
  OBVIOUS
<1>7. m \in 0..total /\ a < m
  BY <1>1, <1>5, <1>6
<1>8. Page(s, n, limit) = SubSeq(s, a + 1, m)
  <2>1. Page(s, n, limit) = SubSeq(s, a + 1, Min({total, b}))
    BY <1>4 DEF Page
  <2>2. Min({total, b}) = m
    BY <1>1, <1>5, <1>6, MinOfTwo
  <2> QED  BY <2>1, <2>2
<1>9. Places(n, limit, total) = (a + 1)..m
  <2>1. Places(n, limit, total) = {k \in 1..total : a < k /\ k <= b}
    BY <1>4 DEF Places
  <2>2. ASSUME NEW k PROVE k \in {k0 \in 1..total : a < k0 /\ k0 <= b} <=> k \in (a + 1)..m
    BY <1>1, <1>5, <1>6, <1>7
  <2> QED  BY <2>1, <2>2
<1>10. /\ Len(SubSeq(s, a + 1, m)) = m - a
       /\ \A i \in 1..(m - a) : SubSeq(s, a + 1, m)[i] = s[a + i]
       /\ SubSeq(s, a + 1, m) \in Seq(T)
  <2>1. a \in Nat /\ m \in Nat /\ a <= m /\ m <= Len(s) /\ Len(s) \in Nat
    BY <1>1, <1>5, <1>7
  <2> QED  BY <2>1, SubSeqProperties
<1>11. ToSet(Page(s, n, limit)) = {s[a + i] : i \in 1..(m - a)}
  <2>1. DOMAIN SubSeq(s, a + 1, m) = 1..(m - a)
    BY <1>10
  <2>2. ToSet(SubSeq(s, a + 1, m)) = {SubSeq(s, a + 1, m)[i] : i \in 1..(m - a)}
    BY <2>1 DEF ToSet
  <2> QED  BY <1>8, <1>10, <2>2
<1>12. \A k \in (a + 1)..m : k - a \in 1..(m - a) /\ a + (k - a) = k
  BY <1>5, <1>7
<1>13. \A i \in 1..(m - a) : a + i \in (a + 1)..m
  BY <1>5, <1>7
<1>14. {s[a + i] : i \in 1..(m - a)} = {s[k] : k \in (a + 1)..m}
  BY <1>12, <1>13
<1> QED  BY <1>9, <1>11, <1>14

\* The pages of a list (paginatePublicProducts, adminList).
LEMMA PagesOrdered == PagesInOrder
<1> DEFINE found == Browse(Null)
           total == Cardinality(found)
<1>1. IsFiniteSet(found)
  <2>1. found = Active(LiveProducts)
    BY DEF Browse, ListWhere, Keep
  <2>2. found \in SUBSET ProductIds
    BY <2>1 DEF Active, LiveProducts
  <2> QED  BY <2>2, FeedsAssumption, FS_Subset
<1>2. total \in Nat
  BY <1>1, FS_CardinalityType
<1> SUFFICES ASSUME NEW rank \in [found -> 1..total], NEW limit \in 1..(total + 1)
             PROVE  LET pages == 1..TotalPages(total, limit) IN
    /\ \A s \in Sorted(found, rank) : Page(s, TotalPages(total, limit) + 1, limit) = << >>
    /\ \A query \in [pages -> Sorted(found, rank)] :
         LET shown(n) == ToSet(Page(query[n], n, limit))
             on(x) == {n \in pages : x \in shown(n)}
             ties(x) == {y \in found \ {x} : rank[y] = rank[x]} IN
         /\ \A n \in pages : shown(n) # {}
         /\ \A m, n \in pages : m < n => \A x \in shown(m), y \in shown(n) : rank[x] <= rank[y]
         /\ \A x \in found :
              /\ ties(x) = {} => Cardinality(on(x)) = 1
              /\ on(x) = {} => \E y \in ties(x) : \E m, n \in on(y) : m # n
  BY DEF PagesInOrder
<1> HIDE DEF found, total
<1> DEFINE last == TotalPages(total, limit)
           pages == 1..last
<1>3. limit \in Nat \ {0}
  BY <1>2
<1>4. /\ last \in Nat
      /\ \A k \in 1..total : \E n \in pages : k \in Places(n, limit, total)
      /\ \A n \in pages : Places(n, limit, total) # {}
      /\ \A m, n \in pages : m < n =>
           \A k \in Places(m, limit, total), l \in Places(n, limit, total) : k < l
  BY <1>2, <1>3, PlacesParted
<1>5. ASSUME NEW s \in Sorted(found, rank)
      PROVE  /\ s \in Seq(found) /\ Len(s) = total
             /\ \A k \in 1..total : s[k] \in found
             /\ \A x \in found : \E k \in 1..total : s[k] = x
             /\ \A k, l \in 1..total : k # l => s[k] # s[l]
             /\ \A k, l \in 1..total : k < l => rank[s[k]] <= rank[s[l]]
  <2>1. s \in SetToSeqs(found) /\ \A k, l \in DOMAIN s : k < l => rank[s[k]] <= rank[s[l]]
    BY DEF Sorted
  <2>2. /\ Len(s) = Cardinality(found) /\ DOMAIN s = 1..Len(s) /\ s \in Seq(found)
        /\ \A k \in 1..Len(s) : s[k] \in found
        /\ \A x \in found : \E k \in 1..Len(s) : s[k] = x
        /\ \A k, l \in 1..Len(s) : k # l => s[k] # s[l]
    BY <1>1, <2>1, OrderHasAll
  <2>3. Len(s) = total
    BY <2>2 DEF total
  <2> QED  BY <2>1, <2>2, <2>3
<1>6. ASSUME NEW s \in Sorted(found, rank) PROVE Page(s, last + 1, limit) = << >>
  <2>1. s \in Seq(found) /\ Len(s) = total
    BY <1>5
  <2>2. total <= last * limit
    BY <1>2, <1>3, PagesCounted DEF TotalPages
  <2> HIDE DEF last
  <2> QED  BY <1>3, <1>4, <2>1, <2>2, PageBeyond
<1>7. ASSUME NEW query \in [pages -> Sorted(found, rank)]
      PROVE  LET shown(n) == ToSet(Page(query[n], n, limit))
                 on(x) == {n \in pages : x \in shown(n)}
                 ties(x) == {y \in found \ {x} : rank[y] = rank[x]} IN
             /\ \A n \in pages : shown(n) # {}
             /\ \A m, n \in pages : m < n => \A x \in shown(m), y \in shown(n) : rank[x] <= rank[y]
             /\ \A x \in found :
                  /\ ties(x) = {} => Cardinality(on(x)) = 1
                  /\ on(x) = {} => \E y \in ties(x) : \E m, n \in on(y) : m # n
  <2> DEFINE shown(n) == ToSet(Page(query[n], n, limit))
             on(x) == {n \in pages : x \in shown(n)}
             ties(x) == {y \in found \ {x} : rank[y] = rank[x]}
             at(n) == Places(n, limit, total)
  <2>1. \A n \in pages : query[n] \in Sorted(found, rank)
    OBVIOUS
  <2>2. ASSUME NEW n \in pages PROVE shown(n) = {query[n][k] : k \in at(n)}
    <3>1. PICK s : s = query[n]
      OBVIOUS
    <3>2. s \in Seq(found) /\ total = Len(s)
      BY <1>5, <2>1, <3>1
    <3>3. n \in 1..TotalPages(total, limit)
      OBVIOUS
    <3>4. ToSet(Page(s, n, limit)) = {s[k] : k \in Places(n, limit, total)}
      BY <1>3, <3>2, <3>3, PageShows
    <3> QED  BY <3>1, <3>4
  <2>3. \A n : at(n) \in SUBSET (1..total)
    BY DEF Places
  <2>4. \A x \in found : rank[x] \in Int
    BY <1>2
  <2>5. ASSUME NEW m \in pages, NEW n \in pages, NEW k \in 1..total
        PROVE  rank[query[m][k]] = rank[query[n][k]]
    <3>1. PICK s, t : s = query[m] /\ t = query[n]
      OBVIOUS
    <3>2. s \in Sorted(found, rank) /\ t \in Sorted(found, rank)
      BY <2>1, <3>1
    <3>3. k \in 1..Cardinality(found)
      BY DEF total
    <3>4. rank[s[k]] = rank[t[k]]
      BY <1>1, <2>4, <3>2, <3>3, SortedAlike
    <3> QED  BY <3>1, <3>4
  <2> HIDE DEF shown, at, last
  <2>6. \A n \in pages : shown(n) # {}
    <3> TAKE n \in pages
    <3>1. PICK k : k \in at(n)
      BY <1>4 DEF at
    <3>2. shown(n) = {query[n][l] : l \in at(n)}
      BY <2>2
    <3>3. query[n][k] \in shown(n)
      BY <3>1, <3>2
    <3> QED  BY <3>3
  <2>7. ASSUME NEW m \in pages, NEW n \in pages, m < n, NEW x \in shown(m), NEW y \in shown(n)
        PROVE  rank[x] <= rank[y]
    <3>1. PICK k \in at(m) : x = query[m][k]
      BY <2>2
    <3>2. PICK l \in at(n) : y = query[n][l]
      BY <2>2
    <3>3. k < l /\ k \in 1..total /\ l \in 1..total
      BY <1>4, <2>3, <2>7 DEF at
    <3>4. rank[query[n][k]] <= rank[query[n][l]]
      BY <1>5, <2>1, <3>3
    <3> QED  BY <2>5, <3>1, <3>2, <3>3, <3>4
  \* Where a product stands, or what it ties with, on the page that shows the place.
  <2>8. ASSUME NEW x \in found
        PROVE  \E k \in 1..total, n \in pages : k \in at(n) /\ query[n][k] \in found
                                                /\ rank[query[n][k]] = rank[x]
    <3>1. last # 0
      <4>1. total # 0
        BY <1>1, FS_EmptySet DEF total
      <4>2. 1 \in 1..total
        BY <1>2, <4>1
      <4>3. PICK n : n \in 1..last
        BY <1>4, <4>2
      <4> QED  BY <1>4, <4>3
    <3>2. 1 \in pages
      BY <1>4, <3>1
    <3>3. PICK k \in 1..total : query[1][k] = x
      BY <1>5, <2>1, <3>2
    <3>4. PICK n \in pages : k \in at(n)
      BY <1>4 DEF at
    <3>5. query[n][k] \in found
      BY <1>5, <2>1
    <3>6. rank[query[n][k]] = rank[x]
      BY <2>5, <3>2, <3>3
    <3> QED  BY <3>4, <3>5, <3>6
  <2>9. ASSUME NEW x \in found, ties(x) = {} PROVE Cardinality(on(x)) = 1
    <3>1. PICK k \in 1..total, n \in pages : k \in at(n) /\ query[n][k] \in found
                                             /\ rank[query[n][k]] = rank[x]
      BY <2>8
    <3>2. \A y \in found : rank[y] = rank[x] => y = x
      BY <2>9
    <3>3. n \in on(x)
      BY <2>2, <3>1, <3>2
    <3>4. ASSUME NEW m \in on(x) PROVE m = n
      <4>1. m \in pages /\ x \in shown(m)
        OBVIOUS
      <4>2. PICK l \in at(m) : x = query[m][l]
        BY <2>2, <4>1
      <4>3. l \in 1..total
        BY <2>3
      <4>4. rank[query[m][k]] = rank[x] /\ query[m][k] \in found
        BY <1>5, <2>1, <2>5, <3>1, <4>1
      <4>5. query[m][k] = query[m][l]
        BY <3>2, <4>2, <4>4
      <4>6. k = l
        BY <1>5, <2>1, <4>1, <4>3, <4>5
      <4>7. ~(m < n) /\ ~(n < m)
        BY <1>4, <3>1, <4>1, <4>2, <4>3, <4>6 DEF at
      <4> QED  BY <1>4, <4>1, <4>7
    <3>5. on(x) = {n}
      BY <3>3, <3>4
    <3> QED  BY <3>5, FS_Singleton
  <2>10. ASSUME NEW x \in found, on(x) = {}
         PROVE  \E y \in ties(x) : \E m, n \in on(y) : m # n
    <3> DEFINE C == {y \in found : rank[y] = rank[x]}
               f == [y \in C |-> CHOOSE k \in 1..total : query[1][k] = y]
               page(k) == CHOOSE n \in pages : k \in at(n)
               g == [y \in C |-> query[page(f[y])][f[y]]]
    <3>1. 1 \in pages
      <4>1. PICK n \in pages : TRUE
        BY <2>8
      <4> QED  BY <1>4, <4>1
    <3>2. ASSUME NEW y \in C PROVE f[y] \in 1..total /\ query[1][f[y]] = y
      <4>1. \E k \in 1..total : query[1][k] = y
        BY <1>5, <2>1, <3>1
      <4> QED  BY <4>1
    <3> HIDE DEF f
    <3>3. ASSUME NEW k \in 1..total PROVE page(k) \in pages /\ k \in at(page(k))
      BY <1>4 DEF at
    <3> HIDE DEF page
    <3>4. ASSUME NEW y \in C
          PROVE  /\ g[y] \in C \ {x} /\ page(f[y]) \in on(g[y])
                 /\ g[y] = query[page(f[y])][f[y]]
      <4>1. PICK k, n : k = f[y] /\ n = page(k)
        OBVIOUS
      <4>2. k \in 1..total /\ n \in pages /\ k \in at(n) /\ query[1][k] = y
        BY <3>2, <3>3, <4>1
      <4>3. query[n][k] \in found /\ rank[query[n][k]] = rank[y] /\ rank[y] = rank[x]
        BY <1>5, <2>1, <2>5, <3>1, <4>2
      <4>4. query[n][k] \in shown(n)
        BY <2>2, <4>2
      <4>5. query[n][k] # x
        BY <2>10, <4>2, <4>4
      <4>6. g[y] = query[n][k]
        BY <4>1
      <4> QED  BY <4>1, <4>2, <4>3, <4>4, <4>5, <4>6
    <3> HIDE DEF g
    <3>5. g \in [C -> C \ {x}]
      <4>1. g = [y \in C |-> g[y]]
        BY DEF g
      <4> QED  BY <3>4, <4>1
    <3>6. IsFiniteSet(C) /\ x \in C
      <4>1. C \in SUBSET found
        OBVIOUS
      <4> QED  BY <1>1, <4>1, FS_Subset
    <3> HIDE DEF C
    <3>7. IsFiniteSet(C \ {x}) /\ Cardinality(C \ {x}) < Cardinality(C)
      <4>1. IsFiniteSet(C \ {x}) /\ Cardinality(C \ {x}) = Cardinality(C) - 1
        BY <3>6, FS_RemoveElement
      <4>2. Cardinality(C) \in Nat
        BY <3>6, FS_CardinalityType
      <4> QED  BY <4>1, <4>2
    <3>8. PICK y \in C, z \in C : y # z /\ g[y] = g[z]
      BY <3>5, <3>6, <3>7, FS_PigeonHole
    <3>9. PICK m, n, w : m = page(f[y]) /\ n = page(f[z]) /\ w = g[y]
      OBVIOUS
    <3>10. m \in on(w) /\ n \in on(w) /\ w \in C \ {x}
      BY <3>4, <3>8, <3>9
    <3>11. m # n
      <4> SUFFICES ASSUME m = n PROVE FALSE
        OBVIOUS
      <4>1. m \in pages
        BY <3>10
      <4>2. f[y] \in 1..total /\ f[z] \in 1..total /\ f[y] # f[z]
        BY <3>2, <3>8
      <4>3. query[m][f[y]] = query[m][f[z]]
        BY <3>4, <3>8, <3>9
      <4>4. PICK k, l : k = f[y] /\ l = f[z]
        OBVIOUS
      <4>5. k \in 1..total /\ l \in 1..total /\ k # l /\ query[m][k] = query[m][l]
        BY <4>2, <4>3, <4>4
      <4> QED  BY <1>5, <2>1, <4>1, <4>5
    <3>12. w \in ties(x)
      BY <3>10 DEF C
    <3> QED  BY <3>10, <3>11, <3>12
  <2> QED  BY <2>6, <2>7, <2>9, <2>10 DEF shown
<1> QED  BY <1>6, <1>7

LEMMA CatalogueAgrees == Catalogue => FeedsAgree
BY TreeAgrees, FiguresOfOne, StockAgrees, PagesOrdered DEF FeedsAgree

\* Whatever is in the catalogue, and whatever its lists are ordered by, the counts
\* and the lists made from it agree (categories.service.ts, products.service.ts), as
\* long as no two requests have been on one category at once: those may leave
\* categories on three levels, which the lists are not made for.
THEOREM FeedsAlwaysAgree ==
  ProductsSpec /\ [](overlapped \cap CategoryIds = {}) => []FeedsAgree
<1>1. RowsInv /\ overlapped \cap CategoryIds = {} => Catalogue
  <2> SUFFICES ASSUME RowsInv, overlapped \cap CategoryIds = {} PROVE Catalogue
    OBVIOUS
  <2>1. /\ category \in [CategoryIds -> CategoryRow \cup {Null}]
        /\ product \in [ProductIds -> ProductRow \cup {Null}]
        /\ StockTyped /\ OneLevel
    BY DEF RowsInv, IInv, ShapeOK, ProductInv
  <2>2. ASSUME NEW c \in Existing(category), category[c].parent # Null
        PROVE  category[category[c].parent].parent = Null
    <3>1. c \in CategoryIds /\ category[c].parent \in CategoryIds
      BY <2>1, <2>2, CategoryAssumption DEF Existing, CategoryRow
    <3>2. category[category[c].parent].parent # Null => overlapped \cap {c, category[c].parent} # {}
      BY <2>1, <2>2 DEF OneLevel
    <3> QED  BY <3>1, <3>2
  <2> QED  BY <2>1, <2>2 DEF Catalogue
<1> QED  BY <1>1, RowsInvariant, CatalogueAgrees, PTL
==============================================================================
