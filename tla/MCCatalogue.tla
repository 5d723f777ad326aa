----------------------------- MODULE MCCatalogue -----------------------------
(* The catalogue, for TLC: categories, products and images under concurrent *)
(* requests, one of the three to a behaviour; and the contents that what is *)
(* shown is computed from, enumerated.                                      *)
EXTENDS Images, Feeds, TLC

VARIABLE focus

vars == <<focus, requestVars, categoryVars, productVars, imageVars>>

NewCategory(parent) == [parent |-> parent, active |-> TRUE, deleted |-> FALSE]

\* A product to leave out where two are enough.
APart == CHOOSE p \in ProductIds : TRUE

\* Every tree of the categories with two products in it,
Trees ==
  /\ category \in {rows \in [CategoryIds -> [parent : CategoryIds \cup {Null},
                                             active : BOOLEAN, deleted : BOOLEAN]] :
       \A c \in CategoryIds :
         /\ rows[c].deleted => ~rows[c].active
         /\ rows[c].parent # c
         /\ rows[c].parent # Null => rows[rows[c].parent].parent = Null}
  /\ product \in [ProductIds -> {Null} \cup
       {r \in [category : CategoryIds, hasVariants : {FALSE},
               active : BOOLEAN, deleted : BOOLEAN] : r.deleted => ~r.active}]
  /\ \A p \in ProductIds : product[p] = Null <=> p = APart
  /\ variant = [v \in VariantIds |-> Null]
  /\ stock \in [ProductIds \cup VariantIds -> {Null, 0, 1}]
  /\ \A i \in DOMAIN stock : stock[i] = Null <=> i \in VariantIds \cup {APart}

\* every stock of a product with and without variants,
Stocks ==
  /\ category = [c \in CategoryIds |-> NewCategory(Null)]
  /\ \E c \in CategoryIds : LET p == APart IN
       /\ product \in [ProductIds -> {Null} \cup [category : {c}, hasVariants : BOOLEAN,
                                                  active : {TRUE}, deleted : {FALSE}]]
       /\ \A x \in ProductIds : product[x] # Null <=> x = p
       /\ variant \in [VariantIds -> {Null} \cup
                        {r \in [product : {p}, active : BOOLEAN, deleted : BOOLEAN] :
                           r.deleted => ~r.active}]
       /\ stock \in [ProductIds \cup VariantIds -> {Null, 0, 1, 2}]
       /\ StockRows
       /\ \A i \in DOMAIN stock : stock[i] # Null =>
            IF i \in ProductIds THEN i = p ELSE variant[i] # Null

\* and every list of the products.
ProductLists ==
  /\ category = [c \in CategoryIds |-> NewCategory(Null)]
  /\ \E c \in CategoryIds :
       product \in [ProductIds -> [category : {c}, hasVariants : {FALSE},
                                   active : BOOLEAN, deleted : {FALSE}]]
  /\ variant = [v \in VariantIds |-> Null]
  /\ stock = [i \in ProductIds \cup VariantIds |-> IF i \in ProductIds THEN 1 ELSE Null]

\* One category, and all the products and variants but one deleted long ago.
OneCategory ==
  \E c \in CategoryIds, v \in VariantIds :
    LET p == APart IN
    /\ category = [x \in CategoryIds |-> IF x = c THEN NewCategory(Null) ELSE Null]
    /\ product = [x \in ProductIds |-> IF x = p THEN Null ELSE
         [category |-> c, hasVariants |-> TRUE, active |-> FALSE, deleted |-> TRUE]]
    /\ \E gone \in ProductIds \ {p} :
         variant = [x \in VariantIds |-> IF x = v THEN Null ELSE
           [product |-> gone, active |-> FALSE, deleted |-> TRUE]]
    /\ stock = [i \in ProductIds \cup VariantIds |->
         IF i \in VariantIds \ {v} THEN 0 ELSE Null]

Init ==
  /\ RequestsInit /\ ImagesInit /\ unstocked = {}
  /\ \/ focus = "categories" /\ CategoriesInit /\ ProductsInit
     \/ focus = "products" /\ OneCategory
     \/ focus \in {"images", "banners"} /\ CategoriesInit /\ ProductsInit
     \/ focus = "shown" /\ (Trees \/ Stocks \/ ProductLists)

CategoriesStep ==
  /\ focus = "categories" /\ CategoriesNext
  /\ UNCHANGED <<focus, productVars, imageVars>>
ProductsStep ==
  /\ focus = "products" /\ ProductsNext
  /\ UNCHANGED <<focus, categoryVars, imageVars>>
ImagesStep ==
  /\ \/ focus = "images" /\ GalleryNext
     \/ focus = "banners" /\ BannerNext
  /\ UNCHANGED <<focus, categoryVars, productVars>>

Next == CategoriesStep \/ ProductsStep \/ ImagesStep
Spec == Init /\ [][Next]_vars

Symmetry == Permutations(Handlers) \cup Permutations(CategoryIds)
=============================================================================
