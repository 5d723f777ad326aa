------------------------------- MODULE Products -------------------------------
(* Products, their variants and their stock rows: products.service.ts. A    *)
(* SKU in use, like any invalid field, refuses a request: it ends there.    *)
EXTENDS Categories

CONSTANTS ProductIds, VariantIds,
          Units  \* the initial quantities staff give

VARIABLES
  product,  \* id -> row [category, hasVariants, active, deleted], or Null
  variant,  \* id -> row [product, active, deleted], or Null
  stock,    \* product or variant -> units available, or Null: no row
  unstocked \* history: products whose update was lost before its stock row

productVars == <<product, variant, stock, unstocked>>

ProductRow == [category : CategoryIds, hasVariants : BOOLEAN, active : BOOLEAN, deleted : BOOLEAN]
ProductUpdate == [category : CategoryIds \cup {Null}, hasVariants : BOOLEAN \cup {Null},
                  active : BOOLEAN \cup {Null}]
EnsureRequest == [op : {"ensureStock"}, on : SUBSET ProductIds, product : ProductIds,
                  new : ProductUpdate]

ASSUME ProductAssumption ==
  Units \subseteq Nat /\ Null \notin ProductRow \cup EnsureRequest \cup Units \cup {0}

ProductsInit ==
  /\ product = [p \in ProductIds |-> Null]
  /\ variant = [v \in VariantIds |-> Null]
  /\ stock = [i \in ProductIds \cup VariantIds |-> Null]
  /\ unstocked = {}

LiveProducts == {p \in ProductIds : product[p] # Null /\ ~product[p].deleted}
LiveVariants == {v \in VariantIds : variant[v] # Null /\ ~variant[v].deleted}

\* The fields `f` of a request on product p.
OnProduct(h, p, f) ==
  /\ p \in LiveProducts
  /\ Begin(h, [f EXCEPT !.on = {p}])
  /\ UNCHANGED productVars

-----------------------------------------------------------------------------
(* Products. *)
BeginCreateProduct(h, c) ==
  /\ c \in Existing(category)
  /\ Begin(h, [op |-> "createProduct", on |-> {}, category |-> c])
  /\ UNCHANGED productVars

\* One transaction: the product and, unless it comes in variants, its stock.
CreateProduct(h, p, hasVariants, active, n) ==
  /\ Doing(h, "createProduct")
  /\ product[p] = Null
  /\ product' = [product EXCEPT ![p] =
       [category |-> request[h].category, hasVariants |-> hasVariants,
        active |-> active, deleted |-> FALSE]]
  /\ stock' = IF hasVariants THEN stock ELSE [stock EXCEPT ![p] = n]
  /\ End(h)
  /\ UNCHANGED <<variant, unstocked>>

\* `new` says what the update gives the fields: Null leaves one as it is.
BeginUpdateProduct(h, p, new) ==
  /\ new.category \in Existing(category) \cup {Null}
  /\ OnProduct(h, p, [op |-> "updateProduct", on |-> {}, product |-> p, new |-> new])

\* Faulty: an update that leaves the row to be made by the first adjustment.
UpdateOnly(h) ==
  LET r == request[h]
      given(new, old) == IF new = Null THEN old ELSE new IN
  /\ Doing(h, "updateProduct")
  /\ product' = [product EXCEPT
       ![r.product].category = given(r.new.category, @),
       ![r.product].hasVariants = given(r.new.hasVariants, @),
       ![r.product].active = given(r.new.active, @)]
  /\ End(h)
  /\ UNCHANGED <<variant, stock, unstocked>>

UpdateProduct(h) ==
  LET r == request[h]
      given(new, old) == IF new = Null THEN old ELSE new IN
  /\ Doing(h, "updateProduct")
  /\ product' = [product EXCEPT
       ![r.product].category = given(r.new.category, @),
       ![r.product].hasVariants = given(r.new.hasVariants, @),
       ![r.product].active = given(r.new.active, @)]
  /\ IF r.new.hasVariants = FALSE THEN GoOn(h, [r EXCEPT !.op = "ensureStock"])
     ELSE End(h)
  /\ UNCHANGED <<variant, stock, unstocked>>

\* A product that no longer comes in variants gets a row of its own.
EnsureStock(h) ==
  LET p == request[h].product IN
  /\ Doing(h, "ensureStock")
  /\ stock' = [stock EXCEPT ![p] = IF @ = Null THEN 0 ELSE @]
  /\ End(h)
  /\ UNCHANGED <<product, variant, unstocked>>

BeginDeleteProduct(h, p) ==
  OnProduct(h, p, [op |-> "deleteProduct", on |-> {}, product |-> p])

DeleteProduct(h) ==
  LET p == request[h].product IN
  /\ Doing(h, "deleteProduct")
  /\ product' = [product EXCEPT ![p].deleted = TRUE, ![p].active = FALSE]
  /\ End(h)
  /\ UNCHANGED <<variant, stock, unstocked>>

BeginBulkReassign(h, ps, c) ==
  /\ c \in Existing(category)
  /\ Begin(h, [op |-> "reassign", on |-> ps, products |-> ps, category |-> c])
  /\ UNCHANGED productVars

BulkReassign(h) ==
  LET r == request[h] IN
  /\ Doing(h, "reassign")
  /\ product' = [p \in ProductIds |-> IF p \in r.products \cap LiveProducts
                                      THEN [product[p] EXCEPT !.category = r.category]
                                      ELSE product[p]]
  /\ End(h)
  /\ UNCHANGED <<variant, stock, unstocked>>

-----------------------------------------------------------------------------
(* Variants. *)
BeginCreateVariant(h, p) ==
  /\ p \in LiveProducts
  /\ Begin(h, [op |-> "createVariant", on |-> {p}, product |-> p,
               flag |-> ~product[p].hasVariants])
  /\ UNCHANGED productVars

\* One transaction: the product is flagged if it was not when it was read.
CreateVariant(h, v, active, n) ==
  LET r == request[h] IN
  /\ Doing(h, "createVariant")
  /\ variant[v] = Null
  /\ product' = IF r.flag THEN [product EXCEPT ![r.product].hasVariants = TRUE] ELSE product
  /\ variant' = [variant EXCEPT ![v] =
       [product |-> r.product, active |-> active, deleted |-> FALSE]]
  /\ stock' = [stock EXCEPT ![v] = n]
  /\ End(h)
  /\ UNCHANGED unstocked

\* deletes |-> softDeleteVariant, else updateVariant with its new `active`.
BeginWriteVariant(h, v, deletes, active) ==
  /\ v \in LiveVariants
  /\ deletes => ~active
  /\ deletes \/ variant[v].product \in LiveProducts
  /\ Begin(h, [op |-> "writeVariant", on |-> {v}, variant |-> v,
               deletes |-> deletes, active |-> active])
  /\ UNCHANGED productVars

WriteVariant(h) ==
  LET r == request[h] IN
  /\ Doing(h, "writeVariant")
  /\ variant' = [variant EXCEPT ![r.variant].active = r.active,
                                ![r.variant].deleted = @ \/ r.deletes]
  /\ End(h)
  /\ UNCHANGED <<product, stock, unstocked>>

AbandonProduct(h) ==
  /\ Abandon(h)
  /\ unstocked' = IF Doing(h, "ensureStock") THEN unstocked \cup {request[h].product}
                  ELSE unstocked
  /\ UNCHANGED <<product, variant, stock>>

\* An update gives one of the fields; to give several is no different.
Same == [category |-> Null, hasVariants |-> Null, active |-> Null]
ProductUpdates ==
  {[Same EXCEPT !.category = c] : c \in CategoryIds}
  \cup {[Same EXCEPT !.hasVariants = b] : b \in BOOLEAN}
  \cup {[Same EXCEPT !.active = b] : b \in BOOLEAN}

ProductsNext ==
  \E h \in Handlers :
    \/ \E c \in CategoryIds :
         BeginCreateProduct(h, c) \/ \E ps \in SUBSET LiveProducts : BeginBulkReassign(h, ps, c)
    \/ \E p \in ProductIds :
         \/ \E hasVariants, active \in BOOLEAN : \E n \in Units :
              CreateProduct(h, p, hasVariants, active, n)
         \/ \E new \in ProductUpdates : BeginUpdateProduct(h, p, new)
         \/ BeginDeleteProduct(h, p) \/ BeginCreateVariant(h, p)
    \/ \E v \in VariantIds, active \in BOOLEAN :
         \/ \E n \in Units : CreateVariant(h, v, active, n)
         \/ \E deletes \in BOOLEAN : BeginWriteVariant(h, v, deletes, active)
    \/ UpdateProduct(h) \/ EnsureStock(h) \/ DeleteProduct(h) \/ BulkReassign(h)
    \/ WriteVariant(h) \/ AbandonProduct(h)

CategoriesAndProductsNext ==
  \/ \E h \in Handlers : CategoryRequest(h) /\ UNCHANGED productVars
  \/ ProductsNext /\ UNCHANGED categoryVars

ProductsSpec ==
  /\ CategoriesInit /\ ProductsInit /\ RequestsInit
  /\ [][CategoriesAndProductsNext]_<<requestVars, categoryVars, productVars>>

-----------------------------------------------------------------------------
(* Properties. *)

\* Whatever can be put in a cart has a stock row to lock: every variant, and
\* every product that is sold without variants, however the updates of
\* hasVariants and the creations of variants overlap, but for an update lost
\* before it made the row (ProductsService.update makes it in a statement of
\* its own).
StockRows ==
  /\ \A v \in VariantIds : variant[v] # Null => stock[v] # Null
  /\ \A p \in LiveProducts \ unstocked :
       \/ product[p].hasVariants \/ stock[p] # Null
       \/ \E h \in Handlers : Doing(h, "ensureStock") /\ request[h].product = p
=============================================================================
