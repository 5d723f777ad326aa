-------------------------------- MODULE Offers --------------------------------
(* Offers (offers.service.ts) and the prices that come of them: the price   *)
(* that the shop shows (pricing.service.ts over loadActiveOffersForPricing),*)
(* the flash deals (products.service.ts) and the price of a line in a cart  *)
(* (cart.service.ts). Amounts are in cents.                                 *)
EXTENDS Requests, FiniteSetsExt

CONSTANTS
  OfferIds, Priced, Shelves,  \* offers, products, categories
  Today                       \* the present

VARIABLES
  offer,  \* offer -> row or Null
  price   \* product -> category, regular price, sale price or Null, variant

offerVars == <<offer, price>>

Reduction == [type : {"PERCENTAGE", "FIXED"}, value : Nat]
OfferRecord ==
  [scope : {"PRODUCT", "CATEGORY"}, category : Shelves \cup {Null}, links : SUBSET Priced,
   discount : Reduction, from : Int, to : Int, active : BOOLEAN, deleted : BOOLEAN]
PriceRecord ==
  [category : Shelves, regular : Nat, sale : Nat \cup {Null},
   variant : [regular : Nat, sale : Nat \cup {Null}] \cup {Null}]

ASSUME OfferAssumption == Null \notin OfferRecord

OffersInit ==
  /\ offer = [o \in OfferIds |-> Null]
  /\ price \in [Priced -> PriceRecord]

\* A reduction keeps to its kind: no percentage beyond a hundred.
ValidOffer(o) ==
  /\ o.from < o.to
  /\ o.discount.type = "PERCENTAGE" => o.discount.value <= 100

CreateOffer(o, row) ==
  /\ offer[o] = Null
  /\ ValidOffer(row)
  /\ IF row.scope = "CATEGORY" THEN row.category # Null ELSE row.links # {}
  /\ offer' = [offer EXCEPT ![o] =
       IF row.scope = "CATEGORY" THEN [row EXCEPT !.links = {}] ELSE [row EXCEPT !.category = Null]]
  /\ UNCHANGED <<requestVars, price>>

\* Faulty: an update checked by what it brings alone.
BeginUpdateAlone(h, o, change) ==
  LET merged == Over(change, offer[o]) IN
  /\ offer[o] # Null /\ ~offer[o].deleted
  /\ {"from", "to"} \subseteq DOMAIN change => change.from < change.to
  /\ IF merged.scope = "CATEGORY" THEN merged.category # Null
     ELSE "links" \in DOMAIN change => change.links # {}
  /\ Begin(h, [op |-> "offer", on |-> {o}, offer |-> o, change |-> change,
               scope |-> merged.scope, category |-> merged.category])
  /\ UNCHANGED offerVars

\* A change names the fields to write. They are checked together with what
\* the row held when it was read.
BeginUpdateOffer(h, o, change) ==
  LET merged == Over(change, offer[o]) IN
  /\ offer[o] # Null /\ ~offer[o].deleted
  /\ ValidOffer(merged)
  /\ IF merged.scope = "CATEGORY" THEN merged.category # Null
     ELSE "links" \in DOMAIN change => change.links # {}
  /\ Begin(h, [op |-> "offer", on |-> {o}, offer |-> o, change |-> change,
               scope |-> merged.scope, category |-> merged.category])
  /\ UNCHANGED offerVars

\* One transaction: the links, then the row; the category always.
WriteOffer(h) ==
  LET r == request[h]
      row == offer[r.offer]
      whole == [category |-> IF r.scope = "CATEGORY" THEN r.category ELSE Null,
                links |-> IF r.scope = "CATEGORY" THEN {}
                          ELSE IF "links" \in DOMAIN r.change THEN r.change.links ELSE row.links] IN
  /\ Doing(h, "offer")
  /\ offer' = [offer EXCEPT ![r.offer] = Over(whole, Over(r.change, row))]
  /\ End(h)
  /\ UNCHANGED price

DeleteOffer(o) ==
  /\ offer[o] # Null /\ ~offer[o].deleted
  /\ offer' = [offer EXCEPT ![o].deleted = TRUE, ![o].active = FALSE]
  /\ UNCHANGED <<requestVars, price>>

OffersNext(rows, changes) ==
  \/ \E o \in OfferIds :
       \/ \E row \in rows : CreateOffer(o, row)
       \/ DeleteOffer(o)
       \/ \E h \in Handlers, change \in changes : BeginUpdateOffer(h, o, change)
  \/ \E h \in Handlers : WriteOffer(h) \/ (Abandon(h) /\ UNCHANGED offerVars)

OffersSpec(rows, changes) ==
  OffersInit /\ RequestsInit /\ [][OffersNext(rows, changes)]_<<requestVars, offerVars>>

-----------------------------------------------------------------------------
(* Prices. *)

Running ==
  {o \in OfferIds : offer[o] # Null /\ ~offer[o].deleted /\ offer[o].active
                      /\ offer[o].from <= Today /\ Today <= offer[o].to}
OnProduct(p) == {o \in Running : offer[o].scope = "PRODUCT" /\ p \in offer[o].links}
OnCategory(c) == {o \in Running : offer[o].scope = "CATEGORY" /\ offer[o].category = c}

RoundHundredths(n) == (n + 50) \div 100
OfferPrice(base, d) ==
  IF d.type = "PERCENTAGE" THEN RoundHundredths(base * (100 - d.value))
  ELSE Max({0, base - d.value})
BestOffer(base, os) == Min({OfferPrice(base, offer[o].discount) : o \in os})

\* Faulty: offers on a category reduced by what the sale left.
UnitPriceSaleFirst(p, variant, onProduct, onCategory) ==
  LET regular == IF variant = Null THEN price[p].regular ELSE variant.regular
      sale == IF variant # Null THEN variant.sale ELSE price[p].sale IN
  IF onProduct # {} THEN BestOffer(regular, onProduct)
  ELSE IF sale # Null THEN sale
  ELSE IF onCategory # {} /\ variant # Null THEN BestOffer(regular, onCategory)
  ELSE regular

\* The offers on the product first, then those on its category, then the
\* sale prices, of the variant first. An offer reduces the regular price.
CalculateUnitPrice(p, variant, onProduct, onCategory) ==
  LET regular == IF variant = Null THEN price[p].regular ELSE variant.regular
      sale == IF variant # Null /\ variant.sale # Null THEN variant.sale ELSE price[p].sale IN
  IF onProduct # {} THEN BestOffer(regular, onProduct)
  ELSE IF onCategory # {} THEN BestOffer(regular, onCategory)
  ELSE IF sale # Null THEN sale ELSE regular

ShownPrice(p, variant) ==
  CalculateUnitPrice(p, variant, OnProduct(p), OnCategory(price[p].category))

\* The cart hands over the rows of the offers as they are: their links are
\* in `products`, and calculateUnitPrice looks for `productIds`.
CartPrice(p, variant) ==
  CalculateUnitPrice(p, variant, {}, OnCategory(price[p].category))

FlashDeals ==
  LET products == UNION {offer[o].links : o \in {x \in Running : offer[x].scope = "PRODUCT"}}
      categories == {offer[o].category : o \in {x \in Running : offer[x].scope = "CATEGORY"}} IN
  {p \in Priced : price[p].sale # Null \/ p \in products \/ price[p].category \in categories}

-----------------------------------------------------------------------------
(* Properties. *)

\* What an update checked together stays together: an offer starts before it
\* ends, is on a category or on products and not on both, unless two updates
\* of it overlap (update reads the row, checks and writes).
OfferWhole ==
  \A o \in OfferIds \ overlapped : offer[o] # Null =>
    /\ offer[o].from < offer[o].to
    /\ IF offer[o].scope = "CATEGORY" THEN offer[o].category # Null /\ offer[o].links = {}
       ELSE offer[o].category = Null

Reduces(p) ==
  /\ price[p].sale # Null => price[p].sale < price[p].regular
  /\ \A o \in Running : OfferPrice(price[p].regular, offer[o].discount) < price[p].regular

\* The flash deals are the products whose price is reduced: every other shows
\* its regular price, and a deal a lower one, unless what reduces it is no
\* reduction (an offer of nothing, a sale price that is not lower).
\* A cart has the price that is shown where no offer on the product runs.
FlashExact ==
  \A p \in Priced :
    LET regular == price[p].regular IN
    /\ p \notin FlashDeals => ShownPrice(p, Null) = regular
    /\ p \in FlashDeals /\ Reduces(p) => ShownPrice(p, Null) < regular
    /\ OnProduct(p) = {} => CartPrice(p, price[p].variant) = ShownPrice(p, price[p].variant)

\* "applies product offer before category offer and sale price": the price
\* that a product is sold at is that of the offer on it.
ProductOfferApplies ==
  \A p \in Priced : OnProduct(p) # {} =>
    CartPrice(p, Null) = BestOffer(price[p].regular, OnProduct(p))
=============================================================================
