-------------------------------- MODULE Totals --------------------------------
(* The amounts of an order: getCart (cart.service.ts) prices the lines,     *)
(* validates the coupon and looks up the fee, one statement after another;  *)
(* placeOrder (orders.service.ts) checks the minimum, validates the coupon  *)
(* again and writes what the view said. Staff edit prices, the code and the *)
(* settings in between (coupons.service.ts, delivery.service.ts). Amounts   *)
(* are in cents.                                                            *)
EXTENDS Requests, FiniteSetsExt

CONSTANTS
  Bills,      \* orders
  Worths,     \* what the lines of the cart may cost
  CodeTerms,  \* what the code may say: [type, value, cap, min]
  Tariffs     \* what the settings may say: [fee, free, min]

VARIABLES
  worth,   \* what the lines cost now
  terms,   \* of the code, or Null: there is none that is active
  tariff,  \* of the way of delivery
  bill     \* order -> amounts and coupon snapshot, or Null

Amount == Nat \cup {Null}
CodeRow == [type : {"PERCENTAGE", "FIXED"}, value : Nat, cap : Amount, min : Amount]
TariffRow == [fee : Nat, free : Amount, min : Nat]
Snapshot == [type : {"PERCENTAGE", "FIXED"}, value : Nat, amount : Nat, edited : BOOLEAN]

ASSUME TotalAssumption ==
  /\ Worths \subseteq Nat /\ CodeTerms \subseteq CodeRow /\ Tariffs \subseteq TariffRow
  /\ Null \notin Nat \cup CodeRow \cup Snapshot

totalVars == <<worth, terms, tariff, bill>>

TotalsInit ==
  /\ worth \in Worths /\ terms \in CodeTerms /\ tariff \in Tariffs
  /\ bill = [b \in Bills |-> Null]

CalculateDiscount(t, subtotal) ==
  LET off == IF t.type = "PERCENTAGE" THEN (subtotal * t.value + 50) \div 100 ELSE t.value
      capped == IF t.type = "PERCENTAGE" /\ t.cap # Null THEN Min({off, t.cap}) ELSE off IN
  Min({capped, subtotal})

\* A code that takes nothing off does not apply.
Applies(t, subtotal) ==
  t # Null /\ (t.min # Null => subtotal >= t.min) /\ CalculateDiscount(t, subtotal) > 0

ComputeDeliveryFee(subtotal) ==
  IF tariff.free # Null /\ subtotal >= tariff.free THEN 0 ELSE tariff.fee

-----------------------------------------------------------------------------
(* The checkout. *)
PriceLines(h) ==
  /\ Begin(h, [op |-> "coupon", on |-> {}, subtotal |-> worth, discount |-> 0, code |-> FALSE,
               fee |-> 0, snapshot |-> Null, edited |-> FALSE])
  /\ UNCHANGED totalVars

ReadCoupon(h) ==
  LET r == request[h] IN
  /\ Doing(h, "coupon")
  /\ GoOn(h, IF Applies(terms, r.subtotal)
             THEN [r EXCEPT !.op = "fee", !.code = TRUE, !.edited = FALSE,
                            !.discount = CalculateDiscount(terms, r.subtotal)]
             ELSE [r EXCEPT !.op = "fee"])
  /\ UNCHANGED totalVars

ReadFee(h) ==
  LET r == request[h] IN
  /\ Doing(h, "fee")
  /\ GoOn(h, [r EXCEPT !.op = "allow", !.fee = ComputeDeliveryFee(r.subtotal)])
  /\ UNCHANGED totalVars

AssertFulfilmentAllowed(h) ==
  LET r == request[h] IN
  /\ Doing(h, "allow")
  /\ r.subtotal >= tariff.min
  /\ GoOn(h, [r EXCEPT !.op = IF r.code THEN "again" ELSE "commit"])
  /\ UNCHANGED totalVars

\* Faulty: the code validated for what the lines cost by then.
ValidateWorth(h) ==
  LET r == request[h] IN
  /\ Doing(h, "again")
  /\ Applies(terms, worth)
  /\ GoOn(h, [r EXCEPT !.op = "commit",
       !.snapshot = [type |-> terms.type, value |-> terms.value,
                     amount |-> CalculateDiscount(terms, worth), edited |-> r.edited]])
  /\ UNCHANGED totalVars

\* The code is validated once more, for the subtotal of the view; one that
\* applies no longer refuses the order.
ValidateAgain(h) ==
  LET r == request[h] IN
  /\ Doing(h, "again")
  /\ Applies(terms, r.subtotal)
  /\ GoOn(h, [r EXCEPT !.op = "commit",
       !.snapshot = [type |-> terms.type, value |-> terms.value,
                     amount |-> CalculateDiscount(terms, r.subtotal), edited |-> r.edited]])
  /\ UNCHANGED totalVars

WriteBill(h, b) ==
  LET r == request[h] IN
  /\ Doing(h, "commit") /\ bill[b] = Null
  /\ bill' = [bill EXCEPT ![b] =
       [subtotal |-> r.subtotal, discount |-> r.discount, fee |-> r.fee,
        total |-> Max({0, r.subtotal - r.discount + r.fee}), snapshot |-> r.snapshot,
        usage |-> IF r.snapshot # Null /\ r.discount > 0 THEN r.discount ELSE Null]]
  /\ End(h)
  /\ UNCHANGED <<worth, terms, tariff>>

-----------------------------------------------------------------------------
(* Staff. *)
EditPrices(w) == worth' = w /\ UNCHANGED <<requestVars, terms, tariff, bill>>
EditTariff(t) == tariff' = t /\ UNCHANGED <<requestVars, worth, terms, bill>>
EditCode(t) ==
  /\ terms' = t
  /\ request' = [h \in Handlers |-> IF request[h] = Null THEN Null
                                    ELSE [request[h] EXCEPT !.edited = TRUE]]
  /\ UNCHANGED <<overlapped, worth, tariff, bill>>

TotalsNext ==
  \/ \E h \in Handlers :
       \/ PriceLines(h) \/ ReadCoupon(h) \/ ReadFee(h) \/ AssertFulfilmentAllowed(h)
       \/ ValidateAgain(h) \/ \E b \in Bills : WriteBill(h, b)
       \/ (Abandon(h) /\ UNCHANGED totalVars)
  \/ \E w \in Worths : EditPrices(w)
  \/ \E t \in Tariffs : EditTariff(t)
  \/ \E t \in CodeTerms \cup {Null} : EditCode(t)

TotalsSpec == TotalsInit /\ RequestsInit /\ [][TotalsNext]_<<requestVars, totalVars>>

-----------------------------------------------------------------------------
(* Properties. *)

\* What an order took off, what its coupon snapshot says and what the usage
\* row says are one amount, whatever is done to the prices and the settings
\* during the checkout, unless the code itself is edited then (placeOrder
\* validates twice and keeps the first discount with the second snapshot);
\* and the total is that of the parts.
DiscountRecorded ==
  \A b \in Bills : bill[b] # Null =>
    LET o == bill[b] IN
    /\ o.total = o.subtotal - o.discount + o.fee /\ o.discount <= o.subtotal
    /\ (o.snapshot = Null) = (o.discount = 0)
    /\ o.snapshot # Null =>
         /\ o.usage = o.discount
         /\ o.snapshot.edited \/ o.snapshot.amount = o.discount
=============================================================================
