------------------------------- MODULE Checkout -------------------------------
(***************************************************************************)
(* The checkout half of OrdersService.placeOrder, over the cart, the       *)
(* coupons and the stock.  It sets the cart's fulfilment type, reads the   *)
(* cart view, checks the lines again and validates the coupon again, each  *)
(* in statements of its own, and then runs one transaction: the order is   *)
(* written from the view, the coupon's usage recorded, the stock reserved  *)
(* and every line the cart has by then removed.                            *)
(***************************************************************************)
EXTENDS Carts

VARIABLES
  placed  \* the orders written: customer, lines, type, what the fee and coupon were

checkoutVars == <<inventoryVars, active, usages, cartVars, placed>>

PlacedOrder == [user : Users, units : Lines, type : FulfilmentType,
                feeFor : FulfilmentType \cup {Null}, code : Coupons \cup {Null}]

\* A placement in flight: about to read the view; with the view; checked.
PlaceRequest ==
       [op : {"place"}, user : Users, type : FulfilmentType]
  \cup [op : {"viewed", "checked"}, user : Users, type : FulfilmentType, units : Lines,
        feeFor : FulfilmentType \cup {Null}, code : Coupons \cup {Null}]

\* The orders are finitely many, which their sums need.
ASSUME CheckoutAssumption ==
  /\ IsFiniteSet(OrderIds)
  /\ Null \notin PlacedOrder

CheckoutTypeOK ==
  /\ InventoryTypeOK /\ CouponsTypeOK /\ CartsTypeOK
  /\ request \in [Handlers -> CartRequest \cup PlaceRequest \cup {Null}]
  /\ placed \in [OrderIds -> PlacedOrder \cup {Null}]

CheckoutInit ==
  /\ InventoryInit /\ CouponsInit /\ CartsInit
  /\ placed = [o \in OrderIds |-> Null]

BesideStock == UNCHANGED <<inventoryVars, active, usages, placed>>

-----------------------------------------------------------------------------

\* Faulty: reads the cart without giving it the fulfilment type of the order.
BeginPlaceKeepingType(h, u, type) ==
  /\ Begin(h, [op |-> "place", user |-> u, type |-> type])
  /\ GetCart(u)
  /\ UNCHANGED <<rows, cartType, asked>> /\ BesideStock

\* setFulfilmentType ends with a view, which may drop the coupon.
BeginPlace(h, u, type) ==
  /\ Begin(h, [op |-> "place", user |-> u, type |-> type])
  /\ cartType' = [cartType EXCEPT ![u] = type]
  /\ \E code \in {cartCoupon[u], Null} : cartCoupon' = [cartCoupon EXCEPT ![u] = code]
  /\ UNCHANGED <<rows, asked>> /\ BesideStock

\* getCart: lines, coupon and, from the type the cart has by now, the fee.  An
\* empty cart is refused.
ReadCartView(h) ==
  /\ InOp(h, "place")
  /\ LET r == request[h] IN
       /\ LiveUnits(r.user) # NoUnits
       /\ GetCart(r.user)
       /\ Continue(h, [op |-> "viewed", user |-> r.user, type |-> r.type,
                       units |-> LiveUnits(r.user), feeFor |-> cartType[r.user],
                       code |-> cartCoupon'[r.user]])
  /\ UNCHANGED <<rows, cartType, asked>> /\ BesideStock

\* Every line of the view must still have a row ('Cart item mismatch'), and
\* its coupon must still validate, now for the type the order asks for.
CheckCart(h) ==
  /\ InOp(h, "viewed")
  /\ LET r == request[h] IN
       /\ \A i \in Items : r.units[i] > 0 =>
            \E k \in DOMAIN rows[r.user][i] : rows[r.user][i][k].live
       /\ r.code # Null => Validates(r.code, r.user, r.type)
       /\ Continue(h, [r EXCEPT !.op = "checked"])
  /\ UNCHANGED <<rows, cartCoupon, cartType, asked>> /\ BesideStock

\* Faulty: writes the order and leaves its lines in the cart.
CommitKeepingLines(h, o) ==
  /\ InOp(h, "checked")
  /\ placed[o] = Null
  /\ LET r == request[h] IN
       /\ ReserveForOrder(o, r.units)
       /\ placed' = [placed EXCEPT ![o] = [user |-> r.user, units |-> r.units, type |-> r.type,
                                           feeFor |-> r.feeFor, code |-> r.code]]
       /\ RecordUsage(r.code, r.user, o)
       /\ cartCoupon' = [cartCoupon EXCEPT ![r.user] = Null]
       /\ Continue(h, Null)
  /\ UNCHANGED <<setting, active, cartType, rows, asked>>

CommitOrder(h, o) ==
  /\ InOp(h, "checked")
  /\ placed[o] = Null
  /\ LET r == request[h] IN
       /\ ReserveForOrder(o, r.units)
       /\ placed' = [placed EXCEPT ![o] = [user |-> r.user, units |-> r.units, type |-> r.type,
                                           feeFor |-> r.feeFor, code |-> r.code]]
       /\ RecordUsage(r.code, r.user, o)
       /\ rows' = [rows EXCEPT ![r.user] = [i \in Items |-> SoftDeleted(@[i])]]
       /\ cartCoupon' = [cartCoupon EXCEPT ![r.user] = Null]
       /\ Continue(h, Null)
  /\ UNCHANGED <<setting, active, cartType, asked>>

CheckoutNext ==
  \/ CartStep /\ BesideStock
  \/ \E h \in Handlers, u \in Users, type \in FulfilmentType : BeginPlace(h, u, type)
  \/ \E h \in Handlers : ReadCartView(h)
  \/ \E h \in Handlers : CheckCart(h)
  \/ \E h \in Handlers, o \in OrderIds : CommitOrder(h, o)
  \/ \E c \in Coupons : Deactivate(c) /\ UNCHANGED <<inventoryVars, cartVars, placed>>
  \/ \E c \in Coupons : Activate(c) /\ UNCHANGED <<inventoryVars, cartVars, placed>>

CheckoutSpec == CheckoutInit /\ [][CheckoutNext]_checkoutVars

-----------------------------------------------------------------------------
(* Properties.                                                             *)

OrdersOf(u) == {o \in OrderIds : placed[o] # Null /\ placed[o].user = u}
OrderedUnits(u, i) == SumFunctionOnSet([o \in OrdersOf(u) |-> placed[o].units[i]], OrdersOf(u))

\* Nothing a customer puts in the cart is lost or ordered twice, as long as the
\* customer's requests do not overlap: what was put in and not taken out is in
\* the cart or in an order.  Every cart operation and the checkout take part.
UnitsKept ==
  \A u \in Users \ overlapped, i \in Items :
    asked[u][i] = LiveUnits(u)[i] + OrderedUnits(u, i)

\* The order of such a customer charges what the cart showed: the fee of the
\* order's own type and the coupon that the cart still has.
ViewCurrent ==
  \A h \in Handlers :
    request[h] # Null /\ request[h].op \in {"viewed", "checked"}
      /\ request[h].user \notin overlapped =>
        /\ request[h].units = LiveUnits(request[h].user)
        /\ request[h].feeFor = request[h].type
        /\ request[h].code = cartCoupon[request[h].user]

\* A variant never has two lines in a cart, and no product has in the cart of a
\* customer whose requests do not overlap.
OneLinePerItem ==
  \A u \in Users, i \in Items :
    i \in Variants \/ u \notin overlapped => Len(rows[u][i]) <= 1

\* The limits of a coupon are checked long before its usage is recorded, so
\* orders in flight at once can pass them, but by no more than one less than
\* the requests that can be in flight.
OverrunBounded ==
  \A c \in Coupons :
    /\ UsageLimit[c] # Null =>
         Cardinality(usages[c]) < UsageLimit[c] + Cardinality(Handlers)
    /\ PerUserLimit[c] # Null => \A u \in Users :
         Cardinality(UsagesBy(c, u)) < PerUserLimit[c] + Cardinality(Handlers)

\* A customer whose requests do not overlap never passes the limit per user.
UserLimitKept ==
  \A c \in Coupons, u \in Users \ overlapped :
    PerUserLimit[c] # Null => Cardinality(UsagesBy(c, u)) <= PerUserLimit[c]
=============================================================================
