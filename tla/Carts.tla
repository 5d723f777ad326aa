-------------------------------- MODULE Carts --------------------------------
(***************************************************************************)
(* CartService: the cart of each customer, its lines and its coupon.       *)
(*                                                                         *)
(* A line (CartItem) is never deleted: removing it marks it, adding the    *)
(* same product again revives it.  The unique key over cart, product and   *)
(* variant keeps one row for a variant, but a product without variants has *)
(* a null variant, which the key does not compare: its rows can be         *)
(* several.  rows[u][i] are the rows of one customer and one stock row in  *)
(* the order they were made.                                               *)
(*                                                                         *)
(* Every operation reads, writes in a later statement, and ends by reading *)
(* the cart back (getCart), which drops a coupon that no longer validates. *)
(* request[h] is the state of the operation that handler h is in.          *)
(***************************************************************************)
EXTENDS Inventory, Coupons, Functions

CONSTANTS
  Variants,    \* the stock rows that belong to a variant
  Handlers,    \* requests that can be in flight at once
  Additions,   \* the lines an add or a sync asks for
  Quantities   \* the quantities an update asks for

ASSUME CartAssumption ==
  /\ Variants \subseteq Items
  /\ Additions \subseteq Lines
  /\ Quantities \subseteq Nat \ {0}
  /\ IsFiniteSet(Handlers) /\ Handlers # {}

VARIABLES
  rows,        \* CartItem rows
  cartCoupon,  \* Cart.couponCode
  cartType,    \* Cart.fulfilmentType
  request,     \* the operations in flight
  \* History variables, which no guard reads.
  overlapped,  \* customers two of whose requests have been in flight at once
  asked        \* units each customer has put in and not taken out, kept while
               \* the customer's requests do not overlap

cartVars == <<rows, cartCoupon, cartType, request, overlapped, asked>>

CartItem == [quantity : Nat \ {0}, live : BOOLEAN]
NoUnits == [i \in Items |-> 0]

CartRequest ==
       [op : {"adding"}, user : Users, todo : Lines]
  \cup [op : {"add"}, user : Users, todo : Lines, item : Items, row : Nat,
        quantity : Nat \ {0}, change : Nat \ {0}]
  \cup [op : {"update"}, user : Users, item : Items, row : Nat, quantity : Nat \ {0},
        change : Int]
  \cup [op : {"remove"}, user : Users, item : Items, row : Nat, change : Int]
  \cup [op : {"applyCoupon"}, user : Users, code : Coupons]
  \cup [op : {"view"}, user : Users]

CartsTypeOK ==
  /\ rows \in [Users -> [Items -> Seq(CartItem)]]
  /\ cartCoupon \in [Users -> Coupons \cup {Null}]
  /\ cartType \in [Users -> FulfilmentType \cup {Null}]
  /\ overlapped \subseteq Users
  /\ asked \in [Users -> [Items -> Int]]

CartsInit ==
  /\ rows = [u \in Users |-> [i \in Items |-> <<>>]]
  /\ cartCoupon = [u \in Users |-> Null]
  /\ cartType = [u \in Users |-> Null]
  /\ request = [h \in Handlers |-> Null]
  /\ overlapped = {}
  /\ asked = [u \in Users |-> NoUnits]

\* The units of a stock row that a list of cart rows holds.
LiveIn(list) ==
  SumFunctionOnSet([k \in DOMAIN list |-> list[k].quantity], {k \in DOMAIN list : list[k].live})
LiveUnits(u) == [i \in Items |-> LiveIn(rows[u][i])]

SoftDeleted(list) == [k \in DOMAIN list |-> [list[k] EXCEPT !.live = FALSE]]

-----------------------------------------------------------------------------
(* The course of a request.                                                *)

Begin(h, r) ==
  /\ request[h] = Null
  /\ request' = [request EXCEPT ![h] = r]
  /\ overlapped' = IF \E g \in Handlers : request[g] # Null /\ request[g].user = r.user
                   THEN overlapped \cup {r.user} ELSE overlapped

Continue(h, r) ==
  /\ request' = [request EXCEPT ![h] = r]
  /\ UNCHANGED overlapped

Asks(u, change) ==
  asked' = [asked EXCEPT ![u] = [i \in Items |-> IF u \in overlapped THEN 0
                                                 ELSE @[i] + change[i]]]
AsksOf(u, i, change) == Asks(u, [j \in Items |-> IF j = i THEN change ELSE 0])

InOp(h, op) == request[h] # Null /\ request[h].op = op

\* The coupon getCart shows: the one applied if it validates, and none for an
\* empty cart, which no discount applies to.
ShownCoupon(u) ==
  IF cartCoupon[u] # Null /\ LiveUnits(u) # NoUnits
       /\ Validates(cartCoupon[u], u, cartType[u])
  THEN cartCoupon[u] ELSE Null

\* getCart: what it does not show it drops from the cart.
GetCart(u) ==
  \E shown \in {ShownCoupon(u), Null} : cartCoupon' = [cartCoupon EXCEPT ![u] = shown]

BeginView(h, u) ==
  /\ Begin(h, [op |-> "view", user |-> u])
  /\ UNCHANGED <<rows, cartCoupon, cartType, asked>>

\* The last step of every cart operation, and the whole of GET /cart.
ViewCart(h) ==
  /\ InOp(h, "view")
  /\ GetCart(request[h].user)
  /\ Continue(h, Null)
  /\ UNCHANGED <<rows, cartType, asked>>

-----------------------------------------------------------------------------
(* Adding: addItem for one line, syncCart for a list.  All lines are       *)
(* checked against the stock first; then each is looked up and written, in *)
(* statements of its own.  A line refused on the way ends the request and  *)
(* leaves the lines before it in the cart.                                 *)

BeginAdd(h, u, lines) ==
  /\ \A i \in Items : lines[i] > 0 => lines[i] <= Available(i)
  /\ Begin(h, [op |-> "adding", user |-> u, todo |-> lines])
  /\ UNCHANGED <<rows, cartCoupon, cartType, asked>>

\* Faulty: looks among the lines in the cart only.
FindLineInCart(h) ==
  /\ InOp(h, "adding")
  /\ \E i \in Items :
       LET r == request[h]
           list == rows[r.user][i]
           found == {k \in DOMAIN list : list[k].live} IN
       /\ r.todo[i] > 0
       /\ \E k \in IF found = {} THEN {0} ELSE found :
            LET next == r.todo[i] + IF k = 0 THEN 0 ELSE list[k].quantity IN
            /\ k # 0 => next <= Available(i)
            /\ Continue(h, [op |-> "add", user |-> r.user, item |-> i, row |-> k,
                            quantity |-> next, change |-> r.todo[i],
                            todo |-> [r.todo EXCEPT ![i] = 0]])
  /\ UNCHANGED <<rows, cartCoupon, cartType, asked>>

\* findLine returns any row of the product, a removed one too, or none; the sum
\* is checked if there is one.
FindLine(h) ==
  /\ InOp(h, "adding")
  /\ \E i \in Items :
       LET r == request[h]
           list == rows[r.user][i] IN
       /\ r.todo[i] > 0
       /\ \E k \in IF list = <<>> THEN {0} ELSE DOMAIN list :
            LET next == r.todo[i] + IF k = 0 \/ ~list[k].live THEN 0 ELSE list[k].quantity IN
            /\ k # 0 => next <= Available(i)
            /\ Continue(h, [op |-> "add", user |-> r.user, item |-> i, row |-> k,
                            quantity |-> next, change |-> r.todo[i],
                            todo |-> [r.todo EXCEPT ![i] = 0]])
  /\ UNCHANGED <<rows, cartCoupon, cartType, asked>>

\* The row found is written with the sum worked out then; a row that was not
\* found is created, which the unique key refuses for a variant that has one.
WriteLine(h) ==
  /\ InOp(h, "add")
  /\ LET r == request[h]
         list == rows[r.user][r.item]
         line == [quantity |-> r.quantity, live |-> TRUE] IN
     /\ r.row = 0 /\ r.item \in Variants => list = <<>>
     /\ rows' = [rows EXCEPT ![r.user][r.item] =
                   IF r.row = 0 THEN Append(list, line) ELSE [list EXCEPT ![r.row] = line]]
     /\ AsksOf(r.user, r.item, r.change)
     /\ Continue(h, IF r.todo = NoUnits THEN [op |-> "view", user |-> r.user]
                    ELSE [op |-> "adding", user |-> r.user, todo |-> r.todo])
  /\ UNCHANGED <<cartCoupon, cartType>>

-----------------------------------------------------------------------------
(* Changing and removing lines.                                            *)

BeginUpdate(h, u, i, k, quantity_) ==
  /\ rows[u][i][k].live
  /\ quantity_ <= Available(i)
  /\ Begin(h, [op |-> "update", user |-> u, item |-> i, row |-> k, quantity |-> quantity_,
               change |-> quantity_ - rows[u][i][k].quantity])
  /\ UNCHANGED <<rows, cartCoupon, cartType, asked>>

\* Faulty: writes the change instead of the quantity asked for.
WriteUpdateChange(h) ==
  /\ InOp(h, "update")
  /\ LET r == request[h] IN
       /\ rows' = [rows EXCEPT ![r.user][r.item][r.row].quantity = r.change]
       /\ AsksOf(r.user, r.item, r.change)
       /\ Continue(h, [op |-> "view", user |-> r.user])
  /\ UNCHANGED <<cartCoupon, cartType>>

\* A line removed meanwhile is changed and stays removed.
WriteUpdate(h) ==
  /\ InOp(h, "update")
  /\ LET r == request[h] IN
       /\ rows' = [rows EXCEPT ![r.user][r.item][r.row].quantity = r.quantity]
       /\ AsksOf(r.user, r.item, r.change)
       /\ Continue(h, [op |-> "view", user |-> r.user])
  /\ UNCHANGED <<cartCoupon, cartType>>

BeginRemove(h, u, i, k) ==
  /\ rows[u][i][k].live
  /\ Begin(h, [op |-> "remove", user |-> u, item |-> i, row |-> k,
               change |-> -rows[u][i][k].quantity])
  /\ UNCHANGED <<rows, cartCoupon, cartType, asked>>

WriteRemove(h) ==
  /\ InOp(h, "remove")
  /\ LET r == request[h] IN
       /\ rows' = [rows EXCEPT ![r.user][r.item][r.row].live = FALSE]
       /\ AsksOf(r.user, r.item, r.change)
       /\ Continue(h, [op |-> "view", user |-> r.user])
  /\ UNCHANGED <<cartCoupon, cartType>>

ClearCart(h, u) ==
  /\ Begin(h, [op |-> "view", user |-> u])
  /\ rows' = [rows EXCEPT ![u] = [i \in Items |-> SoftDeleted(@[i])]]
  /\ cartCoupon' = [cartCoupon EXCEPT ![u] = Null]
  /\ Asks(u, [i \in Items |-> -LiveUnits(u)[i]])
  /\ UNCHANGED cartType

-----------------------------------------------------------------------------
(* The coupon and the fulfilment type of the cart.                         *)

\* The view that applyCoupon starts with may drop the coupon applied before.
BeginApplyCoupon(h, u, c) ==
  /\ GetCart(u)
  /\ LiveUnits(u) # NoUnits
  /\ Validates(c, u, cartType[u])
  /\ Begin(h, [op |-> "applyCoupon", user |-> u, code |-> c])
  /\ UNCHANGED <<rows, cartType, asked>>

WriteCoupon(h) ==
  /\ InOp(h, "applyCoupon")
  /\ cartCoupon' = [cartCoupon EXCEPT ![request[h].user] = request[h].code]
  /\ Continue(h, [op |-> "view", user |-> request[h].user])
  /\ UNCHANGED <<rows, cartType, asked>>

RemoveCoupon(h, u) ==
  /\ Begin(h, [op |-> "view", user |-> u])
  /\ cartCoupon' = [cartCoupon EXCEPT ![u] = Null]
  /\ UNCHANGED <<rows, cartType, asked>>

SetFulfilmentType(h, u, type) ==
  /\ Begin(h, [op |-> "view", user |-> u])
  /\ cartType' = [cartType EXCEPT ![u] = type]
  /\ UNCHANGED <<rows, cartCoupon, asked>>

\* Refused on the way, or lost with its process.
AbortRequest(h) ==
  /\ request[h] # Null
  /\ Continue(h, Null)
  /\ UNCHANGED <<rows, cartCoupon, cartType, asked>>

CartStep ==
  \/ \E h \in Handlers, u \in Users, lines \in Additions : BeginAdd(h, u, lines)
  \/ \E h \in Handlers : FindLine(h)
  \/ \E h \in Handlers : WriteLine(h)
  \/ \E h \in Handlers, u \in Users, i \in Items, q \in Quantities :
       \E k \in DOMAIN rows[u][i] : BeginUpdate(h, u, i, k, q)
  \/ \E h \in Handlers : WriteUpdate(h)
  \/ \E h \in Handlers, u \in Users, i \in Items :
       \E k \in DOMAIN rows[u][i] : BeginRemove(h, u, i, k)
  \/ \E h \in Handlers : WriteRemove(h)
  \/ \E h \in Handlers, u \in Users : ClearCart(h, u)
  \/ \E h \in Handlers, u \in Users, c \in Coupons : BeginApplyCoupon(h, u, c)
  \/ \E h \in Handlers : WriteCoupon(h)
  \/ \E h \in Handlers, u \in Users : RemoveCoupon(h, u)
  \/ \E h \in Handlers, u \in Users, type \in FulfilmentType : SetFulfilmentType(h, u, type)
  \/ \E h \in Handlers, u \in Users : BeginView(h, u)
  \/ \E h \in Handlers : ViewCart(h)
  \/ \E h \in Handlers : AbortRequest(h)
=============================================================================
