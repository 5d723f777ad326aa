---------------------------- MODULE CheckoutProofs ----------------------------
(***************************************************************************)
(* What holds of Checkout for every number of customers, handlers, codes,  *)
(* stock rows and orders, and every limit.                                 *)
(***************************************************************************)
EXTENDS Checkout, Sums, FiniteSetTheorems, TLAPS

-----------------------------------------------------------------------------
(* What a step can do to the requests, the carts and the usages.           *)

\* The fields of a placement that has read the cart view.
IsView(r) ==
  r = [op |-> r.op, user |-> r.user, type |-> r.type, units |-> r.units,
       feeFor |-> r.feeFor, code |-> r.code]

\* The functions have their domains, and a request is some customer's.
Shape ==
  /\ DOMAIN request = Handlers
  /\ DOMAIN rows = Users /\ DOMAIN cartCoupon = Users /\ DOMAIN cartType = Users
  /\ DOMAIN usages = Coupons
  /\ \A h \in Handlers : request[h] # Null =>
       /\ request[h].user \in Users
       /\ request[h].op \in {"viewed", "checked"} => IsView(request[h])

CartOps == {"adding", "add", "update", "remove", "applyCoupon", "view"}

OtherCartsKept(u) ==
  \A v \in Users \ {u} :
    rows'[v] = rows[v] /\ cartCoupon'[v] = cartCoupon[v] /\ cartType'[v] = cartType[v]

\* A step that begins a request: none that has read the cart view.
Begins(h, r) ==
  /\ Begin(h, r)
  /\ r.user \in Users
  /\ \/ r.op \in CartOps
     \/ r.op = "place" /\ cartType'[r.user] = r.type
  /\ OtherCartsKept(r.user)

\* A step of a cart operation under way, or the end of any request.
GoesOn(h, r) ==
  /\ request[h] # Null
  /\ Continue(h, r)
  /\ \/ r = Null
     \/ r.user = request[h].user /\ r.op \in CartOps
  /\ OtherCartsKept(request[h].user)

DomainsKept ==
  /\ DOMAIN rows' = Users /\ DOMAIN cartCoupon' = Users /\ DOMAIN cartType' = Users

LEMMA CartStepKinds ==
  ASSUME Shape, CartStep
  PROVE  /\ DomainsKept
         /\ \E h \in Handlers : \E r : Begins(h, r) \/ GoesOn(h, r)
<1> USE DEF Shape, DomainsKept
<1>1. ASSUME NEW h \in Handlers, NEW u \in Users, NEW lines \in Additions, BeginAdd(h, u, lines)
      PROVE  DomainsKept /\ Begins(h, [op |-> "adding", user |-> u, todo |-> lines])
  BY <1>1 DEF BeginAdd, Begins, OtherCartsKept, CartOps
<1>2. ASSUME NEW h \in Handlers, FindLine(h)
      PROVE  DomainsKept /\ \E r : GoesOn(h, r)
  <2>1. PICK i, k, q :
          Continue(h, [op |-> "add", user |-> request[h].user, item |-> i, row |-> k,
                       quantity |-> q, change |-> request[h].todo[i],
                       todo |-> [request[h].todo EXCEPT ![i] = 0]])
    BY <1>2 DEF FindLine
  <2>2. DomainsKept /\ OtherCartsKept(request[h].user) /\ request[h] # Null
    BY <1>2 DEF FindLine, InOp, OtherCartsKept
  <2>3. QED
    BY <2>1, <2>2 DEF GoesOn, CartOps
<1>3. ASSUME NEW h \in Handlers, WriteLine(h)
      PROVE  DomainsKept /\ \E r : GoesOn(h, r)
  <2>1. DomainsKept /\ OtherCartsKept(request[h].user) /\ request[h] # Null
    BY <1>3 DEF WriteLine, InOp, OtherCartsKept
  <2>2. \/ Continue(h, [op |-> "view", user |-> request[h].user])
        \/ Continue(h, [op |-> "adding", user |-> request[h].user, todo |-> request[h].todo])
    BY <1>3 DEF WriteLine
  <2>3. QED
    BY <2>1, <2>2 DEF GoesOn, CartOps
<1>4. ASSUME NEW h \in Handlers, NEW u \in Users, NEW i \in Items, NEW q \in Quantities,
             NEW k \in DOMAIN rows[u][i], BeginUpdate(h, u, i, k, q)
      PROVE  DomainsKept /\ \E r : Begins(h, r)
  BY <1>4 DEF BeginUpdate, Begins, OtherCartsKept, CartOps
<1>5. ASSUME NEW h \in Handlers, WriteUpdate(h) \/ WriteRemove(h)
      PROVE  DomainsKept /\ GoesOn(h, [op |-> "view", user |-> request[h].user])
  BY <1>5 DEF WriteUpdate, WriteRemove, InOp, GoesOn, OtherCartsKept, CartOps
<1>6. ASSUME NEW h \in Handlers, NEW u \in Users, NEW i \in Items,
             NEW k \in DOMAIN rows[u][i], BeginRemove(h, u, i, k)
      PROVE  DomainsKept /\ \E r : Begins(h, r)
  BY <1>6 DEF BeginRemove, Begins, OtherCartsKept, CartOps
<1>7. ASSUME NEW h \in Handlers, NEW u \in Users,
             \/ ClearCart(h, u) \/ RemoveCoupon(h, u) \/ BeginView(h, u)
             \/ \E type \in FulfilmentType : SetFulfilmentType(h, u, type)
      PROVE  DomainsKept /\ Begins(h, [op |-> "view", user |-> u])
  BY <1>7 DEF ClearCart, RemoveCoupon, BeginView, SetFulfilmentType, Begins, OtherCartsKept,
              CartOps
<1>8. ASSUME NEW h \in Handlers, NEW u \in Users, NEW c \in Coupons, BeginApplyCoupon(h, u, c)
      PROVE  DomainsKept /\ Begins(h, [op |-> "applyCoupon", user |-> u, code |-> c])
  BY <1>8 DEF BeginApplyCoupon, GetCart, Begins, OtherCartsKept, CartOps
<1>9. ASSUME NEW h \in Handlers, WriteCoupon(h)
      PROVE  DomainsKept /\ GoesOn(h, [op |-> "view", user |-> request[h].user])
  BY <1>9 DEF WriteCoupon, InOp, GoesOn, OtherCartsKept, CartOps
<1>10. ASSUME NEW h \in Handlers, ViewCart(h) \/ AbortRequest(h)
       PROVE  DomainsKept /\ GoesOn(h, Null)
  BY <1>10 DEF ViewCart, GetCart, AbortRequest, InOp, GoesOn, OtherCartsKept
<1> HIDE DEF Shape, DomainsKept
<1>11. QED
  BY <1>1, <1>2, <1>3, <1>4, <1>5, <1>6, <1>7, <1>8, <1>9, <1>10, ZenonT(60) DEF CartStep

-----------------------------------------------------------------------------
(* Requests of one customer.                                               *)

\* No two requests of a customer whose requests have not overlapped.
SoleRequest ==
  \A u \in Users \ overlapped, g \in Handlers, h \in Handlers :
    /\ request[g] # Null /\ request[g].user = u
    /\ request[h] # Null /\ request[h].user = u
    => g = h

\* Such a customer's checkout works with the fulfilment type it gave the cart.
PlaceTyped ==
  \A h \in Handlers :
    request[h] # Null /\ request[h].op = "place" /\ request[h].user \notin overlapped =>
      cartType[request[h].user] = request[h].type

IInv == Shape /\ SoleRequest /\ PlaceTyped /\ ViewCurrent

LEMMA IInit == CheckoutInit => IInv
BY DEF CheckoutInit, InventoryInit, CouponsInit, CartsInit, IInv, Shape, SoleRequest, PlaceTyped,
       ViewCurrent

LEMMA BeginsKeeps ==
  ASSUME IInv, DomainsKept, DOMAIN usages' = Coupons,
         NEW h \in Handlers, NEW r, Begins(h, r)
  PROVE  IInv'
<1> USE DEF IInv, Shape, DomainsKept, Begins, Begin
<1>1. Shape'
  BY DEF CartOps
<1>2. SoleRequest'
  BY DEF SoleRequest
<1>3. \A g \in Handlers \ {h} :
        request'[g] # Null /\ request'[g].user \notin overlapped' =>
          request[g].user # r.user /\ request'[g] = request[g]
            /\ request[g].user \notin overlapped
  OBVIOUS
<1>4. PlaceTyped'
  BY <1>3 DEF PlaceTyped, OtherCartsKept, CartOps
<1>5. ViewCurrent'
  BY <1>3 DEF ViewCurrent, LiveUnits, OtherCartsKept, CartOps
<1>6. QED
  BY <1>1, <1>2, <1>4, <1>5

LEMMA GoesOnKeeps ==
  ASSUME IInv, DomainsKept, DOMAIN usages' = Coupons,
         NEW h \in Handlers, NEW r, GoesOn(h, r)
  PROVE  IInv'
<1> USE DEF IInv, Shape, DomainsKept, GoesOn, Continue
<1>1. Shape'
  BY DEF CartOps
<1>2. SoleRequest'
  BY DEF SoleRequest
<1>3. \A g \in Handlers \ {h} :
        request'[g] # Null /\ request'[g].user \notin overlapped' =>
          request[g].user # request[h].user /\ request'[g] = request[g]
            /\ request[g].user \notin overlapped
  BY DEF SoleRequest
<1>4. PlaceTyped'
  BY <1>3 DEF PlaceTyped, OtherCartsKept, CartOps
<1>5. ViewCurrent'
  BY <1>3 DEF ViewCurrent, LiveUnits, OtherCartsKept, CartOps
<1>6. QED
  BY <1>1, <1>2, <1>4, <1>5
\* Reading the cart view, for a request that began as PlaceTyped says.
LEMMA ReadCartViewKeeps ==
  ASSUME IInv, NEW h \in Handlers, ReadCartView(h)
  PROVE  IInv'
<1> DEFINE u == request[h].user
           r == [op |-> "viewed", user |-> u, type |-> request[h].type,
                 units |-> LiveUnits(u), feeFor |-> cartType[u], code |-> cartCoupon'[u]]
<1>1. /\ request[h] # Null /\ request[h].op = "place" /\ u \in Users
      /\ request' = [request EXCEPT ![h] = r]
      /\ overlapped' = overlapped /\ rows' = rows /\ cartType' = cartType /\ usages' = usages
      /\ DOMAIN cartCoupon' = Users
      /\ \A v \in Users \ {u} : cartCoupon'[v] = cartCoupon[v]
  BY DEF IInv, Shape, ReadCartView, InOp, Continue, GetCart, BesideStock
<1>2. Shape'
  BY <1>1 DEF IInv, Shape, IsView
<1>3. SoleRequest'
  BY <1>1 DEF IInv, Shape, SoleRequest
<1>4. PlaceTyped'
  BY <1>1 DEF IInv, Shape, PlaceTyped
<1>5. u \notin overlapped => cartType[u] = request[h].type
  BY <1>1 DEF IInv, PlaceTyped
<1>6. ASSUME NEW g \in Handlers \ {h}, request[g] # Null, request[g].user \notin overlapped
      PROVE  request[g].user \in Users \ {u}
  BY <1>1, <1>6 DEF IInv, Shape, SoleRequest
<1>7. ViewCurrent'
  <2> SUFFICES ASSUME NEW g \in Handlers, request'[g] # Null,
                      request'[g].op \in {"viewed", "checked"},
                      request'[g].user \notin overlapped
               PROVE  /\ request'[g].units =
                           [i \in Items |-> LiveIn(rows[request'[g].user][i])]
                      /\ request'[g].feeFor = request'[g].type
                      /\ request'[g].code = cartCoupon'[request'[g].user]
    BY <1>1 DEF ViewCurrent, LiveUnits
  <2>1. CASE g = h
    <3>1. request'[g] = r
      BY <1>1, <2>1 DEF IInv, Shape
    <3>2. /\ request'[g].units = LiveUnits(u) /\ request'[g].user = u
          /\ request'[g].feeFor = cartType[u] /\ request'[g].type = request[h].type
          /\ request'[g].code = cartCoupon'[u]
      BY <3>1
    <3>3. QED
      BY <3>2, <1>5 DEF LiveUnits
  <2>2. CASE g # h
    <3>1. request'[g] = request[g]
      BY <1>1, <2>2 DEF IInv, Shape
    <3>2. request[g].user \in Users \ {u}
      BY <3>1, <2>2, <1>6
    <3>3. /\ request[g].units = LiveUnits(request[g].user)
          /\ request[g].feeFor = request[g].type
          /\ request[g].code = cartCoupon[request[g].user]
      BY <3>1 DEF IInv, ViewCurrent
    <3>4. QED
      BY <3>1, <3>2, <3>3, <1>1 DEF LiveUnits
  <2>3. QED
    BY <2>1, <2>2
<1>8. QED
  BY <1>2, <1>3, <1>4, <1>7 DEF IInv

LEMMA CheckCartEffect ==
  ASSUME Shape, NEW h \in Handlers, CheckCart(h)
  PROVE  /\ request[h] # Null /\ request[h].op = "viewed"
         /\ request' = [request EXCEPT ![h] =
              [op |-> "checked", user |-> request[h].user, type |-> request[h].type,
               units |-> request[h].units, feeFor |-> request[h].feeFor,
               code |-> request[h].code]]
         /\ UNCHANGED <<overlapped, rows, cartType, cartCoupon, usages>>
         /\ request[h].code # Null => Validates(request[h].code, request[h].user, request[h].type)
<1>1. request[h] # Null /\ request[h].op = "viewed" /\ IsView(request[h])
  BY DEF Shape, CheckCart, InOp
<1>2. [request[h] EXCEPT !.op = "checked"] =
        [op |-> "checked", user |-> request[h].user, type |-> request[h].type,
         units |-> request[h].units, feeFor |-> request[h].feeFor, code |-> request[h].code]
  BY <1>1 DEF IsView
<1>3. QED
  BY <1>1, <1>2 DEF CheckCart, Continue, BesideStock

LEMMA CheckCartKeeps ==
  ASSUME IInv, NEW h \in Handlers, CheckCart(h)
  PROVE  IInv'
<1> DEFINE r == [op |-> "checked", user |-> request[h].user, type |-> request[h].type,
                 units |-> request[h].units, feeFor |-> request[h].feeFor,
                 code |-> request[h].code]
<1>1. /\ request[h] # Null /\ request[h].op = "viewed"
      /\ request' = [request EXCEPT ![h] = r]
      /\ UNCHANGED <<overlapped, rows, cartType, cartCoupon, usages>>
  BY CheckCartEffect DEF IInv
<1>2. Shape'
  BY <1>1 DEF IInv, Shape, IsView
<1>3. SoleRequest'
  BY <1>1 DEF IInv, Shape, SoleRequest
<1>4. PlaceTyped'
  BY <1>1 DEF IInv, Shape, PlaceTyped
<1>5. ViewCurrent'
  BY <1>1 DEF IInv, Shape, ViewCurrent, LiveUnits
<1>6. QED
  BY <1>2, <1>3, <1>4, <1>5 DEF IInv

\* The commit ends a request like any other that goes on to its end.
LEMMA CommitOrderEffect ==
  ASSUME Shape, NEW h \in Handlers, NEW o \in OrderIds, CommitOrder(h, o)
  PROVE  /\ DomainsKept /\ DOMAIN usages' = Coupons /\ GoesOn(h, Null)
         /\ request[h].op = "checked"
         /\ RecordUsage(request[h].code, request[h].user, o)
BY DEF Shape, CommitOrder, InOp, RecordUsage, GoesOn, DomainsKept, OtherCartsKept

LEMMA INext == IInv /\ [CheckoutNext]_checkoutVars => IInv'
<1> SUFFICES ASSUME IInv, [CheckoutNext]_checkoutVars PROVE IInv'
  OBVIOUS
<1>1. CASE CartStep /\ BesideStock
  <2>1. DOMAIN usages' = Coupons
    BY <1>1 DEF IInv, Shape, BesideStock
  <2>2. QED
    BY <1>1, <2>1, CartStepKinds, BeginsKeeps, GoesOnKeeps DEF IInv
<1>2. ASSUME NEW h \in Handlers, NEW u \in Users, NEW type \in FulfilmentType,
             BeginPlace(h, u, type)
      PROVE  IInv'
  <2>1. /\ DomainsKept /\ DOMAIN usages' = Coupons
        /\ Begins(h, [op |-> "place", user |-> u, type |-> type])
    BY <1>2 DEF IInv, Shape, BeginPlace, BesideStock, DomainsKept, Begins, OtherCartsKept
  <2>2. QED
    BY <2>1, BeginsKeeps
<1>3. ASSUME NEW h \in Handlers, ReadCartView(h) PROVE IInv'
  BY <1>3, ReadCartViewKeeps
<1>4. ASSUME NEW h \in Handlers, CheckCart(h) PROVE IInv'
  BY <1>4, CheckCartKeeps
<1>5. ASSUME NEW h \in Handlers, NEW o \in OrderIds, CommitOrder(h, o) PROVE IInv'
  BY <1>5, CommitOrderEffect, GoesOnKeeps DEF IInv
<1>6. ASSUME UNCHANGED <<cartVars, usages>> PROVE IInv'
  BY <1>6 DEF IInv, Shape, SoleRequest, PlaceTyped, ViewCurrent, LiveUnits, cartVars
<1>7. CASE UNCHANGED checkoutVars
  BY <1>6, <1>7 DEF checkoutVars
<1>8. ASSUME NEW c \in Coupons, Deactivate(c) \/ Activate(c), UNCHANGED cartVars PROVE IInv'
  BY <1>6, <1>8 DEF Deactivate, Activate
<1>9. QED
  BY <1>1, <1>2, <1>3, <1>4, <1>5, <1>7, <1>8 DEF CheckoutNext

LEMMA IAlways == CheckoutSpec => []IInv
BY IInit, INext, PTL DEF CheckoutSpec

\* The order of a customer whose requests do not overlap is made of the lines
\* and the coupon that the cart still has, with the fee of the order's own
\* type, although placeOrder reads, checks and writes them apart.
THEOREM ViewsCurrent == CheckoutSpec => []ViewCurrent
<1>1. IInv => ViewCurrent
  BY DEF IInv
<1>2. QED
  BY <1>1, IAlways, PTL
-----------------------------------------------------------------------------
(* Limits of coupons.  A checkout that has validated its coupon is counted *)
(* beside the usages until it records its own: each validation found the   *)
(* usages below the limit, and no more than Handlers are counted.          *)

Checked(c) == {h \in Handlers : /\ request[h] # Null
                                /\ request[h].op = "checked" /\ request[h].code = c}
CheckedBy(c, u) == {h \in Checked(c) : request[h].user = u}

UsagesFinite == \A c \in Coupons : IsFiniteSet(usages[c])

LimitInv ==
  \A c \in Coupons : UsageLimit[c] # Null =>
    Cardinality(usages[c]) + Cardinality(Checked(c)) < UsageLimit[c] + Cardinality(Handlers)

PerUserLimitInv ==
  \A c \in Coupons, u \in Users : PerUserLimit[c] # Null =>
    Cardinality(UsagesBy(c, u)) + Cardinality(CheckedBy(c, u))
      < PerUserLimit[c] + Cardinality(Handlers)

\* With one request at a time there is nothing to count but the one.
SoleLimitInv ==
  \A c \in Coupons, u \in Users \ overlapped : PerUserLimit[c] # Null =>
    Cardinality(UsagesBy(c, u)) + Cardinality(CheckedBy(c, u)) <= PerUserLimit[c]

LimitsInv == IInv /\ UsagesFinite /\ LimitInv /\ PerUserLimitInv /\ SoleLimitInv

\* The sizes in these invariants are numbers.
LEMMA Sizes ==
  ASSUME UsagesFinite
  PROVE  /\ Cardinality(Handlers) \in Nat \ {0}
         /\ \A c \in Coupons : Cardinality(usages[c]) \in Nat
         /\ \A c \in Coupons : \A u : /\ IsFiniteSet(UsagesBy(c, u))
                                       /\ Cardinality(UsagesBy(c, u)) \in Nat
         /\ \A c : /\ IsFiniteSet(Checked(c))
                   /\ Cardinality(Checked(c)) \in 0..Cardinality(Handlers)
         /\ \A c, u : /\ IsFiniteSet(CheckedBy(c, u))
                      /\ Cardinality(CheckedBy(c, u)) \in 0..Cardinality(Handlers)
<1>1. Cardinality(Handlers) \in Nat \ {0}
  BY CartAssumption, FS_CardinalityType, FS_EmptySet
<1>2. \A c \in Coupons : Cardinality(usages[c]) \in Nat
  BY FS_CardinalityType DEF UsagesFinite
<1>3. ASSUME NEW c \in Coupons, NEW u
      PROVE  IsFiniteSet(UsagesBy(c, u)) /\ Cardinality(UsagesBy(c, u)) \in Nat
  <2>1. UsagesBy(c, u) \in SUBSET usages[c]
    BY DEF UsagesBy
  <2>2. QED
    BY <2>1, FS_Subset, FS_CardinalityType DEF UsagesFinite
<1>4. \A S \in SUBSET Handlers : IsFiniteSet(S) /\ Cardinality(S) \in 0..Cardinality(Handlers)
  BY <1>1, CartAssumption, FS_Subset, FS_CardinalityType
<1>5. \A c : Checked(c) \in SUBSET Handlers /\ \A u : CheckedBy(c, u) \in SUBSET Handlers
  BY DEF Checked, CheckedBy
<1>6. QED
  BY <1>1, <1>2, <1>3, <1>4, <1>5

LEMMA LimitsInit == CheckoutInit => LimitsInv
<1> SUFFICES ASSUME CheckoutInit PROVE LimitsInv
  OBVIOUS
<1>1. /\ \A c \in Coupons : usages[c] = {}
      /\ \A h \in Handlers : request[h] = Null
  BY DEF CheckoutInit, CouponsInit, CartsInit
<1>2. UsagesFinite
  BY <1>1, FS_EmptySet DEF UsagesFinite
<1>3. \A c \in Coupons : /\ Cardinality(usages[c]) = 0 /\ Cardinality(Checked(c)) = 0
                         /\ \A u : /\ Cardinality(UsagesBy(c, u)) = 0
                                   /\ Cardinality(CheckedBy(c, u)) = 0
  <2>1. \A c \in Coupons : /\ usages[c] = {} /\ Checked(c) = {}
                           /\ \A u : UsagesBy(c, u) = {} /\ CheckedBy(c, u) = {}
    BY <1>1 DEF UsagesBy, Checked, CheckedBy
  <2>2. QED
    BY <2>1, FS_EmptySet
<1>4. LimitInv /\ PerUserLimitInv /\ SoleLimitInv
  BY <1>2, <1>3, Sizes, CouponAssumption DEF LimitInv, PerUserLimitInv, SoleLimitInv
<1>5. QED
  BY <1>2, <1>4, IInit DEF LimitsInv

\* A step that records no usage and checks no coupon keeps the limits.
LEMMA LimitsKept ==
  ASSUME LimitsInv, IInv', usages' = usages, overlapped \subseteq overlapped',
         \A h \in Handlers : request'[h] # Null /\ request'[h].op = "checked" =>
           request'[h] = request[h]
  PROVE  LimitsInv'
<1>1. /\ UsagesFinite' /\ \A c : Checked(c)' \in SUBSET Checked(c)
      /\ \A c, u : /\ CheckedBy(c, u)' \in SUBSET CheckedBy(c, u)
                   /\ UsagesBy(c, u)' = UsagesBy(c, u)
  BY DEF LimitsInv, UsagesFinite, Checked, CheckedBy, UsagesBy
<1>2. /\ \A c : Cardinality(Checked(c)') <= Cardinality(Checked(c))
      /\ \A c, u : Cardinality(CheckedBy(c, u)') <= Cardinality(CheckedBy(c, u))
  BY <1>1, Sizes, FS_Subset DEF LimitsInv
<1>3. /\ \A c : Cardinality(Checked(c)') \in Nat
      /\ \A c, u : Cardinality(CheckedBy(c, u)') \in Nat
  BY <1>1, Sizes, FS_Subset, FS_CardinalityType DEF LimitsInv
<1>4. LimitInv'
  BY <1>2, <1>3, Sizes, CouponAssumption DEF LimitsInv, LimitInv
<1>5. PerUserLimitInv'
  BY <1>1, <1>2, <1>3, Sizes, CouponAssumption DEF LimitsInv, PerUserLimitInv
<1>6. SoleLimitInv'
  BY <1>1, <1>2, <1>3, Sizes, CouponAssumption DEF LimitsInv, SoleLimitInv
<1>7. QED
  BY <1>1, <1>4, <1>5, <1>6 DEF LimitsInv
\* Checking a cart counts one more checkout, which found the usages below the
\* limits.
LEMMA CheckCartLimits ==
  ASSUME LimitsInv, NEW h \in Handlers, CheckCart(h)
  PROVE  LimitsInv'
<1> PICK code, u, r :
      /\ code = request[h].code /\ u = request[h].user
      /\ r = [op |-> "checked", user |-> u, type |-> request[h].type,
              units |-> request[h].units, feeFor |-> request[h].feeFor, code |-> code]
  OBVIOUS
<1>1. /\ request[h] # Null /\ request[h].op = "viewed" /\ u \in Users
      /\ request' = [request EXCEPT ![h] = r]
      /\ UNCHANGED <<overlapped, usages>>
      /\ code # Null => Validates(code, u, request[h].type)
  BY CheckCartEffect DEF LimitsInv, IInv, Shape
<1>2. IInv' /\ UsagesFinite'
  BY <1>1, CheckCartKeeps DEF LimitsInv, UsagesFinite
<1>3. /\ request'[h] = r
      /\ \A g \in Handlers \ {h} : request'[g] = request[g]
  BY <1>1 DEF LimitsInv, IInv, Shape
<1>4. \A c, v : UsagesBy(c, v)' = UsagesBy(c, v)
  BY <1>1 DEF UsagesBy
<1>5. \A c : c # code => Checked(c)' \in SUBSET Checked(c)
  BY <1>3 DEF Checked
<1>6. \A c, v : c # code \/ v # u => CheckedBy(c, v)' \in SUBSET CheckedBy(c, v)
  BY <1>3 DEF Checked, CheckedBy
<1>7. u \notin overlapped => \A c : CheckedBy(c, u)' \in SUBSET {h}
  BY <1>1, <1>3 DEF LimitsInv, IInv, SoleRequest, Checked, CheckedBy
<1>8. /\ \A c : c # code => Cardinality(Checked(c)') <= Cardinality(Checked(c))
      /\ \A c, v : c # code \/ v # u =>
           Cardinality(CheckedBy(c, v)') <= Cardinality(CheckedBy(c, v))
  BY <1>5, <1>6, Sizes, FS_Subset DEF LimitsInv
<1>9. u \notin overlapped => \A c : Cardinality(CheckedBy(c, u)') <= 1
  <2>1. IsFiniteSet({h}) /\ Cardinality({h}) = 1
    BY FS_Singleton
  <2>2. QED
    BY <1>7, <2>1, FS_Subset
<1>10. /\ \A c : Cardinality(Checked(c)') \in 0..Cardinality(Handlers)
       /\ \A c, v : Cardinality(CheckedBy(c, v)') \in 0..Cardinality(Handlers)
  <2>1. \A S \in SUBSET Handlers : Cardinality(S) \in 0..Cardinality(Handlers)
    BY CartAssumption, FS_Subset, FS_CardinalityType
  <2>2. /\ \A c : Checked(c)' \in SUBSET Handlers
        /\ \A c, v : CheckedBy(c, v)' \in SUBSET Handlers
    BY DEF Checked, CheckedBy
  <2>3. QED
    BY <2>1, <2>2
<1>11. /\ code \in Coupons /\ UsageLimit[code] # Null =>
             Cardinality(usages[code]) < UsageLimit[code]
       /\ code \in Coupons /\ PerUserLimit[code] # Null =>
             Cardinality(UsagesBy(code, u)) < PerUserLimit[code]
  BY <1>1, CouponAssumption DEF Validates
<1>12. LimitInv'
  BY <1>1, <1>8, <1>10, <1>11, Sizes, CouponAssumption DEF LimitsInv, LimitInv
<1>13. PerUserLimitInv'
  BY <1>1, <1>4, <1>8, <1>10, <1>11, Sizes, CouponAssumption DEF LimitsInv, PerUserLimitInv
<1>14. SoleLimitInv'
  BY <1>1, <1>4, <1>8, <1>9, <1>10, <1>11, Sizes, CouponAssumption DEF LimitsInv, SoleLimitInv
<1>15. QED
  BY <1>2, <1>12, <1>13, <1>14 DEF LimitsInv

\* A commit turns a counted checkout into a usage.
LEMMA CommitOrderLimits ==
  ASSUME LimitsInv, NEW h \in Handlers, NEW o \in OrderIds, CommitOrder(h, o)
  PROVE  LimitsInv'
<1> PICK code, u, row :
      code = request[h].code /\ u = request[h].user /\ row = [order |-> o, user |-> u]
  OBVIOUS
<1>1. /\ request[h] # Null /\ request[h].op = "checked" /\ u \in Users
      /\ request' = [request EXCEPT ![h] = Null]
      /\ overlapped' = overlapped
      /\ RecordUsage(code, u, o)
  BY CommitOrderEffect DEF LimitsInv, IInv, Shape, GoesOn, Continue
<1>2. IInv'
  BY CommitOrderEffect, GoesOnKeeps DEF LimitsInv, IInv
<1>3. /\ request'[h] = Null
      /\ \A g \in Handlers \ {h} : request'[g] = request[g]
  BY <1>1 DEF LimitsInv, IInv, Shape
<1>4. /\ \A c \in Coupons \ {code} : usages'[c] = usages[c]
      /\ code \in Coupons => usages'[code] \in SUBSET (usages[code] \cup {row})
  BY <1>1 DEF RecordUsage, LimitsInv, IInv, Shape
<1>5. /\ \A c \in Coupons \ {code} : Checked(c)' \in SUBSET Checked(c)
      /\ Checked(code)' \in SUBSET (Checked(code) \ {h}) /\ h \in Checked(code)
  BY <1>1, <1>3 DEF Checked
<1>6. /\ \A c \in Coupons, v \in Users : c # code \/ v # u =>
           /\ UsagesBy(c, v)' \in SUBSET UsagesBy(c, v)
           /\ CheckedBy(c, v)' \in SUBSET CheckedBy(c, v)
      /\ code \in Coupons => UsagesBy(code, u)' \in SUBSET (UsagesBy(code, u) \cup {row})
      /\ CheckedBy(code, u)' \in SUBSET (CheckedBy(code, u) \ {h}) /\ h \in CheckedBy(code, u)
  BY <1>1, <1>3, <1>4 DEF UsagesBy, Checked, CheckedBy
\* The sizes that follow from these inclusions.
<1>7. ASSUME NEW S, IsFiniteSet(S), NEW T \in SUBSET S
      PROVE  /\ IsFiniteSet(T) /\ Cardinality(T) \in Nat /\ Cardinality(S) \in Nat
             /\ Cardinality(T) <= Cardinality(S)
  BY <1>7, FS_Subset, FS_CardinalityType
<1>8. ASSUME NEW S, IsFiniteSet(S), NEW x, NEW T \in SUBSET (S \cup {x})
      PROVE  /\ IsFiniteSet(T) /\ Cardinality(T) \in Nat
             /\ Cardinality(T) <= Cardinality(S) + 1
  <2>1. /\ IsFiniteSet(S \cup {x}) /\ Cardinality(S) \in Nat
        /\ Cardinality(S \cup {x}) = IF x \in S THEN Cardinality(S) ELSE Cardinality(S) + 1
    BY <1>8, FS_AddElement, FS_CardinalityType
  <2>2. QED
    BY <1>7, <2>1
<1>9. ASSUME NEW S, IsFiniteSet(S), NEW x \in S, NEW T \in SUBSET (S \ {x})
      PROVE  /\ Cardinality(T) \in Nat
             /\ Cardinality(T) <= Cardinality(S) - 1
  <2>1. /\ IsFiniteSet(S \ {x}) /\ Cardinality(S) \in Nat
        /\ Cardinality(S \ {x}) = Cardinality(S) - 1
    BY <1>9, FS_RemoveElement, FS_CardinalityType
  <2>2. QED
    BY <1>7, <2>1
<1>10. UsagesFinite'
  <2>1. ASSUME NEW c \in Coupons PROVE IsFiniteSet(usages'[c])
    BY <1>4, <1>8 DEF LimitsInv, UsagesFinite
  <2>2. QED
    BY <2>1 DEF UsagesFinite
<1>11. LimitInv'
  <2> SUFFICES ASSUME NEW c \in Coupons, UsageLimit[c] # Null
               PROVE  Cardinality(usages'[c]) + Cardinality(Checked(c)')
                        < UsageLimit[c] + Cardinality(Handlers)
    BY DEF LimitInv
  <2>1. /\ IsFiniteSet(usages[c]) /\ IsFiniteSet(Checked(c))
        /\ Cardinality(usages[c]) \in Nat /\ Cardinality(Checked(c)) \in Nat
        /\ Cardinality(Handlers) \in Nat /\ UsageLimit[c] \in Nat
        /\ Cardinality(usages[c]) + Cardinality(Checked(c))
             < UsageLimit[c] + Cardinality(Handlers)
    BY Sizes, CouponAssumption DEF LimitsInv, UsagesFinite, LimitInv
  <2>2. CASE c = code
    <3>1. /\ Cardinality(usages'[c]) \in Nat
          /\ Cardinality(usages'[c]) <= Cardinality(usages[c]) + 1
      <4>1. usages'[c] \in SUBSET (usages[c] \cup {row})
        BY <1>4, <2>2
      <4>2. QED
        BY <4>1, <1>8, <2>1
    <3>2. /\ Cardinality(Checked(c)') \in Nat
          /\ Cardinality(Checked(c)') <= Cardinality(Checked(c)) - 1
      BY <1>5, <1>9, <2>1, <2>2
    <3>3. QED
      BY <2>1, <3>1, <3>2
  <2>3. CASE c # code
    <3>1. usages'[c] = usages[c]
      BY <1>4, <2>3
    <3>2. /\ Cardinality(Checked(c)') \in Nat
          /\ Cardinality(Checked(c)') <= Cardinality(Checked(c))
      BY <1>5, <1>7, <2>1, <2>3
    <3>3. QED
      BY <2>1, <3>1, <3>2
  <2>4. QED
    BY <2>2, <2>3
\* What a customer has used of a code and is about to use does not grow.
<1>12. ASSUME NEW c \in Coupons, NEW v \in Users
       PROVE  /\ Cardinality(UsagesBy(c, v)') \in Nat /\ Cardinality(CheckedBy(c, v)') \in Nat
              /\ Cardinality(UsagesBy(c, v)') + Cardinality(CheckedBy(c, v)')
                   <= Cardinality(UsagesBy(c, v)) + Cardinality(CheckedBy(c, v))
  <2>1. /\ IsFiniteSet(UsagesBy(c, v)) /\ IsFiniteSet(CheckedBy(c, v))
        /\ Cardinality(UsagesBy(c, v)) \in Nat /\ Cardinality(CheckedBy(c, v)) \in Nat
    BY Sizes DEF LimitsInv
  <2>2. CASE c = code /\ v = u
    <3>1. /\ Cardinality(UsagesBy(c, v)') \in Nat
          /\ Cardinality(UsagesBy(c, v)') <= Cardinality(UsagesBy(c, v)) + 1
      BY <1>6, <1>8, <2>1, <2>2
    <3>2. /\ Cardinality(CheckedBy(c, v)') \in Nat
          /\ Cardinality(CheckedBy(c, v)') <= Cardinality(CheckedBy(c, v)) - 1
      BY <1>6, <1>9, <2>1, <2>2
    <3>3. QED
      BY <2>1, <3>1, <3>2
  <2>3. CASE c # code \/ v # u
    <3>1. /\ UsagesBy(c, v)' \in SUBSET UsagesBy(c, v)
          /\ CheckedBy(c, v)' \in SUBSET CheckedBy(c, v)
      BY <1>6, <2>3
    <3>2. /\ Cardinality(UsagesBy(c, v)') \in Nat
          /\ Cardinality(UsagesBy(c, v)') <= Cardinality(UsagesBy(c, v))
          /\ Cardinality(CheckedBy(c, v)') \in Nat
          /\ Cardinality(CheckedBy(c, v)') <= Cardinality(CheckedBy(c, v))
      BY <1>7, <2>1, <3>1
    <3>3. QED
      BY <2>1, <3>2
  <2>4. QED
    BY <2>2, <2>3
<1>13. PerUserLimitInv'
  BY <1>12, Sizes, CouponAssumption DEF LimitsInv, PerUserLimitInv
<1>14. SoleLimitInv'
  BY <1>1, <1>12, Sizes, CouponAssumption DEF LimitsInv, SoleLimitInv
<1>15. QED
  BY <1>2, <1>10, <1>11, <1>13, <1>14 DEF LimitsInv

LEMMA LimitsNext == LimitsInv /\ [CheckoutNext]_checkoutVars => LimitsInv'
<1> SUFFICES ASSUME LimitsInv, [CheckoutNext]_checkoutVars PROVE LimitsInv'
  OBVIOUS
<1>1. IInv'
  BY INext DEF LimitsInv
<1>2. CASE CartStep /\ BesideStock
  <2>1. PICK h \in Handlers : \E r : Begins(h, r) \/ GoesOn(h, r)
    BY <1>2, CartStepKinds DEF LimitsInv, IInv
  <2>2. /\ usages' = usages /\ overlapped \subseteq overlapped'
        /\ \A g \in Handlers : request'[g] # Null /\ request'[g].op = "checked" =>
             request'[g] = request[g]
    BY <1>2, <2>1 DEF LimitsInv, IInv, Shape, BesideStock, Begins, Begin, GoesOn, Continue, CartOps
  <2>3. QED
    BY <1>1, <2>2, LimitsKept
<1>3. ASSUME NEW h \in Handlers, NEW u \in Users, NEW type \in FulfilmentType,
             BeginPlace(h, u, type)
      PROVE  LimitsInv'
  <2>1. /\ usages' = usages /\ overlapped \subseteq overlapped'
        /\ \A g \in Handlers : request'[g] # Null /\ request'[g].op = "checked" =>
             request'[g] = request[g]
    BY <1>3 DEF LimitsInv, IInv, Shape, BeginPlace, Begin, BesideStock
  <2>2. QED
    BY <1>1, <2>1, LimitsKept
<1>4. ASSUME NEW h \in Handlers, ReadCartView(h) PROVE LimitsInv'
  <2>1. /\ usages' = usages /\ overlapped \subseteq overlapped'
        /\ \A g \in Handlers : request'[g] # Null /\ request'[g].op = "checked" =>
             request'[g] = request[g]
    BY <1>4 DEF LimitsInv, IInv, Shape, ReadCartView, Continue, BesideStock
  <2>2. QED
    BY <1>1, <2>1, LimitsKept
<1>5. ASSUME NEW h \in Handlers, CheckCart(h) PROVE LimitsInv'
  BY <1>5, CheckCartLimits
<1>6. ASSUME NEW h \in Handlers, NEW o \in OrderIds, CommitOrder(h, o) PROVE LimitsInv'
  BY <1>6, CommitOrderLimits
<1>7. ASSUME UNCHANGED <<request, overlapped, usages>> PROVE LimitsInv'
  BY <1>1, <1>7, LimitsKept
<1>8. CASE UNCHANGED checkoutVars
  BY <1>7, <1>8 DEF checkoutVars, cartVars
<1>9. ASSUME NEW c \in Coupons, Deactivate(c) \/ Activate(c), UNCHANGED cartVars
      PROVE  LimitsInv'
  BY <1>7, <1>9 DEF Deactivate, Activate, cartVars
<1>10. QED
  BY <1>2, <1>3, <1>4, <1>5, <1>6, <1>8, <1>9 DEF CheckoutNext

LEMMA LimitsAlways == CheckoutSpec => []LimitsInv
BY LimitsInit, LimitsNext, PTL DEF CheckoutSpec

\* Checkouts in flight at once pass the limits of a code by less than their
\* number, although placeOrder records a usage long after it counts them.
THEOREM OverrunsBounded == CheckoutSpec => []OverrunBounded
<1>1. LimitsInv => OverrunBounded
  BY Sizes, CouponAssumption DEF LimitsInv, LimitInv, PerUserLimitInv, OverrunBounded
<1>2. QED
  BY <1>1, LimitsAlways, PTL

\* A customer whose requests do not overlap keeps the limit per user of every
\* code, whatever other customers and staff do meanwhile.
THEOREM UserLimitsKept == CheckoutSpec => []UserLimitKept
<1>1. LimitsInv => UserLimitKept
  <2> SUFFICES ASSUME LimitsInv, NEW c \in Coupons, NEW u \in Users \ overlapped,
                      PerUserLimit[c] # Null
               PROVE  Cardinality(UsagesBy(c, u)) <= PerUserLimit[c]
    BY DEF UserLimitKept
  <2>1. /\ Cardinality(UsagesBy(c, u)) \in Nat /\ Cardinality(CheckedBy(c, u)) \in Nat
        /\ PerUserLimit[c] \in Nat
    BY Sizes, CouponAssumption DEF LimitsInv
  <2>2. QED
    BY <2>1 DEF LimitsInv, SoleLimitInv
<1>2. QED
  BY <1>1, LimitsAlways, PTL
-----------------------------------------------------------------------------
(* Lines of a cart. The rows of a stock row only grow, so a row that a       *)
(* request has found is there when it writes; and what it has not found is   *)
(* still not there unless another request of the customer came between.      *)

\* What a cart operation has found of the row it is to write.
FoundRight(h) ==
  LET r == request[h] IN
  r # Null =>
    /\ r.op \in {"adding", "add"} => r.todo \in Lines
    /\ r.op \in {"add", "update", "remove"} => r.item \in Items
    /\ r.op \in {"add", "update"} => r.quantity \in Nat \ {0}
    /\ r.op \in {"update", "remove"} => r.row \in DOMAIN rows[r.user][r.item]
    /\ r.op = "add" => \/ r.row = 0 /\ (r.user \notin overlapped => rows[r.user][r.item] = << >>)
                       \/ r.row # 0 /\ r.row \in DOMAIN rows[r.user][r.item]

LinesInv ==
  /\ IInv
  /\ rows \in [Users -> [Items -> Seq(CartItem)]]
  /\ \A h \in Handlers : FoundRight(h)
  /\ OneLinePerItem

LEMMA LinesInit == CheckoutInit => LinesInv
<1> SUFFICES ASSUME CheckoutInit PROVE LinesInv
  OBVIOUS
<1>1. /\ rows = [u \in Users |-> [i \in Items |-> << >>]]
      /\ request = [h \in Handlers |-> Null]
  BY DEF CheckoutInit, CartsInit
<1>2. rows \in [Users -> [Items -> Seq(CartItem)]] /\ OneLinePerItem
  BY <1>1 DEF OneLinePerItem
<1> QED  BY <1>1, <1>2, IInit DEF LinesInv, FoundRight

\* A list of rows whose rows have changed, and none come or gone.
Rewritten(list, old) ==
  list \in Seq(CartItem) /\ Len(list) = Len(old) /\ DOMAIN list = DOMAIN old

LEMMA RowRewritten ==
  ASSUME NEW old \in Seq(CartItem), NEW k \in DOMAIN old, NEW line \in CartItem
  PROVE  Rewritten([old EXCEPT ![k] = line], old)
BY DEF Rewritten

LEMMA RowsRewritten ==
  ASSUME NEW old \in Seq(CartItem)
  PROVE  Rewritten(SoftDeleted(old), old)
<1>1. ASSUME NEW k \in DOMAIN old PROVE [old[k] EXCEPT !.live = FALSE] \in CartItem
  <2>1. old[k] \in CartItem
    OBVIOUS
  <2> QED  BY <2>1 DEF CartItem
<1>2. /\ SoftDeleted(old) \in [1..Len(old) -> CartItem]
      /\ Len(old) \in Nat /\ DOMAIN old = 1..Len(old)
  BY <1>1 DEF SoftDeleted
<1> QED  BY <1>2 DEF Rewritten

\* Another request of customer u than that of h is one too many.
Alone(h, u) ==
  \A g \in Handlers \ {h} : request[g] # Null /\ request[g].user = u => u \in overlapped'

LEMMA OwnerAlone ==
  ASSUME IInv, NEW h \in Handlers, request[h] # Null, overlapped \subseteq overlapped'
  PROVE  Alone(h, request[h].user)
BY DEF IInv, Shape, SoleRequest, Alone

\* A step of the request of h, of customer u, on that customer's rows.
LEMMA LinesKept ==
  ASSUME LinesInv, IInv', NEW h \in Handlers, NEW u \in Users,
         overlapped \subseteq overlapped', Alone(h, u),
         \A g \in Handlers \ {h} : request'[g] = request[g],
         \A v \in Users \ {u} : rows'[v] = rows[v],
         rows' \in [Users -> [Items -> Seq(CartItem)]],
         \A i \in Items : DOMAIN rows[u][i] \subseteq DOMAIN rows'[u][i],
         FoundRight(h)',
         \A i \in Items : i \in Variants \/ u \notin overlapped' => Len(rows'[u][i]) <= 1
  PROVE  LinesInv'
<1>1. OneLinePerItem'
  BY DEF LinesInv, OneLinePerItem
<1>2. ASSUME NEW g \in Handlers \ {h} PROVE FoundRight(g)'
  <2>1. FoundRight(g) /\ request'[g] = request[g]
    BY DEF LinesInv
  <2> SUFFICES ASSUME request[g] # Null PROVE FoundRight(g)'
    BY <2>1 DEF FoundRight
  <2>2. request[g].user \in Users
    BY DEF LinesInv, IInv, Shape
  <2>3. CASE request[g].user # u
    BY <2>1, <2>2, <2>3 DEF FoundRight
  <2>4. CASE request[g].user = u
    <3>1. u \in overlapped'
      BY <2>1, <2>4 DEF Alone
    <3> QED  BY <2>1, <2>4, <3>1 DEF FoundRight
  <2> QED  BY <2>3, <2>4
<1> QED  BY <1>1, <1>2 DEF LinesInv

\* The same, where the rows stay as many as they are.
LEMMA LinesRewritten ==
  ASSUME LinesInv, IInv', NEW h \in Handlers, NEW u \in Users,
         overlapped \subseteq overlapped', Alone(h, u),
         \A g \in Handlers \ {h} : request'[g] = request[g],
         rows' = [v \in Users |-> rows'[v]], \A v \in Users \ {u} : rows'[v] = rows[v],
         rows'[u] = [i \in Items |-> rows'[u][i]],
         \A i \in Items : Rewritten(rows'[u][i], rows[u][i]),
         FoundRight(h)'
  PROVE  LinesInv'
<1>1. rows' \in [Users -> [Items -> Seq(CartItem)]]
  <2>1. rows'[u] \in [Items -> Seq(CartItem)]
    BY DEF Rewritten
  <2>2. \A v \in Users \ {u} : rows'[v] \in [Items -> Seq(CartItem)]
    BY DEF LinesInv
  <2>3. \A v \in Users : rows'[v] \in [Items -> Seq(CartItem)]
    BY <2>1, <2>2
  <2> QED  BY <2>3
<1>2. \A i \in Items : /\ DOMAIN rows[u][i] \subseteq DOMAIN rows'[u][i]
                       /\ i \in Variants \/ u \notin overlapped' => Len(rows'[u][i]) <= 1
  BY DEF LinesInv, OneLinePerItem, Rewritten
<1> QED  BY <1>1, <1>2, LinesKept

\* A step that writes no rows.
LEMMA LinesSame ==
  ASSUME LinesInv, IInv', NEW h \in Handlers, rows' = rows,
         overlapped \subseteq overlapped',
         \A g \in Handlers \ {h} : request'[g] = request[g],
         FoundRight(h)'
  PROVE  LinesInv'
<1>1. OneLinePerItem'
  BY DEF LinesInv, OneLinePerItem
<1>2. ASSUME NEW g \in Handlers \ {h} PROVE FoundRight(g)'
  <2>1. FoundRight(g) /\ request'[g] = request[g]
    BY DEF LinesInv
  <2> QED  BY <2>1 DEF FoundRight
<1> QED  BY <1>1, <1>2 DEF LinesInv

LEMMA FindLineLines ==
  ASSUME LinesInv, IInv', NEW h \in Handlers, FindLine(h)
  PROVE  LinesInv'
<1> PICK i, k, q, t, u, s :
      /\ i \in Items
      /\ u = request[h].user /\ s = request[h].todo[i]
      /\ t = [request[h].todo EXCEPT ![i] = 0]
      /\ s > 0
      /\ k \in IF rows[u][i] = << >> THEN {0} ELSE DOMAIN rows[u][i]
      /\ q = s + IF k = 0 \/ ~rows[u][i][k].live THEN 0 ELSE rows[u][i][k].quantity
      /\ Continue(h, [op |-> "add", user |-> u, item |-> i, row |-> k,
                      quantity |-> q, change |-> s, todo |-> t])
  BY DEF FindLine
<1>1. request[h] # Null /\ request[h].op = "adding" /\ u \in Users /\ rows' = rows
  BY DEF FindLine, InOp, LinesInv, IInv, Shape
<1>2. request[h].todo \in [Items -> Nat]
  BY <1>1 DEF LinesInv, FoundRight, Lines
<1>3. s \in Nat \ {0} /\ t \in [Items -> Nat]
  BY <1>2
<1>4. rows[u][i] \in Seq(CartItem)
  BY <1>1 DEF LinesInv
<1>5. \/ k = 0 /\ rows[u][i] = << >> /\ q = s
      \/ k # 0 /\ k \in DOMAIN rows[u][i] /\ q \in Nat \ {0}
  <2>1. CASE rows[u][i] = << >>
    BY <1>3, <2>1
  <2>2. CASE rows[u][i] # << >>
    <3>1. k \in DOMAIN rows[u][i] /\ k # 0
      BY <1>4, <2>2
    <3>2. rows[u][i][k] \in CartItem
      BY <1>4, <3>1
    <3>3. rows[u][i][k].quantity \in Nat \ {0}
      BY <3>2 DEF CartItem
    <3> DEFINE joined == IF k = 0 \/ ~rows[u][i][k].live THEN 0 ELSE rows[u][i][k].quantity
    <3>4. joined \in Nat
      BY <3>3
    <3>5. q = s + joined
      OBVIOUS
    <3> HIDE DEF joined
    <3>6. q \in Nat \ {0}
      BY ONLY <1>3, <3>4, <3>5
    <3> QED  BY <3>1, <3>6
  <2> QED  BY <2>1, <2>2
<1> DEFINE r == [op |-> "add", user |-> u, item |-> i, row |-> k,
                 quantity |-> q, change |-> s, todo |-> t]
<1>6. /\ request'[h] = r /\ \A g \in Handlers \ {h} : request'[g] = request[g]
      /\ overlapped' = overlapped
  BY DEF Continue, LinesInv, IInv, Shape
<1>7. /\ r.op = "add" /\ r.user = u /\ r.item = i /\ r.row = k /\ r.quantity = q /\ r.todo = t
  OBVIOUS
<1> HIDE DEF r
<1>8. FoundRight(h)'
  BY <1>1, <1>3, <1>5, <1>6, <1>7 DEF FoundRight, Lines
<1> QED  BY <1>1, <1>6, <1>8, LinesSame

LEMMA WriteLineLines ==
  ASSUME LinesInv, IInv', NEW h \in Handlers, WriteLine(h)
  PROVE  LinesInv'
<1> PICK u, i, k, q, list, line, t :
      /\ u = request[h].user /\ i = request[h].item /\ k = request[h].row
      /\ q = request[h].quantity /\ list = rows[u][i]
      /\ line = [quantity |-> q, live |-> TRUE] /\ t = request[h].todo
  OBVIOUS
<1>1. /\ request[h] # Null /\ request[h].op = "add" /\ u \in Users
      /\ i \in Items /\ q \in Nat \ {0} /\ t \in Lines
      /\ \/ k = 0 /\ (u \notin overlapped => list = << >>)
         \/ k # 0 /\ k \in DOMAIN list
  BY DEF WriteLine, InOp, LinesInv, IInv, Shape, FoundRight
<1>2. /\ k = 0 /\ i \in Variants => list = << >>
      /\ rows' = [rows EXCEPT ![u][i] = IF k = 0 THEN Append(list, line)
                                        ELSE [list EXCEPT ![k] = line]]
      /\ overlapped' = overlapped
      /\ request' = [request EXCEPT ![h] =
                        IF t = NoUnits THEN [op |-> "view", user |-> u]
                        ELSE [op |-> "adding", user |-> u, todo |-> t]]
  BY DEF WriteLine, Continue
<1>3. rows \in [Users -> [Items -> Seq(CartItem)]] /\ DOMAIN request = Handlers
  BY DEF LinesInv, IInv, Shape
<1>4. list \in Seq(CartItem) /\ line \in CartItem
  BY <1>1, <1>3 DEF CartItem
<1>5. /\ rows'[u][i] \in Seq(CartItem)
      /\ DOMAIN list \subseteq DOMAIN rows'[u][i]
      /\ i \in Variants \/ u \notin overlapped => Len(rows'[u][i]) <= 1
  <2>1. CASE k = 0
    <3>1. rows'[u][i] = Append(list, line)
      BY <1>1, <1>2, <1>3, <2>1
    <3>2. /\ Append(list, line) \in Seq(CartItem)
          /\ Len(Append(list, line)) = Len(list) + 1
          /\ DOMAIN list \subseteq DOMAIN Append(list, line)
      BY <1>4
    <3>3. i \in Variants \/ u \notin overlapped => Len(list) = 0
      BY <1>1, <1>2, <2>1
    <3>4. i \in Variants \/ u \notin overlapped => Len(Append(list, line)) <= 1
      BY <3>2, <3>3
    <3> QED  BY <3>1, <3>2, <3>4
  <2>2. CASE k # 0
    <3>1. rows'[u][i] = [list EXCEPT ![k] = line]
      BY <1>1, <1>2, <1>3, <2>2
    <3>2. Rewritten([list EXCEPT ![k] = line], list)
      BY <1>1, <1>4, <2>2, RowRewritten
    <3> QED  BY <1>1, <3>1, <3>2 DEF Rewritten, LinesInv, OneLinePerItem
  <2> QED  BY <2>1, <2>2
<1>6. /\ \A v \in Users \ {u} : rows'[v] = rows[v]
      /\ \A j \in Items \ {i} : rows'[u][j] = rows[u][j]
      /\ rows' \in [Users -> [Items -> Seq(CartItem)]]
  <2>1. rows' = [rows EXCEPT ![u] = [rows[u] EXCEPT ![i] = rows'[u][i]]]
    BY <1>1, <1>2, <1>3
  <2>2. /\ \A v \in Users \ {u} : rows'[v] = rows[v]
        /\ \A j \in Items \ {i} : rows'[u][j] = rows[u][j]
    BY <1>1, <1>3, <2>1
  <2>3. [rows[u] EXCEPT ![i] = rows'[u][i]] \in [Items -> Seq(CartItem)]
    BY <1>1, <1>3, <1>5
  <2>4. rows' \in [Users -> [Items -> Seq(CartItem)]]
    BY <1>1, <1>3, <2>1, <2>3
  <2> QED  BY <2>2, <2>4
<1>7. \A j \in Items : /\ DOMAIN rows[u][j] \subseteq DOMAIN rows'[u][j]
                       /\ j \in Variants \/ u \notin overlapped => Len(rows'[u][j]) <= 1
  BY <1>1, <1>5, <1>6 DEF LinesInv, OneLinePerItem
<1>8. FoundRight(h)'
  BY <1>1, <1>2, <1>3 DEF FoundRight
<1>9. \A g \in Handlers \ {h} : request'[g] = request[g]
  BY <1>2, <1>3
<1>10. Alone(h, u)
  BY <1>1, <1>2, OwnerAlone DEF LinesInv
<1> QED  BY <1>1, <1>2, <1>6, <1>7, <1>8, <1>9, <1>10, LinesKept

\* A row found by an update or a removal is written, live or not.
LEMMA WriteRowLines ==
  ASSUME LinesInv, IInv', NEW h \in Handlers, WriteUpdate(h) \/ WriteRemove(h)
  PROVE  LinesInv'
<1> PICK u, i, k, q :
      /\ u = request[h].user /\ i = request[h].item /\ k = request[h].row
      /\ q = request[h].quantity
  OBVIOUS
<1>1. /\ request[h] # Null /\ u \in Users /\ i \in Items /\ k \in DOMAIN rows[u][i]
      /\ WriteUpdate(h) => q \in Nat \ {0}
  BY DEF WriteUpdate, WriteRemove, InOp, LinesInv, IInv, Shape, FoundRight
<1>2. rows \in [Users -> [Items -> Seq(CartItem)]] /\ DOMAIN request = Handlers
  BY DEF LinesInv, IInv, Shape
<1>3. rows[u][i] \in Seq(CartItem) /\ rows[u][i][k] \in CartItem
  BY <1>1, <1>2
<1>4. PICK line \in CartItem : rows' = [rows EXCEPT ![u][i][k] = line]
  <2>1. CASE WriteUpdate(h)
    <3>1. rows' = [rows EXCEPT ![u][i][k].quantity = q]
      BY <2>1 DEF WriteUpdate
    <3>2. [rows[u][i][k] EXCEPT !.quantity = q] \in CartItem
      BY <1>1, <1>3, <2>1 DEF CartItem
    <3> QED  BY <3>1, <3>2
  <2>2. CASE WriteRemove(h)
    <3>1. rows' = [rows EXCEPT ![u][i][k].live = FALSE]
      BY <2>2 DEF WriteRemove
    <3>2. [rows[u][i][k] EXCEPT !.live = FALSE] \in CartItem
      BY <1>3 DEF CartItem
    <3> QED  BY <3>1, <3>2
  <2> QED  BY <2>1, <2>2
<1>5. rows' = [rows EXCEPT ![u] = [rows[u] EXCEPT ![i] = [rows[u][i] EXCEPT ![k] = line]]]
  BY <1>4
<1>6. Rewritten([rows[u][i] EXCEPT ![k] = line], rows[u][i])
  BY <1>1, <1>3, RowRewritten
<1>7. /\ rows' = [v \in Users |-> rows'[v]]
      /\ rows'[u] = [j \in Items |-> rows'[u][j]]
      /\ \A v \in Users \ {u} : rows'[v] = rows[v]
      /\ \A j \in Items \ {i} : rows'[u][j] = rows[u][j]
      /\ rows'[u][i] = [rows[u][i] EXCEPT ![k] = line]
  BY <1>1, <1>2, <1>5
<1>8. \A j \in Items : Rewritten(rows'[u][j], rows[u][j])
  <2>1. \A j \in Items : rows[u][j] \in Seq(CartItem)
    BY <1>1, <1>2
  <2>2. \A j \in Items : Rewritten(rows[u][j], rows[u][j])
    BY <2>1 DEF Rewritten
  <2> QED  BY <1>6, <1>7, <2>2
<1>9. /\ overlapped' = overlapped
      /\ request' = [request EXCEPT ![h] = [op |-> "view", user |-> u]]
  BY DEF WriteUpdate, WriteRemove, Continue
<1>10. FoundRight(h)' /\ \A g \in Handlers \ {h} : request'[g] = request[g]
  BY <1>2, <1>9 DEF FoundRight
<1>11. Alone(h, u)
  BY <1>1, <1>9, OwnerAlone DEF LinesInv
<1> QED  BY <1>1, <1>7, <1>8, <1>9, <1>10, <1>11, LinesRewritten

\* All rows of a customer are removed: by the customer, or with an order.
LEMMA ClearLines ==
  ASSUME LinesInv, IInv', NEW h \in Handlers, NEW u \in Users,
         overlapped \subseteq overlapped', Alone(h, u),
         \A g \in Handlers \ {h} : request'[g] = request[g],
         rows' = [rows EXCEPT ![u] = [i \in Items |-> SoftDeleted(rows[u][i])]],
         FoundRight(h)'
  PROVE  LinesInv'
<1>1. rows \in [Users -> [Items -> Seq(CartItem)]]
  BY DEF LinesInv
<1>2. /\ rows' = [v \in Users |-> rows'[v]]
      /\ rows'[u] = [j \in Items |-> rows'[u][j]]
      /\ \A v \in Users \ {u} : rows'[v] = rows[v]
      /\ \A j \in Items : rows'[u][j] = SoftDeleted(rows[u][j])
  BY <1>1
<1>3. \A j \in Items : Rewritten(rows'[u][j], rows[u][j])
  BY <1>1, <1>2, RowsRewritten
<1> QED  BY <1>2, <1>3, LinesRewritten

LEMMA LinesNext == LinesInv /\ [CheckoutNext]_checkoutVars => LinesInv'
<1> SUFFICES ASSUME LinesInv, [CheckoutNext]_checkoutVars PROVE LinesInv'
  OBVIOUS
<1>1. IInv'
  BY INext DEF LinesInv
<1>2. DOMAIN request = Handlers /\ \A h \in Handlers : FoundRight(h)
  BY DEF LinesInv, IInv, Shape
\* Most steps write no rows and have found none, or keep what they found.
<1>3. ASSUME NEW h \in Handlers, NEW r, rows' = rows,
             Begin(h, r) \/ Continue(h, r),
             r # Null => r.op \in {"applyCoupon", "view", "place", "viewed", "checked"}
      PROVE  LinesInv'
  <2>1. /\ request'[h] = r /\ \A g \in Handlers \ {h} : request'[g] = request[g]
        /\ overlapped \subseteq overlapped'
    BY <1>2, <1>3 DEF Begin, Continue
  <2>2. FoundRight(h)'
    BY <1>3, <2>1 DEF FoundRight
  <2> QED  BY <1>1, <1>3, <2>1, <2>2, LinesSame
<1>4. ASSUME NEW h \in Handlers, NEW u \in Users, NEW lines \in Additions, BeginAdd(h, u, lines)
      PROVE  LinesInv'
  <2> DEFINE r == [op |-> "adding", user |-> u, todo |-> lines]
  <2>1. /\ request'[h] = r /\ \A g \in Handlers \ {h} : request'[g] = request[g]
        /\ overlapped \subseteq overlapped' /\ rows' = rows
    BY <1>2, <1>4 DEF BeginAdd, Begin
  <2>2. FoundRight(h)'
    BY <2>1, CartAssumption DEF FoundRight
  <2> QED  BY <1>1, <2>1, <2>2, LinesSame
<1>5. ASSUME NEW h \in Handlers, NEW u \in Users, NEW i \in Items, NEW k \in DOMAIN rows[u][i],
             (\E q \in Quantities : BeginUpdate(h, u, i, k, q)) \/ BeginRemove(h, u, i, k)
      PROVE  LinesInv'
  <2>1. PICK r : /\ Begin(h, r) /\ r.user = u /\ r.item = i /\ r.row = k
                 /\ \/ r.op = "update" /\ r.quantity \in Quantities
                    \/ r.op = "remove"
    <3>1. CASE BeginRemove(h, u, i, k)
      <4> DEFINE r == [op |-> "remove", user |-> u, item |-> i, row |-> k,
                       change |-> -rows[u][i][k].quantity]
      <4>1. Begin(h, r) /\ r.user = u /\ r.item = i /\ r.row = k /\ r.op = "remove"
        BY <3>1 DEF BeginRemove
      <4> QED  BY <4>1
    <3>2. CASE \E q \in Quantities : BeginUpdate(h, u, i, k, q)
      <4>1. PICK q \in Quantities : BeginUpdate(h, u, i, k, q)
        BY <3>2
      <4> DEFINE r == [op |-> "update", user |-> u, item |-> i, row |-> k, quantity |-> q,
                       change |-> q - rows[u][i][k].quantity]
      <4>2. /\ Begin(h, r) /\ r.user = u /\ r.item = i /\ r.row = k
            /\ r.op = "update" /\ r.quantity \in Quantities
        BY <4>1 DEF BeginUpdate
      <4> QED  BY <4>2
    <3> QED  BY <1>5, <3>1, <3>2
  <2>2. /\ request'[h] = r /\ \A g \in Handlers \ {h} : request'[g] = request[g]
        /\ overlapped \subseteq overlapped' /\ rows' = rows
    BY <1>2, <1>5, <2>1 DEF BeginUpdate, BeginRemove, Begin
  <2>3. FoundRight(h)'
    BY <2>1, <2>2, CartAssumption DEF FoundRight
  <2> QED  BY <1>1, <2>2, <2>3, LinesSame
<1>6. ASSUME NEW h \in Handlers, NEW u \in Users, ClearCart(h, u)
      PROVE  LinesInv'
  <2> DEFINE r == [op |-> "view", user |-> u]
  <2>1. /\ request'[h] = r /\ \A g \in Handlers \ {h} : request'[g] = request[g]
        /\ overlapped \subseteq overlapped'
        /\ rows' = [rows EXCEPT ![u] = [i \in Items |-> SoftDeleted(rows[u][i])]]
    BY <1>2, <1>6 DEF ClearCart, Begin
  <2>2. Alone(h, u)
    BY <1>6 DEF ClearCart, Begin, Alone
  <2>3. FoundRight(h)'
    BY <2>1 DEF FoundRight
  <2> QED  BY <1>1, <2>1, <2>2, <2>3, ClearLines
<1>7. ASSUME NEW h \in Handlers, NEW o \in OrderIds, CommitOrder(h, o)
      PROVE  LinesInv'
  <2> PICK u : u = request[h].user
    OBVIOUS
  <2>1. /\ request[h] # Null /\ u \in Users
        /\ request'[h] = Null /\ \A g \in Handlers \ {h} : request'[g] = request[g]
        /\ overlapped' = overlapped
        /\ rows' = [rows EXCEPT ![u] = [i \in Items |-> SoftDeleted(rows[u][i])]]
    BY <1>2, <1>7 DEF CommitOrder, InOp, Continue, LinesInv, IInv, Shape
  <2>2. FoundRight(h)'
    BY <2>1 DEF FoundRight
  <2>3. Alone(h, u)
    BY <2>1, OwnerAlone DEF LinesInv
  <2> QED  BY <1>1, <2>1, <2>2, <2>3, ClearLines
<1>8. ASSUME UNCHANGED cartVars
      PROVE  LinesInv'
  BY <1>1, <1>8 DEF LinesInv, FoundRight, OneLinePerItem, cartVars
<1>9. ASSUME NEW h \in Handlers, NEW u \in Users,
             \/ RemoveCoupon(h, u) \/ BeginView(h, u)
             \/ \E type \in FulfilmentType : SetFulfilmentType(h, u, type)
             \/ \E c \in Coupons : BeginApplyCoupon(h, u, c)
             \/ \E type \in FulfilmentType : BeginPlace(h, u, type)
      PROVE  LinesInv'
  BY <1>3, <1>9 DEF RemoveCoupon, BeginView, SetFulfilmentType, BeginApplyCoupon, BeginPlace
<1>10. ASSUME NEW h \in Handlers,
              WriteCoupon(h) \/ ViewCart(h) \/ AbortRequest(h) \/ ReadCartView(h)
       PROVE  LinesInv'
  BY <1>3, <1>10 DEF WriteCoupon, ViewCart, AbortRequest, ReadCartView
<1>11. ASSUME NEW h \in Handlers, CheckCart(h)
       PROVE  LinesInv'
  <2> DEFINE r == [op |-> "checked", user |-> request[h].user, type |-> request[h].type,
                   units |-> request[h].units, feeFor |-> request[h].feeFor,
                   code |-> request[h].code]
  <2>1. rows' = rows /\ Continue(h, r)
    BY <1>11, CheckCartEffect DEF Continue, LinesInv, IInv
  <2>2. r.op = "checked"
    OBVIOUS
  <2> HIDE DEF r
  <2> QED  BY <1>3, <2>1, <2>2
<1>12. CASE CartStep
  BY <1>1, <1>4, <1>5, <1>6, <1>9, <1>10, <1>12, FindLineLines, WriteLineLines, WriteRowLines
     DEF CartStep
<1>13. CASE UNCHANGED checkoutVars
  BY <1>8, <1>13 DEF checkoutVars
<1> QED
  BY <1>7, <1>8, <1>9, <1>10, <1>11, <1>12, <1>13 DEF CheckoutNext

\* A variant never has two lines in a cart, and no product has in the cart of a
\* customer whose requests do not overlap, for any customers, rows and requests:
\* the unique key sees to the first; to the second, that rows only go by mark.
THEOREM OneLineKept == CheckoutSpec => []OneLinePerItem
<1>1. LinesInv => OneLinePerItem
  BY DEF LinesInv
<1> QED  BY <1>1, LinesInit, LinesNext, PTL DEF CheckoutSpec

-----------------------------------------------------------------------------
(* Types.                                                                  *)

\* The fields of a request, by what it does.
LEMMA RequestFields ==
  ASSUME NEW r \in CartRequest \cup PlaceRequest
  PROVE  /\ r.user \in Users
         /\ r.op \in {"adding", "add"} => r.todo \in Lines
         /\ r.op \in {"add", "update", "remove"} => r.item \in Items /\ r.row \in Nat
         /\ r.op = "add" => r.change \in Nat \ {0}
         /\ r.op \in {"update", "remove"} => r.change \in Int
         /\ r.op \in {"add", "update"} => r.quantity \in Nat \ {0}
         /\ r.op = "applyCoupon" => r.code \in Coupons
         /\ r.op \in {"place", "viewed", "checked"} => r.type \in FulfilmentType
         /\ r.op \in {"viewed", "checked"} =>
              /\ r.units \in Lines /\ r.feeFor \in FulfilmentType \cup {Null}
              /\ r.code \in Coupons \cup {Null}
BY DEF CartRequest, PlaceRequest

LEMMA RequestTyped ==
  ASSUME CheckoutTypeOK, NEW h \in Handlers, NEW r \in CartRequest \cup PlaceRequest \cup {Null},
         request' = [request EXCEPT ![h] = r]
  PROVE  request' \in [Handlers -> CartRequest \cup PlaceRequest \cup {Null}]
BY DEF CheckoutTypeOK

LEMMA BeginTyped ==
  ASSUME CheckoutTypeOK, NEW h \in Handlers, NEW r \in CartRequest \cup PlaceRequest, Begin(h, r)
  PROVE  /\ request' \in [Handlers -> CartRequest \cup PlaceRequest \cup {Null}]
         /\ overlapped' \subseteq Users
<1>1. r.user \in Users
  BY RequestFields
<1> QED  BY <1>1, RequestTyped DEF Begin, CheckoutTypeOK, CartsTypeOK

LEMMA ContinueTyped ==
  ASSUME CheckoutTypeOK, NEW h \in Handlers, NEW r \in CartRequest \cup PlaceRequest \cup {Null},
         Continue(h, r)
  PROVE  /\ request' \in [Handlers -> CartRequest \cup PlaceRequest \cup {Null}]
         /\ overlapped' \subseteq Users
BY RequestTyped DEF Continue, CheckoutTypeOK, CartsTypeOK

LEMMA GetCartTyped ==
  ASSUME CheckoutTypeOK, NEW u \in Users, GetCart(u)
  PROVE  cartCoupon' \in [Users -> Coupons \cup {Null}]
<1>1. cartCoupon[u] \in Coupons \cup {Null} /\ cartCoupon \in [Users -> Coupons \cup {Null}]
  BY DEF CheckoutTypeOK, CartsTypeOK
<1>2. ShownCoupon(u) \in Coupons \cup {Null}
  BY <1>1 DEF ShownCoupon
<1> QED  BY <1>1, <1>2 DEF GetCart

LEMMA AsksTyped ==
  ASSUME CheckoutTypeOK, NEW u \in Users, NEW change \in [Items -> Int], Asks(u, change)
  PROVE  asked' \in [Users -> [Items -> Int]]
<1>1. asked \in [Users -> [Items -> Int]]
  BY DEF CheckoutTypeOK, CartsTypeOK
<1>2. [i \in Items |-> IF u \in overlapped THEN 0 ELSE asked[u][i] + change[i]] \in [Items -> Int]
  BY <1>1
<1> QED  BY <1>1, <1>2 DEF Asks

LEMMA AsksOfTyped ==
  ASSUME CheckoutTypeOK, NEW u \in Users, NEW i \in Items, NEW change \in Int,
         AsksOf(u, i, change)
  PROVE  asked' \in [Users -> [Items -> Int]]
<1>1. [j \in Items |-> IF j = i THEN change ELSE 0] \in [Items -> Int]
  OBVIOUS
<1> QED  BY <1>1, AsksTyped DEF AsksOf

\* What a list of cart rows holds: the sum of its rows, those removed at zero.
Worths(list) == [k \in DOMAIN list |-> IF list[k].live THEN list[k].quantity ELSE 0]

LEMMA LiveInSum ==
  ASSUME NEW list \in Seq(CartItem)
  PROVE  /\ LiveIn(list) = SumFunctionOnSet(Worths(list), DOMAIN list)
         /\ LiveIn(list) \in Nat
         /\ IsFiniteSet(DOMAIN list)
         /\ \A k \in DOMAIN list : Worths(list)[k] \in Nat
<1> DEFINE f == [k \in DOMAIN list |-> list[k].quantity]
           w == Worths(list)
           live == {k \in DOMAIN list : list[k].live}
<1>1. \A k \in DOMAIN list : list[k] \in CartItem
  OBVIOUS
<1>2. \A k \in DOMAIN list : f[k] \in Nat /\ w[k] = IF k \in live THEN f[k] ELSE 0
  BY <1>1 DEF CartItem, Worths
<1>3. IsFiniteSet(DOMAIN list)
  <2>1. DOMAIN list = 1..Len(list) /\ Len(list) \in Nat
    OBVIOUS
  <2> QED  BY <2>1, FS_Interval
<1>4. LiveIn(list) = SumFunctionOnSet(f, live)
  BY DEF LiveIn
<1>5. live \in SUBSET DOMAIN list
  OBVIOUS
<1> HIDE DEF f, w, live
<1>6. IsFiniteSet(live)
  BY <1>3, <1>5, FS_Subset
<1>7. SumFunctionOnSet(w, DOMAIN list) = SumFunctionOnSet(w, live)
  BY <1>2, <1>3, <1>5, SumRestrict
<1>8. SumFunctionOnSet(w, live) = SumFunctionOnSet(f, live)
  BY <1>2, <1>5, <1>6, SumSame
<1>9. SumFunctionOnSet(f, live) \in Nat
  BY <1>2, <1>5, <1>6, SumNat
<1> QED  BY <1>2, <1>3, <1>4, <1>7, <1>8, <1>9 DEF w

LEMMA LiveUnitsTyped ==
  ASSUME CheckoutTypeOK, NEW u \in Users
  PROVE  LiveUnits(u) \in Lines /\ \A i \in Items : LiveUnits(u)[i] = LiveIn(rows[u][i])
<1>1. \A i \in Items : rows[u][i] \in Seq(CartItem)
  BY DEF CheckoutTypeOK, CartsTypeOK
<1>2. \A i \in Items : LiveIn(rows[u][i]) \in Nat
  BY <1>1, LiveInSum
<1> QED  BY <1>2 DEF LiveUnits, Lines

\* A step of a cart operation, which the stock, the usages and the orders do not
\* take part in.
LEMMA CartTyped ==
  ASSUME CheckoutTypeOK, BesideStock,
         rows' \in [Users -> [Items -> Seq(CartItem)]],
         cartCoupon' \in [Users -> Coupons \cup {Null}],
         cartType' \in [Users -> FulfilmentType \cup {Null}],
         asked' \in [Users -> [Items -> Int]],
         overlapped' \subseteq Users,
         request' \in [Handlers -> CartRequest \cup PlaceRequest \cup {Null}]
  PROVE  CheckoutTypeOK'
BY DEF CheckoutTypeOK, BesideStock, inventoryVars, InventoryTypeOK, CouponsTypeOK, CartsTypeOK

LEMMA CheckoutTypeInit == CheckoutInit => CheckoutTypeOK
<1> SUFFICES ASSUME CheckoutInit PROVE CheckoutTypeOK
  OBVIOUS
<1>1. InventoryTypeOK
  BY StockAssumption DEF CheckoutInit, InventoryInit, InventoryTypeOK, Movement
<1>2. CouponsTypeOK
  BY DEF CheckoutInit, CouponsInit, CouponsTypeOK
<1>3. CartsTypeOK
  BY DEF CheckoutInit, CartsInit, CartsTypeOK, NoUnits
<1> QED  BY <1>1, <1>2, <1>3 DEF CheckoutInit, CartsInit, CheckoutTypeOK

LEMMA CartStepTyped ==
  ASSUME CheckoutTypeOK, LinesInv, LinesInv', CartStep, BesideStock
  PROVE  CheckoutTypeOK'
<1> DEFINE Requests == CartRequest \cup PlaceRequest
<1>1. /\ rows' \in [Users -> [Items -> Seq(CartItem)]] /\ rows \in [Users -> [Items -> Seq(CartItem)]]
      /\ \A h \in Handlers : request[h] # Null => request[h] \in Requests
      /\ cartCoupon \in [Users -> Coupons \cup {Null}]
      /\ cartType \in [Users -> FulfilmentType \cup {Null}]
      /\ asked \in [Users -> [Items -> Int]]
      /\ overlapped \subseteq Users
  BY DEF LinesInv, CheckoutTypeOK, CartsTypeOK
<1>2. \A u \in Users : [op |-> "view", user |-> u] \in Requests
  BY DEF CartRequest
<1> HIDE DEF Requests
<1>3. ASSUME NEW h \in Handlers, NEW r, r \in Requests \cup {Null}, Continue(h, r)
      PROVE  /\ request' \in [Handlers -> CartRequest \cup PlaceRequest \cup {Null}]
             /\ overlapped' \subseteq Users
  BY <1>3, ContinueTyped DEF Requests
<1>4. ASSUME NEW h \in Handlers, NEW r, r \in Requests, Begin(h, r)
      PROVE  /\ request' \in [Handlers -> CartRequest \cup PlaceRequest \cup {Null}]
             /\ overlapped' \subseteq Users
  BY <1>4, BeginTyped DEF Requests
<1>5. ASSUME NEW h \in Handlers, request[h] # Null PROVE request[h].user \in Users
  BY <1>1, <1>5, RequestFields DEF Requests
<1>6. ASSUME NEW h \in Handlers, NEW u \in Users, NEW lines \in Additions, BeginAdd(h, u, lines)
      PROVE  CheckoutTypeOK'
  <2>1. [op |-> "adding", user |-> u, todo |-> lines] \in Requests
    BY CartAssumption DEF CartRequest, Requests
  <2> QED  BY <1>1, <1>4, <1>6, <2>1, CartTyped DEF BeginAdd
<1>7. ASSUME NEW h \in Handlers, FindLine(h)
      PROVE  CheckoutTypeOK'
  <2>1. /\ request[h] # Null /\ request[h].op = "adding" /\ FoundRight(h)'
        /\ UNCHANGED <<cartCoupon, cartType, asked>>
    BY <1>7 DEF FindLine, InOp, LinesInv
  <2>2. request[h].user \in Users /\ request[h].todo \in [Items -> Nat]
    BY <1>1, <2>1, RequestFields DEF Lines, Requests
  <2>3. PICK i, k, q :
          /\ i \in Items /\ request[h].todo[i] > 0
          /\ k \in IF rows[request[h].user][i] = << >> THEN {0} ELSE DOMAIN rows[request[h].user][i]
          /\ Continue(h, [op |-> "add", user |-> request[h].user, item |-> i, row |-> k,
                          quantity |-> q, change |-> request[h].todo[i],
                          todo |-> [request[h].todo EXCEPT ![i] = 0]])
    BY <1>7 DEF FindLine
  <2> DEFINE r == [op |-> "add", user |-> request[h].user, item |-> i, row |-> k,
                   quantity |-> q, change |-> request[h].todo[i],
                   todo |-> [request[h].todo EXCEPT ![i] = 0]]
  <2>4. request'[h] = r /\ Continue(h, r)
    BY <2>3 DEF Continue, LinesInv, IInv, Shape
  <2>5. k \in Nat
    <3>1. rows[request[h].user][i] \in Seq(CartItem)
      BY <1>1, <2>2, <2>3
    <3> QED  BY <2>3, <3>1
  <2>6. request'[h] # Null => q \in Nat \ {0}
    BY <2>1, <2>4 DEF FoundRight
  <2>7. r \in Requests \cup {Null}
    <3>1. [request[h].todo EXCEPT ![i] = 0] \in Lines /\ request[h].todo[i] \in Nat \ {0}
      BY <2>2, <2>3 DEF Lines
    <3>2. CASE r = Null
      BY <3>2
    <3>3. CASE r # Null
      BY <2>2, <2>3, <2>4, <2>5, <2>6, <3>1, <3>3 DEF CartRequest, Requests
    <3> QED  BY <3>2, <3>3
  <2> HIDE DEF r
  <2> QED  BY <1>1, <1>3, <2>1, <2>4, <2>7, CartTyped
<1>8. ASSUME NEW h \in Handlers, WriteLine(h)
      PROVE  CheckoutTypeOK'
  <2>1. request[h] # Null /\ request[h].op = "add" /\ UNCHANGED <<cartCoupon, cartType>>
    BY <1>8 DEF WriteLine, InOp
  <2>2. /\ request[h].user \in Users /\ request[h].item \in Items /\ request[h].change \in Int
        /\ request[h].todo \in Lines
    BY <1>1, <2>1, RequestFields DEF Requests
  <2>3. asked' \in [Users -> [Items -> Int]]
    BY <1>8, <2>2, AsksOfTyped DEF WriteLine
  <2>4. /\ [op |-> "adding", user |-> request[h].user, todo |-> request[h].todo] \in Requests
        /\ [op |-> "view", user |-> request[h].user] \in Requests
    BY <1>2, <2>2 DEF CartRequest, Requests
  <2>5. \E r \in Requests : Continue(h, r)
    BY <1>8, <2>4 DEF WriteLine
  <2> QED  BY <1>1, <1>3, <2>1, <2>3, <2>5, CartTyped
<1>9. ASSUME NEW h \in Handlers, NEW u \in Users, NEW i \in Items, NEW k \in DOMAIN rows[u][i],
             (\E q \in Quantities : BeginUpdate(h, u, i, k, q)) \/ BeginRemove(h, u, i, k)
      PROVE  CheckoutTypeOK'
  <2>1. rows[u][i] \in Seq(CartItem)
    BY <1>1
  <2>2. k \in Nat /\ rows[u][i][k] \in CartItem
    BY <2>1
  <2>3. rows[u][i][k].quantity \in Nat
    BY <2>2 DEF CartItem
  <2>4. \A q \in Quantities : q \in Nat \ {0} /\ q - rows[u][i][k].quantity \in Int
    BY <2>3, CartAssumption
  <2>5. \A q \in Quantities :
          [op |-> "update", user |-> u, item |-> i, row |-> k, quantity |-> q,
           change |-> q - rows[u][i][k].quantity] \in Requests
    BY <2>2, <2>4 DEF CartRequest, Requests
  <2>6. [op |-> "remove", user |-> u, item |-> i, row |-> k,
         change |-> -rows[u][i][k].quantity] \in Requests
    BY <2>2, <2>3 DEF CartRequest, Requests
  <2>7. \E r \in Requests : Begin(h, r)
    BY <1>9, <2>5, <2>6 DEF BeginUpdate, BeginRemove
  <2>8. UNCHANGED <<cartCoupon, cartType, asked>>
    BY <1>9 DEF BeginUpdate, BeginRemove
  <2> QED  BY <1>1, <1>4, <2>7, <2>8, CartTyped
<1>10. ASSUME NEW h \in Handlers, WriteUpdate(h) \/ WriteRemove(h)
       PROVE  CheckoutTypeOK'
  <2>1. /\ request[h] # Null /\ request[h].op \in {"update", "remove"}
        /\ UNCHANGED <<cartCoupon, cartType>>
        /\ AsksOf(request[h].user, request[h].item, request[h].change)
        /\ Continue(h, [op |-> "view", user |-> request[h].user])
    BY <1>10 DEF WriteUpdate, WriteRemove, InOp
  <2>2. request[h].user \in Users /\ request[h].item \in Items /\ request[h].change \in Int
    BY <1>1, <2>1, RequestFields DEF Requests
  <2>3. asked' \in [Users -> [Items -> Int]]
    BY <2>1, <2>2, AsksOfTyped
  <2> QED  BY <1>1, <1>2, <1>3, <2>1, <2>2, <2>3, CartTyped
<1>11. ASSUME NEW h \in Handlers, NEW u \in Users, ClearCart(h, u)
       PROVE  CheckoutTypeOK'
  <2>1. [i \in Items |-> -LiveUnits(u)[i]] \in [Items -> Int]
    BY LiveUnitsTyped DEF Lines
  <2>2. asked' \in [Users -> [Items -> Int]]
    BY <1>11, <2>1, AsksTyped DEF ClearCart
  <2>3. /\ cartCoupon' \in [Users -> Coupons \cup {Null}] /\ cartType' = cartType
        /\ Begin(h, [op |-> "view", user |-> u])
    BY <1>1, <1>11 DEF ClearCart
  <2> QED  BY <1>1, <1>2, <1>4, <2>2, <2>3, CartTyped
<1>12. ASSUME NEW h \in Handlers, NEW u \in Users, NEW c \in Coupons, BeginApplyCoupon(h, u, c)
       PROVE  CheckoutTypeOK'
  <2>1. [op |-> "applyCoupon", user |-> u, code |-> c] \in Requests
    BY DEF CartRequest, Requests
  <2> QED  BY <1>1, <1>4, <1>12, <2>1, GetCartTyped, CartTyped DEF BeginApplyCoupon
<1>13. ASSUME NEW h \in Handlers, WriteCoupon(h)
       PROVE  CheckoutTypeOK'
  <2>1. /\ request[h] # Null /\ request[h].op = "applyCoupon"
        /\ cartCoupon' = [cartCoupon EXCEPT ![request[h].user] = request[h].code]
        /\ Continue(h, [op |-> "view", user |-> request[h].user])
        /\ UNCHANGED <<cartType, asked>>
    BY <1>13 DEF WriteCoupon, InOp
  <2>2. request[h].user \in Users /\ request[h].code \in Coupons
    BY <1>1, <2>1, RequestFields DEF Requests
  <2>3. cartCoupon' \in [Users -> Coupons \cup {Null}]
    BY <1>1, <2>1, <2>2
  <2> QED  BY <1>1, <1>2, <1>3, <2>1, <2>2, <2>3, CartTyped
<1>14. ASSUME NEW h \in Handlers, NEW u \in Users,
              \/ RemoveCoupon(h, u) \/ BeginView(h, u)
              \/ \E type \in FulfilmentType : SetFulfilmentType(h, u, type)
       PROVE  CheckoutTypeOK'
  <2>1. /\ cartCoupon' \in [Users -> Coupons \cup {Null}]
        /\ cartType' \in [Users -> FulfilmentType \cup {Null}]
        /\ asked' = asked /\ Begin(h, [op |-> "view", user |-> u])
    BY <1>1, <1>14 DEF RemoveCoupon, BeginView, SetFulfilmentType
  <2> QED  BY <1>1, <1>2, <1>4, <2>1, CartTyped
<1>15. ASSUME NEW h \in Handlers, ViewCart(h) \/ AbortRequest(h)
       PROVE  CheckoutTypeOK'
  <2>1. request[h] # Null /\ Continue(h, Null) /\ UNCHANGED <<cartType, asked>>
    BY <1>15 DEF ViewCart, AbortRequest, InOp
  <2>2. request[h].user \in Users
    BY <1>5, <2>1
  <2>3. cartCoupon' \in [Users -> Coupons \cup {Null}]
    BY <1>1, <1>15, <2>2, GetCartTyped DEF ViewCart, AbortRequest
  <2> QED  BY <1>1, <1>3, <2>1, <2>3, CartTyped
<1> QED
  BY <1>6, <1>7, <1>8, <1>9, <1>10, <1>11, <1>12, <1>13, <1>14, <1>15 DEF CartStep

LEMMA CheckoutTypeNext == LinesInv /\ CheckoutTypeOK /\ [CheckoutNext]_checkoutVars => CheckoutTypeOK'
<1> SUFFICES ASSUME LinesInv, LinesInv', CheckoutTypeOK, [CheckoutNext]_checkoutVars
             PROVE  CheckoutTypeOK'
  BY LinesNext
<1>1. /\ rows' \in [Users -> [Items -> Seq(CartItem)]]
      /\ \A h \in Handlers : request[h] # Null => request[h] \in CartRequest \cup PlaceRequest
      /\ cartCoupon \in [Users -> Coupons \cup {Null}]
      /\ cartType \in [Users -> FulfilmentType \cup {Null}]
      /\ asked \in [Users -> [Items -> Int]]
      /\ overlapped \subseteq Users
  BY DEF LinesInv, CheckoutTypeOK, CartsTypeOK
<1>2. ASSUME NEW h \in Handlers, NEW u \in Users, NEW type \in FulfilmentType,
             BeginPlace(h, u, type)
      PROVE  CheckoutTypeOK'
  <2>1. [op |-> "place", user |-> u, type |-> type] \in CartRequest \cup PlaceRequest
    BY DEF PlaceRequest
  <2>2. /\ cartCoupon' \in [Users -> Coupons \cup {Null}]
        /\ cartType' \in [Users -> FulfilmentType \cup {Null}]
        /\ asked' = asked /\ BesideStock
        /\ Begin(h, [op |-> "place", user |-> u, type |-> type])
    BY <1>1, <1>2 DEF BeginPlace
  <2> QED  BY <1>1, <2>1, <2>2, BeginTyped, CartTyped
<1>3. ASSUME NEW h \in Handlers, ReadCartView(h)
      PROVE  CheckoutTypeOK'
  <2> PICK u : u = request[h].user
    OBVIOUS
  <2> DEFINE r == [op |-> "viewed", user |-> u, type |-> request[h].type,
                   units |-> LiveUnits(u), feeFor |-> cartType[u], code |-> cartCoupon'[u]]
  <2>1. /\ request[h] # Null /\ request[h].op = "place" /\ GetCart(u) /\ Continue(h, r)
        /\ UNCHANGED <<cartType, asked>> /\ BesideStock
    BY <1>3 DEF ReadCartView, InOp
  <2>2. u \in Users /\ request[h].type \in FulfilmentType
    BY <1>1, <2>1, RequestFields
  <2>3. cartCoupon' \in [Users -> Coupons \cup {Null}]
    BY <2>1, <2>2, GetCartTyped
  <2>4. LiveUnits(u) \in Lines /\ cartType[u] \in FulfilmentType \cup {Null}
        /\ cartCoupon'[u] \in Coupons \cup {Null}
    BY <1>1, <2>2, <2>3, LiveUnitsTyped
  <2>5. r \in CartRequest \cup PlaceRequest
    BY <2>2, <2>4 DEF PlaceRequest
  <2> HIDE DEF r
  <2> QED  BY <1>1, <2>1, <2>3, <2>5, ContinueTyped, CartTyped
<1>4. ASSUME NEW h \in Handlers, CheckCart(h)
      PROVE  CheckoutTypeOK'
  <2> DEFINE q == request[h]
             r == [op |-> "checked", user |-> q.user, type |-> q.type, units |-> q.units,
                   feeFor |-> q.feeFor, code |-> q.code]
  <2>1. /\ q # Null /\ q.op = "viewed" /\ Continue(h, r)
        /\ UNCHANGED <<cartType, cartCoupon, asked>> /\ BesideStock
    BY <1>4, CheckCartEffect DEF CheckCart, Continue, LinesInv, IInv
  <2>2. /\ q.user \in Users /\ q.type \in FulfilmentType /\ q.units \in Lines
        /\ q.feeFor \in FulfilmentType \cup {Null} /\ q.code \in Coupons \cup {Null}
    BY <1>1, <2>1, RequestFields
  <2> HIDE DEF q
  <2>3. r \in CartRequest \cup PlaceRequest
    BY <2>2 DEF PlaceRequest
  <2> HIDE DEF r
  <2> QED  BY <1>1, <2>1, <2>3, ContinueTyped, CartTyped
<1>5. ASSUME NEW h \in Handlers, NEW o \in OrderIds, CommitOrder(h, o)
      PROVE  CheckoutTypeOK'
  <2> DEFINE q == request[h]
             p == [user |-> q.user, units |-> q.units, type |-> q.type,
                   feeFor |-> q.feeFor, code |-> q.code]
  <2>1. /\ q # Null /\ q.op = "checked" /\ Continue(h, Null)
        /\ ReserveForOrder(o, q.units) /\ RecordUsage(q.code, q.user, o)
        /\ placed' = [placed EXCEPT ![o] = p]
        /\ cartCoupon' = [cartCoupon EXCEPT ![q.user] = Null]
        /\ UNCHANGED <<setting, active, cartType, asked>>
    BY <1>5 DEF CommitOrder, InOp
  <2>2. /\ q.user \in Users /\ q.type \in FulfilmentType /\ q.units \in [Items -> Nat]
        /\ q.feeFor \in FulfilmentType \cup {Null} /\ q.code \in Coupons \cup {Null}
    BY <1>1, <2>1, RequestFields DEF Lines
  <2> HIDE DEF q
  <2>3. p \in PlacedOrder
    BY <2>2 DEF PlacedOrder, Lines
  <2> HIDE DEF p
  <2>4. placed' \in [OrderIds -> PlacedOrder \cup {Null}]
    BY <2>1, <2>3 DEF CheckoutTypeOK
  <2>5. InventoryTypeOK'
    BY <2>1, <2>2 DEF CheckoutTypeOK, InventoryTypeOK, ReserveForOrder, Account
  <2>6. CouponsTypeOK'
    BY <2>1, <2>2 DEF CheckoutTypeOK, CouponsTypeOK, RecordUsage, CouponUsage
  <2>7. CartsTypeOK' /\ request' \in [Handlers -> CartRequest \cup PlaceRequest \cup {Null}]
    BY <1>1, <2>1, <2>2, ContinueTyped DEF CartsTypeOK, CheckoutTypeOK
  <2> QED  BY <2>4, <2>5, <2>6, <2>7 DEF CheckoutTypeOK
<1>6. ASSUME NEW c \in Coupons, Deactivate(c) \/ Activate(c),
             UNCHANGED <<inventoryVars, cartVars, placed>>
      PROVE  CheckoutTypeOK'
  BY <1>6 DEF CheckoutTypeOK, InventoryTypeOK, CouponsTypeOK, CartsTypeOK, Deactivate, Activate,
              inventoryVars, cartVars
<1>7. CASE UNCHANGED checkoutVars
  BY <1>7 DEF CheckoutTypeOK, InventoryTypeOK, CouponsTypeOK, CartsTypeOK, checkoutVars,
              inventoryVars, cartVars
<1> QED
  BY <1>2, <1>3, <1>4, <1>5, <1>6, <1>7, CartStepTyped DEF CheckoutNext

-----------------------------------------------------------------------------
(* What is put in a cart is in it or in an order.  A row that a request has *)
(* found holds what it held when it was found, unless another request of    *)
(* the customer came between, so the change that is counted is the change   *)
(* that is written.                                                         *)

LEMMA LiveInRewritten ==
  ASSUME NEW list \in Seq(CartItem), NEW k \in DOMAIN list, NEW line \in CartItem
  PROVE  LiveIn([list EXCEPT ![k] = line])
           = LiveIn(list) - Worths(list)[k] + (IF line.live THEN line.quantity ELSE 0)
<1> DEFINE new == [list EXCEPT ![k] = line]
           f == Worths(list)
           g == Worths(new)
<1>1. new \in Seq(CartItem) /\ DOMAIN new = DOMAIN list
  OBVIOUS
<1>2. /\ g[k] = IF line.live THEN line.quantity ELSE 0
      /\ \A j \in DOMAIN list \ {k} : f[j] = g[j]
  BY <1>1 DEF Worths
<1> HIDE DEF new
<1>3. /\ LiveIn(list) = SumFunctionOnSet(f, DOMAIN list) /\ IsFiniteSet(DOMAIN list)
      /\ LiveIn(new) = SumFunctionOnSet(g, DOMAIN list)
      /\ \A j \in DOMAIN list : f[j] \in Int /\ g[j] \in Int
  <2>1. /\ LiveIn(list) = SumFunctionOnSet(f, DOMAIN list) /\ IsFiniteSet(DOMAIN list)
        /\ \A j \in DOMAIN list : f[j] \in Nat
    BY LiveInSum
  <2>2. /\ LiveIn(new) = SumFunctionOnSet(g, DOMAIN list)
        /\ \A j \in DOMAIN list : g[j] \in Nat
    BY <1>1, LiveInSum
  <2> QED  BY <2>1, <2>2
<1> HIDE DEF f, g
<1>4. SumFunctionOnSet(g, DOMAIN list) = SumFunctionOnSet(f, DOMAIN list) - f[k] + g[k]
  BY <1>2, <1>3, SumChange
<1> QED  BY <1>2, <1>3, <1>4 DEF f, new

LEMMA LiveInAppended ==
  ASSUME NEW list \in Seq(CartItem), NEW line \in CartItem, line.live
  PROVE  LiveIn(Append(list, line)) = LiveIn(list) + line.quantity
<1> DEFINE new == Append(list, line)
           n == Len(list)
           f == Worths(list)
           g == Worths(new)
<1>1. /\ new \in Seq(CartItem) /\ n \in Nat
      /\ DOMAIN list = 1..n /\ DOMAIN new = (1..n) \cup {n + 1} /\ n + 1 \notin 1..n
      /\ new[n + 1] = line /\ \A j \in 1..n : new[j] = list[j]
  <2>1. DOMAIN new = 1..(n + 1) /\ n \in Nat
    OBVIOUS
  <2>2. 1..(n + 1) = (1..n) \cup {n + 1}
    BY <2>1
  <2> QED  BY <2>1, <2>2
<1>2. g[n + 1] = line.quantity /\ \A j \in 1..n : f[j] = g[j]
  BY <1>1 DEF Worths
<1> HIDE DEF new, n
<1>3. /\ LiveIn(list) = SumFunctionOnSet(f, 1..n) /\ IsFiniteSet(1..n)
      /\ LiveIn(new) = SumFunctionOnSet(g, (1..n) \cup {n + 1})
      /\ \A j \in (1..n) \cup {n + 1} : g[j] \in Int
      /\ LiveIn(list) \in Nat
  <2>1. LiveIn(list) = SumFunctionOnSet(f, 1..n) /\ IsFiniteSet(1..n) /\ LiveIn(list) \in Nat
    BY <1>1, LiveInSum
  <2>2. LiveIn(new) = SumFunctionOnSet(g, (1..n) \cup {n + 1})
        /\ \A j \in (1..n) \cup {n + 1} : g[j] \in Nat
    BY <1>1, LiveInSum
  <2> QED  BY <2>1, <2>2
<1> HIDE DEF f, g
<1>4. SumFunctionOnSet(g, (1..n) \cup {n + 1}) = g[n + 1] + SumFunctionOnSet(g, 1..n)
  BY <1>1, <1>3, SumAdd
<1>5. SumFunctionOnSet(f, 1..n) = SumFunctionOnSet(g, 1..n)
  BY <1>2, <1>3, SumSame
<1>6. line.quantity \in Nat
  BY DEF CartItem
<1> QED  BY <1>2, <1>3, <1>4, <1>5, <1>6 DEF new

LEMMA LiveInDeleted ==
  ASSUME NEW list \in Seq(CartItem)
  PROVE  LiveIn(SoftDeleted(list)) = 0
<1>1. \A k \in DOMAIN SoftDeleted(list) : ~SoftDeleted(list)[k].live
  <2>1. \A k \in DOMAIN list : list[k] \in CartItem
    OBVIOUS
  <2> QED  BY <2>1 DEF SoftDeleted, CartItem
<1>2. {k \in DOMAIN SoftDeleted(list) : SoftDeleted(list)[k].live} = {}
  BY <1>1
<1> QED  BY <1>2, SumEmpty DEF LiveIn

\* The units of row k, and of no row if there is none.
Worth(u, i, k) == IF k \in DOMAIN rows[u][i] THEN Worths(rows[u][i])[k] ELSE 0

\* The change a request counts is that which its write will make.
PlanRight(h) ==
  LET r == request[h] IN
  r # Null /\ r.user \notin overlapped =>
    /\ r.op \in {"add", "update"} => r.quantity = Worth(r.user, r.item, r.row) + r.change
    /\ r.op = "remove" => r.change = -Worth(r.user, r.item, r.row)
    /\ r.op = "update" => rows[r.user][r.item][r.row].live

KeptFor(u) ==
  u \notin overlapped =>
    \A i \in Items : asked[u][i] = LiveIn(rows[u][i]) + OrderedUnits(u, i)

UnitsInv ==
  /\ LinesInv /\ CheckoutTypeOK
  /\ \A h \in Handlers : PlanRight(h)
  /\ \A u \in Users : KeptFor(u)

LEMMA OrderedUnitsInt ==
  ASSUME CheckoutTypeOK, NEW u, NEW i \in Items
  PROVE  OrderedUnits(u, i) \in Int /\ IsFiniteSet(OrdersOf(u))
<1>1. OrdersOf(u) \subseteq OrderIds
  BY DEF OrdersOf
<1>2. IsFiniteSet(OrdersOf(u))
  BY <1>1, CheckoutAssumption, FS_Subset
<1>3. \A o \in OrdersOf(u) : placed[o].units[i] \in Int
  <2> TAKE o \in OrdersOf(u)
  <2>1. placed[o] \in PlacedOrder
    BY DEF OrdersOf, CheckoutTypeOK
  <2> QED  BY <2>1 DEF PlacedOrder, Lines
<1>4. OrderedUnits(u, i) \in Int
  BY <1>2, <1>3, SumInt DEF OrderedUnits
<1> QED  BY <1>2, <1>4

LEMMA UnitsInit == CheckoutInit => UnitsInv
<1> SUFFICES ASSUME CheckoutInit PROVE UnitsInv
  OBVIOUS
<1>1. \A u \in Users, i \in Items : asked[u][i] = 0 /\ rows[u][i] = << >> /\ OrdersOf(u) = {}
  BY DEF CheckoutInit, CartsInit, NoUnits, OrdersOf
<1>2. LiveIn(<< >>) = 0
  <2>1. {k \in DOMAIN << >> : << >>[k].live} = {}
    OBVIOUS
  <2> QED  BY <2>1, SumEmpty DEF LiveIn
<1>3. \A u \in Users, i \in Items : OrderedUnits(u, i) = 0
  BY <1>1, SumEmpty DEF OrderedUnits
<1>4. \A u \in Users : KeptFor(u)
  BY <1>1, <1>2, <1>3 DEF KeptFor
<1>5. \A h \in Handlers : PlanRight(h)
  BY DEF CheckoutInit, CartsInit, PlanRight
<1> QED  BY <1>4, <1>5, LinesInit, CheckoutTypeInit DEF UnitsInv

\* A step of the request of h, of customer u, on that customer's cart and orders.
LEMMA UnitsKeptBeside ==
  ASSUME UnitsInv, LinesInv', CheckoutTypeOK', NEW h \in Handlers, NEW u \in Users,
         overlapped \subseteq overlapped', Alone(h, u),
         \A g \in Handlers \ {h} : request'[g] = request[g],
         \A v \in Users \ {u} : rows'[v] = rows[v] /\ asked'[v] = asked[v],
         \A v \in Users \ {u} : OrdersOf(v)' = OrdersOf(v)
                                /\ \A o \in OrdersOf(v) : placed'[o] = placed[o],
         PlanRight(h)', KeptFor(u)'
  PROVE  UnitsInv'
<1>1. ASSUME NEW g \in Handlers \ {h} PROVE PlanRight(g)'
  <2>1. PlanRight(g) /\ request'[g] = request[g]
    BY DEF UnitsInv
  <2> SUFFICES ASSUME request[g] # Null PROVE PlanRight(g)'
    BY <2>1 DEF PlanRight
  <2>2. request[g].user \in Users
    BY DEF UnitsInv, LinesInv, IInv, Shape
  <2>3. CASE request[g].user # u
    BY <2>1, <2>2, <2>3 DEF PlanRight, Worth
  <2>4. CASE request[g].user = u
    <3>1. u \in overlapped'
      BY <2>1, <2>4 DEF Alone
    <3> QED  BY <2>1, <2>4, <3>1 DEF PlanRight
  <2> QED  BY <2>3, <2>4
<1>2. ASSUME NEW v \in Users \ {u} PROVE KeptFor(v)'
  <2>1. \A i \in Items : OrderedUnits(v, i)' = OrderedUnits(v, i)
    <3> TAKE i \in Items
    <3>1. [o \in OrdersOf(v)' |-> placed'[o].units[i]] = [o \in OrdersOf(v) |-> placed[o].units[i]]
      OBVIOUS
    <3> QED  BY <3>1 DEF OrderedUnits
  <2> QED  BY <2>1 DEF UnitsInv, KeptFor
<1> QED  BY <1>1, <1>2 DEF UnitsInv

\* A step that changes no cart and no order.
LEMMA UnitsSame ==
  ASSUME UnitsInv, LinesInv', CheckoutTypeOK', NEW h \in Handlers,
         overlapped \subseteq overlapped', UNCHANGED <<rows, asked, placed>>,
         \A g \in Handlers \ {h} : request'[g] = request[g], PlanRight(h)'
  PROVE  UnitsInv'
<1>1. \A u \in Users : KeptFor(u)'
  BY DEF UnitsInv, KeptFor, OrderedUnits, OrdersOf
<1>2. \A g \in Handlers \ {h} : PlanRight(g)'
  BY DEF UnitsInv, PlanRight, Worth
<1> QED  BY <1>1, <1>2 DEF UnitsInv

\* A write of one row, whose units change by what the request counts.
LEMMA RowCounted ==
  ASSUME UnitsInv, LinesInv', CheckoutTypeOK', NEW h \in Handlers, NEW u \in Users, NEW i \in Items,
         NEW change \in Int, request[h] # Null, request[h].user = u, overlapped' = overlapped,
         \A g \in Handlers \ {h} : request'[g] = request[g],
         \A v \in Users \ {u} : rows'[v] = rows[v],
         \A j \in Items \ {i} : rows'[u][j] = rows[u][j],
         u \notin overlapped => LiveIn(rows'[u][i]) = LiveIn(rows[u][i]) + change,
         AsksOf(u, i, change), placed' = placed, PlanRight(h)'
  PROVE  UnitsInv'
<1>1. /\ \A v \in Users \ {u} : asked'[v] = asked[v]
      /\ u \notin overlapped => \A j \in Items :
           asked'[u][j] = asked[u][j] + (IF j = i THEN change ELSE 0)
  BY DEF UnitsInv, CheckoutTypeOK, CartsTypeOK, AsksOf, Asks
<1>2. \A v \in Users : OrdersOf(v)' = OrdersOf(v)
  BY DEF OrdersOf
<1>3. KeptFor(u)'
  <2> SUFFICES ASSUME u \notin overlapped, NEW j \in Items
               PROVE  asked'[u][j] = LiveIn(rows'[u][j]) + OrderedUnits(u, j)'
    BY DEF KeptFor
  <2>1. OrderedUnits(u, j)' = OrderedUnits(u, j)
    BY <1>2 DEF OrderedUnits
  <2>2. asked[u][j] = LiveIn(rows[u][j]) + OrderedUnits(u, j)
    BY DEF UnitsInv, KeptFor
  <2>3. OrderedUnits(u, j) \in Int /\ LiveIn(rows[u][j]) \in Int
    <3>1. rows[u][j] \in Seq(CartItem)
      BY DEF UnitsInv, LinesInv
    <3> QED  BY <3>1, LiveInSum, OrderedUnitsInt DEF UnitsInv
  <2>4. LiveIn(rows'[u][j]) = LiveIn(rows[u][j]) + (IF j = i THEN change ELSE 0)
    BY <2>3
  <2> QED  BY <1>1, <2>1, <2>2, <2>3, <2>4
<1>4. Alone(h, u)
  BY OwnerAlone DEF UnitsInv, LinesInv
<1> QED  BY <1>1, <1>2, <1>3, <1>4, UnitsKeptBeside

LEMMA WriteLineUnits ==
  ASSUME UnitsInv, LinesInv', CheckoutTypeOK', NEW h \in Handlers, WriteLine(h), placed' = placed
  PROVE  UnitsInv'
<1> PICK u, i, k, q, c, t, list, line :
      /\ u = request[h].user /\ i = request[h].item /\ k = request[h].row
      /\ q = request[h].quantity /\ c = request[h].change /\ t = request[h].todo
      /\ list = rows[u][i] /\ line = [quantity |-> q, live |-> TRUE]
  OBVIOUS
<1>1. /\ request[h] # Null /\ request[h].op = "add" /\ AsksOf(u, i, c)
      /\ rows' = [rows EXCEPT ![u] = [rows[u] EXCEPT ![i] =
                     IF k = 0 THEN Append(list, line) ELSE [list EXCEPT ![k] = line]]]
      /\ overlapped' = overlapped
      /\ request' = [request EXCEPT ![h] =
                        IF t = NoUnits THEN [op |-> "view", user |-> u]
                        ELSE [op |-> "adding", user |-> u, todo |-> t]]
  BY DEF WriteLine, InOp, Continue
<1>2. /\ u \in Users /\ i \in Items /\ c \in Int /\ q \in Nat \ {0}
      /\ k = 0 \/ k \in DOMAIN list
  BY <1>1, RequestFields DEF UnitsInv, CheckoutTypeOK, LinesInv, FoundRight
<1>3. list \in Seq(CartItem) /\ line \in CartItem /\ DOMAIN request = Handlers
  BY <1>2 DEF UnitsInv, LinesInv, IInv, Shape, CartItem
<1>4. /\ \A v \in Users \ {u} : rows'[v] = rows[v]
      /\ \A j \in Items \ {i} : rows'[u][j] = rows[u][j]
      /\ rows'[u][i] = IF k = 0 THEN Append(list, line) ELSE [list EXCEPT ![k] = line]
  <2> PICK written, new :
        /\ written = IF k = 0 THEN Append(list, line) ELSE [list EXCEPT ![k] = line]
        /\ new = [rows[u] EXCEPT ![i] = written]
    OBVIOUS
  <2>1. rows' = [rows EXCEPT ![u] = new]
    BY <1>1
  <2>2. DOMAIN rows = Users /\ DOMAIN rows[u] = Items
    BY <1>2 DEF UnitsInv, LinesInv
  <2>3. rows'[u] = new /\ \A v \in Users \ {u} : rows'[v] = rows[v]
    BY <1>2, <2>1, <2>2
  <2>4. new[i] = written /\ \A j \in Items \ {i} : new[j] = rows[u][j]
    BY <1>2, <2>2
  <2> QED  BY <2>3, <2>4
<1>5. ASSUME u \notin overlapped PROVE LiveIn(rows'[u][i]) = LiveIn(list) + c
  <2>1. q = Worth(u, i, k) + c /\ LiveIn(list) \in Int
    BY <1>1, <1>3, <1>5, LiveInSum DEF UnitsInv, PlanRight
  <2>2. line.live /\ line.quantity = q
    OBVIOUS
  <2>3. CASE k = 0
    <3>1. k \notin DOMAIN list
      BY <1>3, <2>3
    <3>2. q = c
      BY <1>2, <2>1, <3>1 DEF Worth
    <3> QED  BY <1>3, <1>4, <2>2, <2>3, <3>2, LiveInAppended
  <2>4. CASE k # 0
    <3>1. k \in DOMAIN list
      BY <1>2, <2>4
    <3>2. LiveIn([list EXCEPT ![k] = line]) = LiveIn(list) - Worths(list)[k] + q
      BY <1>3, <2>2, <3>1, LiveInRewritten
    <3>3. q = Worths(list)[k] + c /\ Worths(list)[k] \in Int
      BY <1>3, <2>1, <3>1, LiveInSum DEF Worth
    <3> DEFINE w == Worths(list)[k]
               before == LiveIn(list)
    <3>4. before - w + (w + c) = before + c
      <4>1. before \in Int /\ w \in Int /\ c \in Int
        BY <1>2, <2>1, <3>3
      <4> HIDE DEF before, w
      <4> QED  BY ONLY <4>1
    <3> QED  BY <1>4, <2>4, <3>2, <3>3, <3>4
  <2> QED  BY <2>3, <2>4
<1>6. \A g \in Handlers \ {h} : request'[g] = request[g]
  BY <1>1, <1>3
<1>7. PlanRight(h)'
  BY <1>1, <1>3 DEF PlanRight
<1>8. request[h].user = u /\ u \notin overlapped => LiveIn(rows'[u][i]) = LiveIn(rows[u][i]) + c
  BY <1>5
<1>9. request[h] # Null /\ AsksOf(u, i, c) /\ overlapped' = overlapped
  BY <1>1
<1> HIDE DEF AsksOf
<1> QED  BY <1>2, <1>4, <1>6, <1>7, <1>8, <1>9, RowCounted

LEMMA WriteRowUnits ==
  ASSUME UnitsInv, LinesInv', CheckoutTypeOK', NEW h \in Handlers,
         WriteUpdate(h) \/ WriteRemove(h), placed' = placed
  PROVE  UnitsInv'
<1> PICK u, i, k, q, c, list, w :
      /\ u = request[h].user /\ i = request[h].item /\ k = request[h].row
      /\ q = request[h].quantity /\ c = request[h].change
      /\ list = rows[u][i] /\ w = Worths(list)[k]
  OBVIOUS
<1>1. /\ request[h] # Null /\ AsksOf(u, i, c) /\ overlapped' = overlapped
      /\ request' = [request EXCEPT ![h] = [op |-> "view", user |-> u]]
  BY DEF WriteUpdate, WriteRemove, InOp, Continue
<1>2. /\ u \in Users /\ i \in Items /\ c \in Int /\ k \in DOMAIN list
      /\ WriteUpdate(h) => q \in Nat \ {0}
  BY <1>1, RequestFields
     DEF UnitsInv, CheckoutTypeOK, LinesInv, FoundRight, WriteUpdate, WriteRemove, InOp
<1>3. list \in Seq(CartItem) /\ list[k] \in CartItem /\ DOMAIN request = Handlers
      /\ rows \in [Users -> [Items -> Seq(CartItem)]]
  BY <1>2 DEF UnitsInv, LinesInv, IInv, Shape
<1>4. w \in Int /\ LiveIn(list) \in Int /\ w = IF list[k].live THEN list[k].quantity ELSE 0
  <2>1. w = IF list[k].live THEN list[k].quantity ELSE 0
    BY <1>2 DEF Worths
  <2>2. LiveIn(list) \in Int
    BY <1>3, LiveInSum
  <2> QED  BY <1>3, <2>1, <2>2 DEF CartItem
<1>5. PICK line \in CartItem :
        /\ rows' = [rows EXCEPT ![u] = [rows[u] EXCEPT ![i] = [list EXCEPT ![k] = line]]]
        /\ u \notin overlapped => (IF line.live THEN line.quantity ELSE 0) = w + c
  <2>1. CASE WriteUpdate(h)
    <3> DEFINE line == [list[k] EXCEPT !.quantity = q]
    <3>1. line \in CartItem /\ line.live = list[k].live /\ line.quantity = q
      BY <1>2, <1>3, <2>1 DEF CartItem
    <3>2. rows' = [rows EXCEPT ![u] = [rows[u] EXCEPT ![i] = [list EXCEPT ![k] = line]]]
      BY <2>1 DEF WriteUpdate
    <3>3. u \notin overlapped => list[k].live /\ q = w + c
      BY <1>1, <1>2, <2>1 DEF UnitsInv, PlanRight, Worth, WriteUpdate, InOp
    <3> QED  BY <3>1, <3>2, <3>3
  <2>2. CASE WriteRemove(h)
    <3> DEFINE line == [list[k] EXCEPT !.live = FALSE]
    <3>1. line \in CartItem /\ line.live = FALSE
      BY <1>3 DEF CartItem
    <3>2. rows' = [rows EXCEPT ![u] = [rows[u] EXCEPT ![i] = [list EXCEPT ![k] = line]]]
      BY <2>2 DEF WriteRemove
    <3>3. u \notin overlapped => c = -w
      BY <1>1, <1>2, <2>2 DEF UnitsInv, PlanRight, Worth, WriteRemove, InOp
    <3>4. c = -w => w + c = 0
      BY <1>4
    <3> QED  BY <3>1, <3>2, <3>3, <3>4
  <2> QED  BY <2>1, <2>2
<1>6. /\ \A v \in Users \ {u} : rows'[v] = rows[v]
      /\ \A j \in Items \ {i} : rows'[u][j] = rows[u][j]
      /\ rows'[u][i] = [list EXCEPT ![k] = line]
  <2> PICK written, new :
        /\ written = [list EXCEPT ![k] = line]
        /\ new = [rows[u] EXCEPT ![i] = written]
    OBVIOUS
  <2>1. rows' = [rows EXCEPT ![u] = new]
    BY <1>5
  <2>2. DOMAIN rows = Users /\ DOMAIN rows[u] = Items
    BY <1>2 DEF UnitsInv, LinesInv
  <2>3. rows'[u] = new /\ \A v \in Users \ {u} : rows'[v] = rows[v]
    BY <1>2, <2>1, <2>2
  <2>4. new[i] = written /\ \A j \in Items \ {i} : new[j] = rows[u][j]
    BY <1>2, <2>2
  <2> QED  BY <2>3, <2>4
<1>7. ASSUME u \notin overlapped PROVE LiveIn(rows'[u][i]) = LiveIn(list) + c
  <2> DEFINE before == LiveIn(list)
             worth == IF line.live THEN line.quantity ELSE 0
  <2>1. LiveIn(rows'[u][i]) = before - w + worth
    BY <1>2, <1>3, <1>6, LiveInRewritten
  <2>2. worth = w + c /\ before \in Int
    BY <1>4, <1>5, <1>7
  <2> HIDE DEF before, worth
  <2>3. before - w + (w + c) = before + c
    BY ONLY <1>2, <1>4, <2>2
  <2> QED  BY <2>1, <2>2, <2>3 DEF before
<1>8. PlanRight(h)' /\ \A g \in Handlers \ {h} : request'[g] = request[g]
  BY <1>1, <1>3 DEF PlanRight
<1> QED  BY <1>1, <1>2, <1>6, <1>7, <1>8, RowCounted

\* All rows of a customer are removed.
LEMMA ClearedRows ==
  ASSUME LinesInv, NEW u \in Users,
         rows' = [rows EXCEPT ![u] = [i \in Items |-> SoftDeleted(rows[u][i])]]
  PROVE  /\ \A v \in Users \ {u} : rows'[v] = rows[v]
         /\ \A i \in Items : LiveIn(rows'[u][i]) = 0 /\ LiveIn(rows[u][i]) \in Nat
<1>1. rows \in [Users -> [Items -> Seq(CartItem)]]
  BY DEF LinesInv
<1>2. \A i \in Items : rows[u][i] \in Seq(CartItem) /\ rows'[u][i] = SoftDeleted(rows[u][i])
  BY <1>1
<1>3. \A i \in Items : LiveIn(rows'[u][i]) = 0 /\ LiveIn(rows[u][i]) \in Nat
  BY <1>2, LiveInDeleted, LiveInSum
<1> QED  BY <1>1, <1>3

LEMMA ClearCartUnits ==
  ASSUME UnitsInv, LinesInv', CheckoutTypeOK', NEW h \in Handlers, NEW u \in Users,
         ClearCart(h, u), placed' = placed
  PROVE  UnitsInv'
<1>1. /\ request'[h] = [op |-> "view", user |-> u]
      /\ \A g \in Handlers \ {h} : request'[g] = request[g]
      /\ overlapped \subseteq overlapped' /\ Alone(h, u)
      /\ rows' = [rows EXCEPT ![u] = [i \in Items |-> SoftDeleted(rows[u][i])]]
  BY DEF ClearCart, Begin, Alone, UnitsInv, LinesInv, IInv, Shape
<1>2. /\ \A v \in Users \ {u} : rows'[v] = rows[v]
      /\ \A i \in Items : LiveIn(rows'[u][i]) = 0 /\ LiveIn(rows[u][i]) \in Nat
  BY <1>1, ClearedRows DEF UnitsInv
<1>3. /\ \A v \in Users \ {u} : asked'[v] = asked[v]
      /\ u \notin overlapped => \A i \in Items : asked'[u][i] = asked[u][i] + -LiveIn(rows[u][i])
  BY DEF UnitsInv, CheckoutTypeOK, CartsTypeOK, ClearCart, Asks, LiveUnits
<1>4. \A v \in Users : OrdersOf(v)' = OrdersOf(v)
  BY DEF OrdersOf
<1>5. KeptFor(u)'
  <2> SUFFICES ASSUME u \notin overlapped, NEW i \in Items
               PROVE  asked'[u][i] = LiveIn(rows'[u][i]) + OrderedUnits(u, i)'
    BY <1>1 DEF KeptFor
  <2>1. OrderedUnits(u, i)' = OrderedUnits(u, i) /\ OrderedUnits(u, i) \in Int
    BY <1>4, OrderedUnitsInt DEF OrderedUnits, UnitsInv
  <2>2. asked[u][i] = LiveIn(rows[u][i]) + OrderedUnits(u, i)
    BY DEF UnitsInv, KeptFor
  <2> QED  BY <1>2, <1>3, <2>1, <2>2
<1>6. PlanRight(h)'
  BY <1>1 DEF PlanRight
<1> QED  BY <1>1, <1>2, <1>3, <1>4, <1>5, <1>6, UnitsKeptBeside

\* The order takes over what the cart held, which is what the view showed.
LEMMA CommitOrderUnits ==
  ASSUME UnitsInv, LinesInv', CheckoutTypeOK', NEW h \in Handlers, NEW o \in OrderIds,
         CommitOrder(h, o)
  PROVE  UnitsInv'
<1> PICK u, n, p :
      /\ u = request[h].user /\ n = request[h].units
      /\ p = [user |-> u, units |-> n, type |-> request[h].type,
              feeFor |-> request[h].feeFor, code |-> request[h].code]
  OBVIOUS
<1>1. /\ request[h] # Null /\ request[h].op = "checked" /\ placed[o] = Null
      /\ request' = [request EXCEPT ![h] = Null] /\ overlapped' = overlapped
      /\ rows' = [rows EXCEPT ![u] = [i \in Items |-> SoftDeleted(rows[u][i])]]
      /\ placed' = [placed EXCEPT ![o] = p] /\ asked' = asked
  BY DEF CommitOrder, InOp, Continue
<1>2. /\ u \in Users /\ n \in Lines /\ DOMAIN request = Handlers
      /\ placed \in [OrderIds -> PlacedOrder \cup {Null}]
  BY <1>1, RequestFields DEF UnitsInv, CheckoutTypeOK
<1>3. p \in PlacedOrder /\ p # Null
  BY <1>1, <1>2, RequestFields, CheckoutAssumption DEF UnitsInv, CheckoutTypeOK, PlacedOrder
<1>4. /\ placed'[o] = p /\ p.user = u /\ p.units = n
      /\ \A q \in OrderIds \ {o} : placed'[q] = placed[q]
  BY <1>1, <1>2
<1>5. /\ OrdersOf(u)' = OrdersOf(u) \cup {o} /\ o \notin OrdersOf(u)
      /\ \A v \in Users \ {u} : OrdersOf(v)' = OrdersOf(v) /\ o \notin OrdersOf(v)
  BY <1>1, <1>3, <1>4 DEF OrdersOf
<1>6. /\ \A v \in Users \ {u} : rows'[v] = rows[v]
      /\ \A i \in Items : LiveIn(rows'[u][i]) = 0 /\ LiveIn(rows[u][i]) \in Nat
  BY <1>1, <1>2, ClearedRows DEF UnitsInv
<1>7. KeptFor(u)'
  <2> SUFFICES ASSUME u \notin overlapped, NEW i \in Items
               PROVE  asked'[u][i] = LiveIn(rows'[u][i]) + OrderedUnits(u, i)'
    BY <1>1 DEF KeptFor
  <2>1. n[i] = LiveIn(rows[u][i])
    <3>1. request[h].user = u
      OBVIOUS
    <3>2. ViewCurrent
      BY DEF UnitsInv, LinesInv, IInv
    <3>3. request[h].units = LiveUnits(u)
      BY <1>1, <3>1, <3>2 DEF ViewCurrent
    <3>4. n = [j \in Items |-> LiveIn(rows[u][j])]
      BY <3>3 DEF LiveUnits
    <3> QED  BY <3>4
  <2>2. asked[u][i] = LiveIn(rows[u][i]) + OrderedUnits(u, i)
    BY <1>2 DEF UnitsInv, KeptFor
  <2>3. OrderedUnits(u, i)' = n[i] + OrderedUnits(u, i) /\ OrderedUnits(u, i) \in Int
    <3> DEFINE S == OrdersOf(u)
               f == [q \in S |-> placed[q].units[i]]
               g == [q \in S \cup {o} |-> placed'[q].units[i]]
    <3>1. OrderedUnits(u, i) = SumFunctionOnSet(f, S) /\ OrderedUnits(u, i) \in Int /\ IsFiniteSet(S)
      BY OrderedUnitsInt DEF OrderedUnits, UnitsInv
    <3>2. OrderedUnits(u, i)' = SumFunctionOnSet(g, S \cup {o})
      BY <1>5 DEF OrderedUnits
    <3>3. g[o] = n[i] /\ \A q \in S : f[q] = g[q]
      <4>1. \A q \in S : q \in OrderIds \ {o}
        BY <1>5 DEF OrdersOf
      <4> QED  BY <1>4, <4>1
    <3>4. \A q \in S \cup {o} : g[q] \in Int
      <4>1. \A q \in S : placed[q] \in PlacedOrder
        BY <1>2 DEF OrdersOf
      <4>2. \A q \in S : placed[q].units[i] \in Nat
        BY <4>1 DEF PlacedOrder, Lines
      <4>3. n[i] \in Nat
        BY <1>2 DEF Lines
      <4> QED  BY <3>3, <4>2, <4>3
    <3>5. o \notin S
      BY <1>5
    <3> HIDE DEF f, g, S
    <3>6. SumFunctionOnSet(g, S \cup {o}) = g[o] + SumFunctionOnSet(g, S)
      BY <3>1, <3>4, <3>5, SumAdd
    <3>7. SumFunctionOnSet(f, S) = SumFunctionOnSet(g, S)
      BY <3>1, <3>3, SumSame
    <3> QED  BY <3>1, <3>2, <3>3, <3>6, <3>7
  <2> QED  BY <1>1, <1>6, <2>1, <2>2, <2>3
<1>8. /\ PlanRight(h)' /\ Alone(h, u)
      /\ \A g \in Handlers \ {h} : request'[g] = request[g]
  BY <1>1, <1>2, OwnerAlone DEF PlanRight, UnitsInv, LinesInv
<1>9. \A v \in Users \ {u} : \A q \in OrdersOf(v) : placed'[q] = placed[q]
  BY <1>4, <1>5 DEF OrdersOf
<1> QED  BY <1>1, <1>2, <1>5, <1>6, <1>7, <1>8, <1>9, UnitsKeptBeside

LEMMA UnitsNext == UnitsInv /\ [CheckoutNext]_checkoutVars => UnitsInv'
<1> SUFFICES ASSUME UnitsInv, LinesInv', CheckoutTypeOK', [CheckoutNext]_checkoutVars
             PROVE  UnitsInv'
  BY LinesNext, CheckoutTypeNext DEF UnitsInv
<1>1. DOMAIN request = Handlers
  BY DEF UnitsInv, CheckoutTypeOK
\* Most steps change no row, and plan no change of one.
<1>2. ASSUME NEW h \in Handlers, NEW r, UNCHANGED <<rows, asked, placed>>,
             Begin(h, r) \/ Continue(h, r),
             r # Null => r.op \in {"adding", "applyCoupon", "view", "place", "viewed", "checked"}
      PROVE  UnitsInv'
  <2>1. /\ request'[h] = r /\ \A g \in Handlers \ {h} : request'[g] = request[g]
        /\ overlapped \subseteq overlapped'
    BY <1>1, <1>2 DEF Begin, Continue
  <2>2. PlanRight(h)'
    BY <1>2, <2>1 DEF PlanRight
  <2> QED  BY <1>2, <2>1, <2>2, UnitsSame
<1>3. ASSUME NEW h \in Handlers, FindLine(h), placed' = placed
      PROVE  UnitsInv'
  <2> PICK i, k, q, s, u, t :
        /\ i \in Items /\ u = request[h].user /\ s = request[h].todo[i]
        /\ k \in IF rows[u][i] = << >> THEN {0} ELSE DOMAIN rows[u][i]
        /\ q = s + IF k = 0 \/ ~rows[u][i][k].live THEN 0 ELSE rows[u][i][k].quantity
        /\ Continue(h, [op |-> "add", user |-> u, item |-> i, row |-> k,
                        quantity |-> q, change |-> s, todo |-> t])
    BY <1>3 DEF FindLine
  <2> DEFINE r == [op |-> "add", user |-> u, item |-> i, row |-> k,
                   quantity |-> q, change |-> s, todo |-> t]
  <2>1. /\ request[h] # Null /\ request[h].op = "adding" /\ UNCHANGED <<rows, asked>>
        /\ request'[h] = r /\ \A g \in Handlers \ {h} : request'[g] = request[g]
        /\ overlapped' = overlapped
    BY <1>1, <1>3 DEF FindLine, InOp, Continue
  <2>2. u \in Users /\ s \in Nat
    BY <2>1, RequestFields DEF UnitsInv, CheckoutTypeOK, Lines
  <2>3. rows[u][i] \in Seq(CartItem)
    BY <2>2 DEF UnitsInv, LinesInv
  <2>4. q = Worth(u, i, k) + s
    <3>1. CASE rows[u][i] = << >>
      <4>1. k = 0 /\ k \notin DOMAIN rows[u][i]
        BY <3>1
      <4> QED  BY <2>2, <4>1 DEF Worth
    <3>2. CASE rows[u][i] # << >>
      <4>1. k \in DOMAIN rows[u][i] /\ k # 0 /\ rows[u][i][k] \in CartItem
        BY <2>3, <3>2
      <4>2. Worth(u, i, k) = IF rows[u][i][k].live THEN rows[u][i][k].quantity ELSE 0
        BY <4>1 DEF Worth, Worths
      <4>3. rows[u][i][k].quantity \in Nat
        BY <4>1 DEF CartItem
      <4> QED  BY <2>2, <4>1, <4>2, <4>3
    <3> QED  BY <3>1, <3>2
  <2>5. /\ r.op = "add" /\ r.user = u /\ r.item = i /\ r.row = k /\ r.quantity = q /\ r.change = s
    OBVIOUS
  <2> HIDE DEF r
  <2>6. PlanRight(h)'
    BY <2>1, <2>4, <2>5 DEF PlanRight, Worth
  <2> QED  BY <1>3, <2>1, <2>6, UnitsSame
<1>4. ASSUME NEW h \in Handlers, NEW u \in Users, NEW i \in Items, NEW k \in DOMAIN rows[u][i],
             (\E q \in Quantities : BeginUpdate(h, u, i, k, q)) \/ BeginRemove(h, u, i, k),
             placed' = placed
      PROVE  UnitsInv'
  <2> DEFINE w == rows[u][i][k].quantity
  <2>1. rows[u][i] \in Seq(CartItem)
    BY DEF UnitsInv, LinesInv
  <2>2. rows[u][i][k] \in CartItem
    BY <2>1
  <2>3. w \in Nat
    BY <2>2 DEF CartItem
  <2>4. rows[u][i][k].live /\ UNCHANGED <<rows, asked>>
    BY <1>4 DEF BeginUpdate, BeginRemove
  <2>5. Worth(u, i, k) = w
    BY <2>4 DEF Worth, Worths
  <2> HIDE DEF w
  <2>6. PICK r : /\ Begin(h, r) /\ r.user = u /\ r.item = i /\ r.row = k
                 /\ \/ r.op = "update" /\ r.quantity \in Quantities /\ r.change = r.quantity - w
                    \/ r.op = "remove" /\ r.change = -w
    <3>1. CASE BeginRemove(h, u, i, k)
      <4> DEFINE r == [op |-> "remove", user |-> u, item |-> i, row |-> k, change |-> -w]
      <4>1. Begin(h, r) /\ r.user = u /\ r.item = i /\ r.row = k /\ r.op = "remove" /\ r.change = -w
        BY <3>1 DEF BeginRemove, w
      <4> QED  BY <4>1
    <3>2. CASE \E q \in Quantities : BeginUpdate(h, u, i, k, q)
      <4>1. PICK q \in Quantities : BeginUpdate(h, u, i, k, q)
        BY <3>2
      <4> DEFINE r == [op |-> "update", user |-> u, item |-> i, row |-> k, quantity |-> q,
                       change |-> q - w]
      <4>2. /\ Begin(h, r) /\ r.user = u /\ r.item = i /\ r.row = k
            /\ r.op = "update" /\ r.quantity \in Quantities /\ r.change = r.quantity - w
        BY <4>1 DEF BeginUpdate, w
      <4> QED  BY <4>2
    <3> QED  BY <1>4, <3>1, <3>2
  <2>7. /\ request'[h] = r /\ \A g \in Handlers \ {h} : request'[g] = request[g]
        /\ overlapped \subseteq overlapped'
    BY <1>1, <2>6 DEF Begin
  <2>8. r.op = "update" => r.quantity = w + r.change
    BY <2>3, <2>6, CartAssumption
  <2>9. PlanRight(h)'
    BY <2>4, <2>5, <2>6, <2>7, <2>8 DEF PlanRight, Worth
  <2> QED  BY <1>4, <2>4, <2>7, <2>9, UnitsSame
<1>5. ASSUME NEW h \in Handlers, NEW u \in Users, placed' = placed,
             \/ RemoveCoupon(h, u) \/ BeginView(h, u)
             \/ \E type \in FulfilmentType : SetFulfilmentType(h, u, type)
             \/ \E c \in Coupons : BeginApplyCoupon(h, u, c)
             \/ \E lines \in Additions : BeginAdd(h, u, lines)
      PROVE  UnitsInv'
  BY <1>2, <1>5 DEF RemoveCoupon, BeginView, SetFulfilmentType, BeginApplyCoupon, BeginAdd
<1>6. ASSUME NEW h \in Handlers, placed' = placed,
             WriteCoupon(h) \/ ViewCart(h) \/ AbortRequest(h)
      PROVE  UnitsInv'
  BY <1>2, <1>6 DEF WriteCoupon, ViewCart, AbortRequest
<1>7. ASSUME NEW h \in Handlers,
             \/ \E u \in Users, type \in FulfilmentType : BeginPlace(h, u, type)
             \/ ReadCartView(h)
      PROVE  UnitsInv'
  BY <1>2, <1>7 DEF BeginPlace, ReadCartView, BesideStock
<1>8. ASSUME NEW h \in Handlers, CheckCart(h)
      PROVE  UnitsInv'
  <2> DEFINE r == [op |-> "checked", user |-> request[h].user, type |-> request[h].type,
                   units |-> request[h].units, feeFor |-> request[h].feeFor,
                   code |-> request[h].code]
  <2>1. UNCHANGED <<rows, asked, placed>> /\ Continue(h, r)
    BY <1>8, CheckCartEffect DEF CheckCart, BesideStock, Continue, UnitsInv, LinesInv, IInv
  <2>2. r.op = "checked"
    OBVIOUS
  <2> HIDE DEF r
  <2> QED  BY <1>2, <2>1, <2>2
<1>9. CASE CartStep /\ BesideStock
  <2>1. placed' = placed
    BY <1>9 DEF BesideStock
  <2> QED  BY <1>3, <1>4, <1>5, <1>6, <1>9, <2>1, WriteLineUnits, WriteRowUnits, ClearCartUnits
              DEF CartStep
<1>10. ASSUME UNCHANGED <<cartVars, placed>>
       PROVE  UnitsInv'
  BY <1>10 DEF UnitsInv, PlanRight, Worth, KeptFor, OrderedUnits, OrdersOf, cartVars
<1> QED
  BY <1>7, <1>8, <1>9, <1>10, CommitOrderUnits DEF CheckoutNext, checkoutVars

\* What a customer whose requests do not overlap has put in the cart and not
\* taken out is in the cart or in an order: the checkout, which reads, checks
\* and writes the cart in statements of their own, loses nothing and orders
\* nothing twice.
THEOREM UnitsAlwaysKept == CheckoutSpec => []UnitsKept
<1>1. UnitsInv => UnitsKept
  BY LiveUnitsTyped DEF UnitsInv, KeptFor, UnitsKept
<1> QED  BY <1>1, UnitsInit, UnitsNext, PTL DEF CheckoutSpec

\* The types of the whole state, which the tables of requests and orders share.
THEOREM CheckoutTypeCorrect == CheckoutSpec => []CheckoutTypeOK
BY LinesInit, LinesNext, CheckoutTypeInit, CheckoutTypeNext, PTL DEF CheckoutSpec
=============================================================================
