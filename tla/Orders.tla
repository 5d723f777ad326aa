-------------------------------- MODULE Orders --------------------------------
(***************************************************************************)
(* OrdersService over InventoryService: the life of an order and what each *)
(* step of it does to the stock rows.                                      *)
(*                                                                         *)
(* A handler first reads the order outside any transaction and decides on  *)
(* what it read; its transaction then locks the stock rows, but neither    *)
(* locks nor re-reads the order.  So a handler is two steps here: Begin...,*)
(* which keeps what was read in request, and Commit..., the transaction.   *)
(* Between the two any other handler may run on the same order.            *)
(*                                                                         *)
(* A request a handler refuses on what it read changes nothing and is not  *)
(* a step.  The role check of adminCancel is of that kind.                 *)
(***************************************************************************)
EXTENDS Inventory, FiniteSets, Functions

CONSTANTS
  Handlers,   \* requests on orders that can be in flight at once
  Baskets,    \* the lines an order may be placed with
  OrderTypes, \* the fulfilment types an order may be placed with
  MaxHistory  \* bound: no request on an order with that many history rows

ASSUME PlacementAssumption ==
  /\ Baskets \subseteq Lines
  /\ OrderTypes \subseteq FulfilmentType
  /\ MaxHistory \in Nat

VARIABLES
  status,       \* Order.status; "NONE" before the order is placed
  fulfilment,   \* Order.fulfilmentType
  orderLines,   \* OrderItem rows: units per stock row
  history,      \* OrderStatusHistory rows, oldest first
  request,      \* what the handlers in flight read and mean to do
  contested     \* history variable: orders two handlers have had in flight at once

orderVars == <<status, fulfilment, orderLines, history>>
vars == <<quantity, reserved, ledger, setting, reservations, deductions,
          status, fulfilment, orderLines, history, request, contested>>

OrderStatus == {"PENDING", "CONFIRMED", "PREPARING", "READY", "OUT_FOR_DELIVERY",
                "COMPLETED", "CANCELLED"}
DELIVERY_FLOW == <<"PENDING", "CONFIRMED", "PREPARING", "READY", "OUT_FOR_DELIVERY",
                   "COMPLETED">>
PICKUP_FLOW == <<"PENDING", "CONFIRMED", "PREPARING", "READY", "COMPLETED">>
OPERATIONAL_TARGETS == {"CONFIRMED", "PREPARING", "READY", "OUT_FOR_DELIVERY", "COMPLETED"}

\* The statuses adminCancel puts the goods back from.
RestorableStatuses == {"CONFIRMED", "PREPARING", "READY", "OUT_FOR_DELIVERY"}

\* One step along the flow of the fulfilment type; a skip or a step back throws.
AssertForwardTransition(type, from, to) ==
  LET flow == IF type = "DELIVERY" THEN DELIVERY_FLOW ELSE PICKUP_FLOW IN
  \E k \in 1..Len(flow) - 1 : flow[k] = from /\ flow[k + 1] = to

HistoryRow == [fromStatus : OrderStatus \cup {Null}, toStatus : OrderStatus]

Request == [op : {"cancelMine", "updateStatus", "adminCancel"}, order : OrderIds,
            seen : OrderStatus, target : OrderStatus]

\* What the sums of the properties need: the orders are finitely many.
ASSUME OrdersAssumption == IsFiniteSet(OrderIds)

ASSUME RequestAssumption == Null \notin Request /\ Null \notin OrderStatus

TypeOK ==
  /\ InventoryTypeOK
  /\ status \in [OrderIds -> OrderStatus \cup {"NONE"}]
  /\ fulfilment \in [OrderIds -> FulfilmentType]
  /\ orderLines \in [OrderIds -> Lines]
  /\ history \in [OrderIds -> Seq(HistoryRow)]
  /\ request \in [Handlers -> Request \cup {Null}]
  /\ contested \subseteq OrderIds

Init ==
  /\ InventoryInit
  /\ status = [o \in OrderIds |-> "NONE"]
  /\ fulfilment = [o \in OrderIds |-> "DELIVERY"]
  /\ orderLines = [o \in OrderIds |-> [i \in Items |-> 0]]
  /\ history = [o \in OrderIds |-> <<>>]
  /\ request = [h \in Handlers |-> Null]
  /\ contested = {}

-----------------------------------------------------------------------------
(* Placing an order: the row, its items and first history row, and the     *)
(* reservation, in one transaction.  Where the lines come from (the cart   *)
(* and the coupon, which the same transaction settles) is not modelled     *)
(* here: any basket may arrive.                                            *)

PlaceOrder(o, type, basket) ==
  /\ status[o] = "NONE"
  /\ ReserveForOrder(o, basket)
  /\ status' = [status EXCEPT ![o] = "PENDING"]
  /\ fulfilment' = [fulfilment EXCEPT ![o] = type]
  /\ orderLines' = [orderLines EXCEPT ![o] = basket]
  /\ history' = [history EXCEPT ![o] = <<[fromStatus |-> Null, toStatus |-> "PENDING"]>>]
  /\ UNCHANGED <<setting, request, contested>>

-----------------------------------------------------------------------------
(* The reads.  Each handler goes on only if the order it read allows it.   *)

InFlight(o) == {h \in Handlers : request[h] # Null /\ request[h].order = o}

BeginRequest(h, op, o, target) ==
  /\ request[h] = Null
  /\ Len(history[o]) < MaxHistory
  /\ request' = [request EXCEPT ![h] = [op |-> op, order |-> o, seen |-> status[o],
                                        target |-> target]]
  /\ contested' = IF InFlight(o) = {} THEN contested ELSE contested \cup {o}
  /\ UNCHANGED <<inventoryVars, orderVars>>

\* Faulty: lets a customer cancel an order that is under way.
BeginCancelUnderWay(h, o) ==
  /\ status[o] \notin {"NONE", "CANCELLED", "COMPLETED"}
  /\ BeginRequest(h, "cancelMine", o, "CANCELLED")

BeginCancelMine(h, o) ==
  /\ status[o] = "PENDING"
  /\ BeginRequest(h, "cancelMine", o, "CANCELLED")

\* Faulty: takes any target.
BeginUpdateUnchecked(h, o, target) ==
  BeginRequest(h, "updateStatus", o, target)

BeginUpdateStatus(h, o, target) ==
  /\ AssertForwardTransition(fulfilment[o], status[o], target)
  /\ BeginRequest(h, "updateStatus", o, target)

\* Faulty: cancels a pending order too, as if its goods had been taken.
BeginAdminCancelPending(h, o) ==
  /\ status[o] \notin {"NONE", "CANCELLED", "COMPLETED"}
  /\ BeginRequest(h, "adminCancel", o, "CANCELLED")

BeginAdminCancel(h, o) ==
  /\ status[o] \notin {"NONE", "PENDING", "CANCELLED", "COMPLETED"}
  /\ BeginRequest(h, "adminCancel", o, "CANCELLED")

-----------------------------------------------------------------------------
(* The transactions.  The order row is written whatever it holds by now,   *)
(* and the history row records the status that was read.                   *)

\* Faulty: records the status it has just written as the one it came from.
WriteStatusFromTarget(h) ==
  LET r == request[h] IN
  /\ status' = [status EXCEPT ![r.order] = r.target]
  /\ history' = [history EXCEPT ![r.order] =
                   Append(@, [fromStatus |-> r.target, toStatus |-> r.target])]
  /\ request' = [request EXCEPT ![h] = Null]
  /\ UNCHANGED <<fulfilment, orderLines, setting, contested>>

WriteStatus(h) ==
  LET r == request[h] IN
  /\ status' = [status EXCEPT ![r.order] = r.target]
  /\ history' = [history EXCEPT ![r.order] =
                   Append(@, [fromStatus |-> r.seen, toStatus |-> r.target])]
  /\ request' = [request EXCEPT ![h] = Null]
  /\ UNCHANGED <<fulfilment, orderLines, setting, contested>>

CommitCancelMine(h) ==
  /\ request[h] # Null /\ request[h].op = "cancelMine"
  /\ LET o == request[h].order IN ReleaseReservation(o, orderLines[o])
  /\ WriteStatus(h)

\* PENDING to CONFIRMED turns the reservation into a deduction.
CommitConfirm(h) ==
  /\ request[h] # Null /\ request[h].op = "updateStatus"
  /\ request[h].seen = "PENDING" /\ request[h].target = "CONFIRMED"
  /\ LET o == request[h].order IN ConfirmReservation(o, orderLines[o])
  /\ WriteStatus(h)

\* Every later step of the flow only writes the status.
CommitAdvance(h) ==
  /\ request[h] # Null /\ request[h].op = "updateStatus"
  /\ ~(request[h].seen = "PENDING" /\ request[h].target = "CONFIRMED")
  /\ WriteStatus(h)
  /\ UNCHANGED stockVars

\* The goods are put back if the status that was read is a restorable one.
CommitAdminCancel(h) ==
  /\ request[h] # Null /\ request[h].op = "adminCancel"
  /\ LET o == request[h].order IN
       IF request[h].seen \in RestorableStatuses
       THEN RestoreOnCancelAfterConfirm(o, orderLines[o])
       ELSE UNCHANGED stockVars
  /\ WriteStatus(h)

\* A transaction rolls back: 'Reserved stock mismatch', a timeout, a deadlock
\* victim, or the process dies.  Nothing of it stays.
AbortRequest(h) ==
  /\ request[h] # Null
  /\ request' = [request EXCEPT ![h] = Null]
  /\ UNCHANGED <<inventoryVars, orderVars, contested>>

OrdersUnchanged == UNCHANGED <<orderVars, request, contested>>

Next ==
  \/ \E o \in OrderIds, type \in OrderTypes, basket \in Baskets :
       PlaceOrder(o, type, basket)
  \/ \E h \in Handlers, o \in OrderIds : BeginCancelMine(h, o)
  \/ \E h \in Handlers, o \in OrderIds, t \in OPERATIONAL_TARGETS : BeginUpdateStatus(h, o, t)
  \/ \E h \in Handlers, o \in OrderIds : BeginAdminCancel(h, o)
  \/ \E h \in Handlers : CommitCancelMine(h)
  \/ \E h \in Handlers : CommitConfirm(h)
  \/ \E h \in Handlers : CommitAdvance(h)
  \/ \E h \in Handlers : CommitAdminCancel(h)
  \/ \E h \in Handlers : AbortRequest(h)
  \/ \E i \in Items, d \in ManualDeltas : AdjustManual(i, d) /\ OrdersUnchanged
  \/ \E a \in Admins, i \in Items, q \in ExactQuantities :
       SetQuantityRead(a, i, q) /\ OrdersUnchanged
  \/ \E a \in Admins : SetQuantityApply(a) /\ OrdersUnchanged
  \/ \E a \in Admins : SetQuantityAbort(a) /\ OrdersUnchanged

Spec == Init /\ [][Next]_vars

-----------------------------------------------------------------------------
(* Properties that hold however requests interleave.  "Uncontested" is the *)
(* strongest form of them the code supports: see the README.               *)

\* An order no two of whose requests overlapped holds exactly the stock its
\* status says, whatever happens to the other orders that share its stock rows:
\* one reservation while PENDING, one deduction from CONFIRMED to COMPLETED,
\* nothing once CANCELLED.
UncontestedSettled ==
  \A o \in OrderIds \ contested :
    /\ reservations[o] = IF status[o] = "PENDING" THEN 1 ELSE 0
    /\ deductions[o] = IF status[o] \in OPERATIONAL_TARGETS THEN 1 ELSE 0

\* A request the read of its handler let through.
ReadAllowed(r) ==
  /\ status[r.order] # "NONE"
  /\ r.op = "cancelMine" => r.seen = "PENDING" /\ r.target = "CANCELLED"
  /\ r.op = "updateStatus" => AssertForwardTransition(fulfilment[r.order], r.seen, r.target)
  /\ r.op = "adminCancel" => r.seen \in RestorableStatuses /\ r.target = "CANCELLED"

\* A request in flight is one its read let through, and on an uncontested order
\* it is the only one and what it read still holds.
RequestsCurrent ==
  \A h \in Handlers : request[h] # Null =>
    /\ ReadAllowed(request[h])
    /\ request[h].order \notin contested =>
         /\ request[h].seen = status[request[h].order]
         /\ \A g \in Handlers :
              request[g] # Null /\ request[g].order = request[h].order => g = h

\* UncontestedSettled with what it rests on, preserved by every step.
IInv == RequestsCurrent /\ UncontestedSettled

\* The status history of such an order reads as one path: it starts from
\* nothing, every row starts where the one before ended, and it ends at the
\* order's status.
UncontestedHistory ==
  \A o \in OrderIds \ contested : status[o] # "NONE" =>
    /\ history[o][1].fromStatus = Null
    /\ \A k \in 2..Len(history[o]) : history[o][k].fromStatus = history[o][k - 1].toStatus
    /\ history[o][Len(history[o])].toStatus = status[o]

\* The units of row i that some orders ask for, and what the accounts of all
\* orders come to.
UnitsOf(i, orders) == SumFunctionOnSet([o \in OrderIds |-> orderLines[o][i]], orders)
UnitsReserved(i) ==
  SumFunctionOnSet([o \in OrderIds |-> reservations[o] * orderLines[o][i]], OrderIds)
UnitsTaken(i) ==
  SumFunctionOnSet([o \in OrderIds |-> deductions[o] * orderLines[o][i]], OrderIds)

\* What the movements that are no order's come to.
ManualUnits(i) ==
  SumFunctionOnSet([k \in DOMAIN ledger[i] |-> ledger[i][k].quantityChange],
                   {k \in DOMAIN ledger[i] : ledger[i][k].order = Null})

\* Whatever races have done to an order, every unit reserved on a row and every
\* unit missing from it is down to some order's account or a manual movement.
StockAttributed ==
  \A i \in Items :
    /\ reserved[i] = UnitsReserved(i)
    /\ quantity[i] + UnitsTaken(i) = InitialQuantity[i] + ManualUnits(i)

\* Stock is conserved while no two requests overlap on any order: what is
\* reserved is what the pending orders ask for, and what is missing from the
\* shelf is what the accepted orders took, manual corrections counted.
StockConserved ==
  contested = {} => \A i \in Items :
    /\ reserved[i] = UnitsOf(i, {o \in OrderIds : status[o] = "PENDING"})
    /\ quantity[i] + UnitsOf(i, {o \in OrderIds : status[o] \in OPERATIONAL_TARGETS})
         = InitialQuantity[i] + ManualUnits(i)

\* A step of an order's life: placed, one step forward, or cancelled from a
\* status it can be cancelled from.  COMPLETED and CANCELLED are the end.
AllowedStep(o) ==
  \/ status[o] = "NONE" /\ status'[o] = "PENDING"
  \/ AssertForwardTransition(fulfilment[o], status[o], status'[o])
  \/ status[o] \in {"PENDING"} \cup RestorableStatuses /\ status'[o] = "CANCELLED"

\* An uncontested order only ever takes allowed steps, although no transaction
\* looks at the order it writes.
UncontestedForward ==
  [][\A o \in OrderIds \ contested : status'[o] # status[o] => AllowedStep(o)]_vars

-----------------------------------------------------------------------------
(* What the code's own messages and tests say of every order, and two      *)
(* overlapping requests refute.                                            *)

\* "Only pending orders can be cancelled" by the customer.
OnlyPendingCancelled ==
  [][\A h \in Handlers : CommitCancelMine(h) => status[request[h].order] = "PENDING"]_vars
=============================================================================
