----------------------------- MODULE OrdersProofs -----------------------------
(***************************************************************************)
(* What holds of Orders for every number of stock rows, orders, handlers   *)
(* and admins, every basket and every bound.                               *)
(***************************************************************************)
EXTENDS Orders, Sums

-----------------------------------------------------------------------------
(* Types.                                                                  *)

\* A movement row for every line keeps the ledger a sequence of movements.
LEMMA RecordMovementsType ==
  ASSUME InventoryTypeOK, NEW type \in MovementType, NEW o \in OrderIds,
         NEW change \in [Items -> Int], RecordMovements(type, o, change)
  PROVE  ledger' \in [Items -> Seq(Movement)]
<1>1. \A i \in Items : [type |-> type, quantityChange |-> change[i],
                        quantityAfter |-> quantity[i] + change[i],
                        order |-> o, note |-> Null] \in Movement
  BY DEF InventoryTypeOK, Movement
<1>2. QED
  BY <1>1 DEF InventoryTypeOK, RecordMovements

\* What is put down to an order changes its accounts and no other order's.
LEMMA AccountChanges ==
  ASSUME InventoryTypeOK, NEW o \in OrderIds, NEW r \in Int, NEW d \in Int, Account(o, r, d)
  PROVE  /\ reservations' \in [OrderIds -> Int] /\ deductions' \in [OrderIds -> Int]
         /\ reservations'[o] = reservations[o] + r
         /\ deductions'[o] = deductions[o] + d
         /\ \A p \in OrderIds \ {o} :
              reservations'[p] = reservations[p] /\ deductions'[p] = deductions[p]
BY DEF InventoryTypeOK, Account

\* A manual correction keeps the types of the stock row and its ledger.
LEMMA ApplyDeltaType ==
  ASSUME InventoryTypeOK, NEW i \in Items, NEW delta \in Int,
         NEW note \in Nat \cup {Null}, ApplyDelta(i, delta, note)
  PROVE  /\ quantity' \in [Items -> Int]
         /\ reserved' \in [Items -> Int]
         /\ ledger' \in [Items -> Seq(Movement)]
         /\ reservations' \in [OrderIds -> Int] /\ deductions' \in [OrderIds -> Int]
<1>1. [type |-> IF delta > 0 THEN "MANUAL_IN" ELSE "MANUAL_OUT",
       quantityChange |-> delta, quantityAfter |-> quantity[i] + delta,
       order |-> Null, note |-> note] \in Movement
  BY DEF InventoryTypeOK, Movement, MovementType
<1>2. QED
  BY <1>1 DEF InventoryTypeOK, ApplyDelta, accountVars

\* The request a handler keeps, and its release, keep the types.
LEMMA BeginRequestType ==
  ASSUME TypeOK, NEW h \in Handlers, NEW o \in OrderIds,
         NEW op \in {"cancelMine", "updateStatus", "adminCancel"}, NEW target \in OrderStatus,
         status[o] # "NONE", BeginRequest(h, op, o, target)
  PROVE  TypeOK'
<1>1. [op |-> op, order |-> o, seen |-> status[o], target |-> target] \in Request
  BY DEF TypeOK, Request
<1>2. QED
  BY <1>1 DEF TypeOK, InventoryTypeOK, BeginRequest, inventoryVars, orderVars

LEMMA WriteStatusType ==
  ASSUME TypeOK, NEW h \in Handlers, request[h] # Null, WriteStatus(h)
  PROVE  /\ status' \in [OrderIds -> OrderStatus \cup {"NONE"}]
         /\ fulfilment' \in [OrderIds -> FulfilmentType]
         /\ orderLines' \in [OrderIds -> Lines]
         /\ history' \in [OrderIds -> Seq(HistoryRow)]
         /\ request' \in [Handlers -> Request \cup {Null}]
         /\ contested' \subseteq OrderIds
         /\ setting' = setting
<1>1. request[h] \in Request
  BY DEF TypeOK
<1>2. [fromStatus |-> request[h].seen, toStatus |-> request[h].target] \in HistoryRow
  BY <1>1 DEF Request, HistoryRow
<1>3. QED
  BY <1>1, <1>2 DEF TypeOK, WriteStatus, Request

LEMMA TypeInit == Init => TypeOK
BY StockAssumption
   DEF Init, InventoryInit, TypeOK, InventoryTypeOK, Lines, FulfilmentType, Movement, HistoryRow

LEMMA TypeNext == TypeOK /\ [Next]_vars => TypeOK'
<1> SUFFICES ASSUME TypeOK, [Next]_vars PROVE TypeOK'
  OBVIOUS
<1>1. ASSUME NEW o \in OrderIds, NEW type \in OrderTypes, NEW basket \in Baskets,
             PlaceOrder(o, type, basket)
      PROVE  TypeOK'
  <2>1. [fromStatus |-> Null, toStatus |-> "PENDING"] \in HistoryRow
    BY DEF HistoryRow, OrderStatus
  <2>2. basket \in [Items -> Nat] /\ type \in FulfilmentType
    BY PlacementAssumption DEF Lines
  <2>3. /\ reserved' \in [Items -> Int]
        /\ history' \in [OrderIds -> Seq(HistoryRow)]
    BY <1>1, <2>1, <2>2 DEF TypeOK, InventoryTypeOK, PlaceOrder, ReserveForOrder
  <2>4. reservations' \in [OrderIds -> Int] /\ deductions' \in [OrderIds -> Int]
    BY <1>1, AccountChanges DEF TypeOK, PlaceOrder, ReserveForOrder
  <2>5. QED
    BY <1>1, <2>2, <2>3, <2>4
       DEF TypeOK, InventoryTypeOK, PlaceOrder, ReserveForOrder, OrderStatus, Lines
<1>2. ASSUME NEW h \in Handlers, NEW o \in OrderIds, BeginCancelMine(h, o)
      PROVE  TypeOK'
  BY <1>2, BeginRequestType DEF BeginCancelMine, OrderStatus
<1>3. ASSUME NEW h \in Handlers, NEW o \in OrderIds, NEW t \in OPERATIONAL_TARGETS,
             BeginUpdateStatus(h, o, t)
      PROVE  TypeOK'
  <2>1. status[o] # "NONE"
    BY <1>3 DEF BeginUpdateStatus, AssertForwardTransition, DELIVERY_FLOW, PICKUP_FLOW
  <2>2. t \in OrderStatus
    BY DEF OPERATIONAL_TARGETS, OrderStatus
  <2>3. QED
    BY <1>3, <2>1, <2>2, BeginRequestType DEF BeginUpdateStatus
<1>4. ASSUME NEW h \in Handlers, NEW o \in OrderIds, BeginAdminCancel(h, o)
      PROVE  TypeOK'
  BY <1>4, BeginRequestType DEF BeginAdminCancel, OrderStatus
<1>5. ASSUME NEW h \in Handlers, CommitCancelMine(h)
      PROVE  TypeOK'
  <2>1. request[h].order \in OrderIds /\ orderLines[request[h].order] \in [Items -> Nat]
    BY <1>5 DEF TypeOK, CommitCancelMine, Request, Lines
  <2>2. reserved' \in [Items -> Int]
    BY <1>5, <2>1 DEF TypeOK, InventoryTypeOK, CommitCancelMine, ReleaseReservation
  <2>3. reservations' \in [OrderIds -> Int] /\ deductions' \in [OrderIds -> Int]
    BY <1>5, <2>1, AccountChanges DEF TypeOK, CommitCancelMine, ReleaseReservation
  <2>4. QED
    BY <1>5, <2>2, <2>3, WriteStatusType
       DEF TypeOK, InventoryTypeOK, CommitCancelMine, ReleaseReservation
<1>6. ASSUME NEW h \in Handlers, CommitConfirm(h)
      PROVE  TypeOK'
  <2> DEFINE n == orderLines[request[h].order]
             taken == [i \in Items |-> -n[i]]
  <2>1. request[h] \in Request /\ n \in [Items -> Nat] /\ request[h].order \in OrderIds
    BY <1>6 DEF TypeOK, CommitConfirm, Request, Lines
  <2>2. taken \in [Items -> Int]
    BY <2>1
  <2>3. ledger' \in [Items -> Seq(Movement)]
    BY <1>6, <2>1, <2>2, RecordMovementsType
       DEF TypeOK, CommitConfirm, ConfirmReservation, MovementType
  <2>4. quantity' \in [Items -> Int] /\ reserved' \in [Items -> Int]
    BY <1>6, <2>1 DEF TypeOK, InventoryTypeOK, CommitConfirm, ConfirmReservation
  <2>5. reservations' \in [OrderIds -> Int] /\ deductions' \in [OrderIds -> Int]
    BY <1>6, <2>1, AccountChanges DEF TypeOK, CommitConfirm, ConfirmReservation
  <2>6. QED
    BY <1>6, <2>3, <2>4, <2>5, WriteStatusType DEF TypeOK, InventoryTypeOK, CommitConfirm
<1>7. ASSUME NEW h \in Handlers, CommitAdvance(h)
      PROVE  TypeOK'
  BY <1>7, WriteStatusType DEF TypeOK, InventoryTypeOK, CommitAdvance, stockVars
<1>8. ASSUME NEW h \in Handlers, CommitAdminCancel(h)
      PROVE  TypeOK'
  <2> DEFINE n == orderLines[request[h].order]
  <2>1. request[h] \in Request /\ n \in [Items -> Nat] /\ request[h].order \in OrderIds
    BY <1>8 DEF TypeOK, CommitAdminCancel, Request, Lines
  <2>2. n \in [Items -> Int]
    BY <2>1
  <2>3. CASE RestoreOnCancelAfterConfirm(request[h].order, n)
    <3>1. ledger' \in [Items -> Seq(Movement)]
      BY <2>1, <2>2, <2>3, RecordMovementsType
         DEF TypeOK, RestoreOnCancelAfterConfirm, MovementType
    <3>2. quantity' \in [Items -> Int]
      BY <2>1, <2>3 DEF TypeOK, InventoryTypeOK, RestoreOnCancelAfterConfirm
    <3>3. reservations' \in [OrderIds -> Int] /\ deductions' \in [OrderIds -> Int]
      BY <2>1, <2>3, AccountChanges DEF TypeOK, RestoreOnCancelAfterConfirm
    <3>4. QED
      BY <1>8, <2>3, <3>1, <3>2, <3>3, WriteStatusType
         DEF TypeOK, InventoryTypeOK, CommitAdminCancel, RestoreOnCancelAfterConfirm
  <2>4. CASE UNCHANGED stockVars
    BY <1>8, <2>4, WriteStatusType DEF TypeOK, InventoryTypeOK, CommitAdminCancel, stockVars
  <2>5. QED
    BY <1>8, <2>3, <2>4 DEF CommitAdminCancel
<1>9. ASSUME NEW h \in Handlers, AbortRequest(h)
      PROVE  TypeOK'
  BY <1>9 DEF TypeOK, InventoryTypeOK, AbortRequest, inventoryVars, orderVars
<1>10. ASSUME OrdersUnchanged, InventoryTypeOK'
       PROVE  TypeOK'
  BY <1>10 DEF TypeOK, OrdersUnchanged, orderVars
<1>11. ASSUME NEW i \in Items, NEW d \in ManualDeltas, AdjustManual(i, d)
       PROVE  InventoryTypeOK'
  <2>1. d \in Int
    BY StockAssumption
  <2>2. QED
    BY <1>11, <2>1, ApplyDeltaType DEF TypeOK, InventoryTypeOK, AdjustManual
<1>12. ASSUME NEW a \in Admins, NEW i \in Items, NEW q \in ExactQuantities,
              SetQuantityRead(a, i, q)
       PROVE  InventoryTypeOK'
  <2>1. [item |-> i, delta |-> q - quantity[i], wanted |-> q] \in SetRequest
    BY <1>12, StockAssumption DEF TypeOK, InventoryTypeOK, SetQuantityRead, SetRequest
  <2>2. QED
    BY <1>12, <2>1 DEF TypeOK, InventoryTypeOK, SetQuantityRead, stockVars
<1>13. ASSUME NEW a \in Admins, SetQuantityApply(a)
       PROVE  InventoryTypeOK'
  <2>1. setting[a] \in SetRequest
    BY <1>13 DEF TypeOK, InventoryTypeOK, SetQuantityApply
  <2>2. /\ setting[a].item \in Items /\ setting[a].delta \in Int
        /\ setting[a].wanted \in Nat \cup {Null}
    BY <2>1 DEF SetRequest
  <2>3. QED
    BY <1>13, <2>2, ApplyDeltaType DEF TypeOK, InventoryTypeOK, SetQuantityApply
<1>14. ASSUME NEW a \in Admins, SetQuantityAbort(a)
       PROVE  InventoryTypeOK'
  BY <1>14 DEF TypeOK, InventoryTypeOK, SetQuantityAbort, stockVars
<1>15. CASE UNCHANGED vars
  BY <1>15 DEF TypeOK, InventoryTypeOK, vars
<1>16. QED
  BY <1>1, <1>2, <1>3, <1>4, <1>5, <1>6, <1>7, <1>8, <1>9, <1>10, <1>11, <1>12, <1>13,
     <1>14, <1>15 DEF Next

\* The model's state always has the types the schema gives it.
THEOREM TypeCorrect == Spec => []TypeOK
BY TypeInit, TypeNext, PTL DEF Spec

-----------------------------------------------------------------------------
(* Stock bounds.                                                           *)

LEMMA StockBoundsInit == Init => StockBounds
<1> SUFFICES ASSUME Init, NEW i \in Items PROVE 0 <= reserved[i] /\ reserved[i] <= quantity[i]
  BY DEF StockBounds
<1>1. quantity = InitialQuantity /\ reserved = [j \in Items |-> 0]
  BY DEF Init, InventoryInit
<1>2. InitialQuantity[i] \in Nat
  BY StockAssumption
<1>3. QED
  BY <1>1, <1>2

\* A corrected row still covers what it promises; the others are untouched.
LEMMA ApplyDeltaBounds ==
  ASSUME InventoryTypeOK, StockBounds, NEW i \in Items, NEW delta \in Int,
         NEW note, ApplyDelta(i, delta, note)
  PROVE  StockBounds'
<1> SUFFICES ASSUME NEW j \in Items PROVE 0 <= reserved'[j] /\ reserved'[j] <= quantity'[j]
  BY DEF StockBounds
<1>1. quantity[j] \in Int /\ reserved[j] \in Int /\ 0 <= reserved[j] /\ reserved[j] <= quantity[j]
  BY DEF InventoryTypeOK, StockBounds
<1>2. reserved'[j] = reserved[j]
  BY DEF ApplyDelta
<1>3. CASE j = i
  <2>1. quantity'[j] = quantity[i] + delta /\ quantity[i] + delta >= reserved[i]
    BY <1>3 DEF ApplyDelta, InventoryTypeOK
  <2>2. QED
    BY <1>1, <1>2, <1>3, <2>1
<1>4. CASE j # i
  <2>1. quantity'[j] = quantity[j]
    BY <1>4 DEF ApplyDelta, InventoryTypeOK
  <2>2. QED
    BY <1>1, <1>2, <2>1
<1>5. QED
  BY <1>3, <1>4

\* A reservation fits in what was available.
LEMMA ReserveBounds ==
  ASSUME InventoryTypeOK, StockBounds, NEW o, NEW n \in [Items -> Nat], ReserveForOrder(o, n)
  PROVE  StockBounds'
<1> SUFFICES ASSUME NEW i \in Items PROVE 0 <= reserved'[i] /\ reserved'[i] <= quantity'[i]
  BY DEF StockBounds
<1>1. quantity[i] \in Int /\ reserved[i] \in Int /\ n[i] \in Nat
  BY DEF InventoryTypeOK
<1>2. 0 <= reserved[i] /\ reserved[i] <= quantity[i]
  BY DEF StockBounds
<1>3. reserved'[i] = reserved[i] + n[i] /\ quantity'[i] = quantity[i]
  BY DEF ReserveForOrder, Available
<1>4. n[i] <= quantity[i] - reserved[i]
  BY <1>1, <1>2 DEF ReserveForOrder, Available
<1>5. QED
  BY <1>1, <1>2, <1>3, <1>4

\* A release gives back no more than is reserved.
LEMMA ReleaseBounds ==
  ASSUME InventoryTypeOK, StockBounds, NEW o, NEW n \in [Items -> Nat], ReleaseReservation(o, n)
  PROVE  StockBounds'
<1> SUFFICES ASSUME NEW i \in Items PROVE 0 <= reserved'[i] /\ reserved'[i] <= quantity'[i]
  BY DEF StockBounds
<1>1. quantity[i] \in Int /\ reserved[i] \in Int /\ n[i] \in Nat
  BY DEF InventoryTypeOK
<1>2. 0 <= reserved[i] /\ reserved[i] <= quantity[i]
  BY DEF StockBounds
<1>3. reserved'[i] = reserved[i] - n[i] /\ quantity'[i] = quantity[i]
  BY DEF ReleaseReservation
<1>4. n[i] <= reserved[i]
  BY <1>1, <1>2 DEF ReleaseReservation
<1>5. QED
  BY <1>1, <1>2, <1>3, <1>4

\* A confirmation takes as many units from the shelf as from the reservation.
LEMMA ConfirmBounds ==
  ASSUME InventoryTypeOK, StockBounds, NEW o, NEW n \in [Items -> Nat], ConfirmReservation(o, n)
  PROVE  StockBounds'
<1> SUFFICES ASSUME NEW i \in Items PROVE 0 <= reserved'[i] /\ reserved'[i] <= quantity'[i]
  BY DEF StockBounds
<1>1. quantity[i] \in Int /\ reserved[i] \in Int /\ n[i] \in Nat
  BY DEF InventoryTypeOK
<1>2. 0 <= reserved[i] /\ reserved[i] <= quantity[i]
  BY DEF StockBounds
<1>3. reserved'[i] = reserved[i] - n[i] /\ quantity'[i] = quantity[i] - n[i]
  BY DEF ConfirmReservation
<1>4. n[i] <= reserved[i]
  BY <1>1, <1>2 DEF ConfirmReservation
<1>5. QED
  BY <1>1, <1>2, <1>3, <1>4

\* A restore only adds units.
LEMMA RestoreBounds ==
  ASSUME InventoryTypeOK, StockBounds, NEW o, NEW n \in [Items -> Nat],
         RestoreOnCancelAfterConfirm(o, n)
  PROVE  StockBounds'
<1> SUFFICES ASSUME NEW i \in Items PROVE 0 <= reserved'[i] /\ reserved'[i] <= quantity'[i]
  BY DEF StockBounds
<1>1. quantity[i] \in Int /\ reserved[i] \in Int /\ n[i] \in Nat
  BY DEF InventoryTypeOK
<1>2. 0 <= reserved[i] /\ reserved[i] <= quantity[i]
  BY DEF StockBounds
<1>3. reserved'[i] = reserved[i] /\ quantity'[i] = quantity[i] + n[i]
  BY DEF RestoreOnCancelAfterConfirm
<1>4. n[i] >= 0
  BY <1>1, <1>2 DEF RestoreOnCancelAfterConfirm
<1>5. QED
  BY <1>1, <1>2, <1>3, <1>4

LEMMA StockBoundsNext == TypeOK /\ StockBounds /\ [Next]_vars => StockBounds'
<1> SUFFICES ASSUME TypeOK, StockBounds, [Next]_vars PROVE StockBounds'
  OBVIOUS
<1>1. ASSUME NEW o \in OrderIds, NEW type \in OrderTypes, NEW basket \in Baskets,
             PlaceOrder(o, type, basket)
      PROVE  StockBounds'
  <2>1. basket \in [Items -> Nat]
    BY PlacementAssumption DEF Lines
  <2>2. QED
    BY <1>1, <2>1, ReserveBounds DEF TypeOK, PlaceOrder
<1>2. ASSUME NEW h \in Handlers, NEW o \in OrderIds, NEW op, NEW target,
             BeginRequest(h, op, o, target)
      PROVE  StockBounds'
  BY <1>2 DEF StockBounds, BeginRequest, inventoryVars
<1>3. ASSUME NEW h \in Handlers, CommitCancelMine(h)
      PROVE  StockBounds'
  <2>1. orderLines[request[h].order] \in [Items -> Nat]
    BY <1>3 DEF TypeOK, CommitCancelMine, Request, Lines
  <2>2. QED
    BY <1>3, <2>1, ReleaseBounds DEF TypeOK, CommitCancelMine
<1>4. ASSUME NEW h \in Handlers, CommitConfirm(h)
      PROVE  StockBounds'
  <2>1. orderLines[request[h].order] \in [Items -> Nat]
    BY <1>4 DEF TypeOK, CommitConfirm, Request, Lines
  <2>2. QED
    BY <1>4, <2>1, ConfirmBounds DEF TypeOK, CommitConfirm
<1>5. ASSUME NEW h \in Handlers, CommitAdvance(h)
      PROVE  StockBounds'
  BY <1>5 DEF StockBounds, CommitAdvance, stockVars
<1>6. ASSUME NEW h \in Handlers, CommitAdminCancel(h)
      PROVE  StockBounds'
  <2>1. orderLines[request[h].order] \in [Items -> Nat]
    BY <1>6 DEF TypeOK, CommitAdminCancel, Request, Lines
  <2>2. QED
    BY <1>6, <2>1, RestoreBounds DEF TypeOK, CommitAdminCancel, StockBounds, stockVars
<1>7. ASSUME NEW h \in Handlers, AbortRequest(h)
      PROVE  StockBounds'
  BY <1>7 DEF StockBounds, AbortRequest, inventoryVars
<1>8. ASSUME NEW i \in Items, NEW d \in ManualDeltas, AdjustManual(i, d)
      PROVE  StockBounds'
  <2>1. d \in Int
    BY StockAssumption
  <2>2. QED
    BY <1>8, <2>1, ApplyDeltaBounds DEF TypeOK, AdjustManual
<1>9. ASSUME NEW a \in Admins, NEW i \in Items, NEW q \in ExactQuantities,
             SetQuantityRead(a, i, q)
      PROVE  StockBounds'
  BY <1>9 DEF StockBounds, SetQuantityRead, stockVars
<1>10. ASSUME NEW a \in Admins, SetQuantityApply(a)
       PROVE  StockBounds'
  <2>1. setting[a].item \in Items /\ setting[a].delta \in Int
    BY <1>10 DEF TypeOK, InventoryTypeOK, SetQuantityApply, SetRequest
  <2>2. QED
    BY <1>10, <2>1, ApplyDeltaBounds DEF TypeOK, SetQuantityApply
<1>11. ASSUME NEW a \in Admins, SetQuantityAbort(a)
       PROVE  StockBounds'
  BY <1>11 DEF StockBounds, SetQuantityAbort, stockVars
<1>12. CASE UNCHANGED vars
  BY <1>12 DEF StockBounds, vars
<1>13. QED
  BY <1>1, <1>2, <1>3, <1>4, <1>5, <1>6, <1>7, <1>8, <1>9, <1>10, <1>11, <1>12
     DEF Next, BeginCancelMine, BeginUpdateStatus, BeginAdminCancel

\* Under every interleaving of orders, cancellations and corrections no stock
\* row promises more than it holds.
THEOREM StockNeverOverpromised == Spec => []StockBounds
BY TypeCorrect, StockBoundsInit, StockBoundsNext, PTL DEF Spec

-----------------------------------------------------------------------------
(* Uncontested orders.                                                     *)

\* A forward step either confirms a pending order or goes on from a status the
\* goods are already taken in.
LEMMA ForwardSteps ==
  ASSUME NEW type, NEW from, NEW to, AssertForwardTransition(type, from, to)
  PROVE  \/ from = "PENDING" /\ to = "CONFIRMED"
         \/ from \in RestorableStatuses /\ to \in OPERATIONAL_TARGETS /\ to # "CONFIRMED"
BY DEF AssertForwardTransition, DELIVERY_FLOW, PICKUP_FLOW, RestorableStatuses,
       OPERATIONAL_TARGETS

\* A new request was let through by its read; a second one on an order makes
\* the order contested.
LEMMA BeginKeepsIInv ==
  ASSUME TypeOK, IInv, NEW h \in Handlers, NEW o \in OrderIds, NEW op, NEW target,
         BeginRequest(h, op, o, target),
         ReadAllowed([op |-> op, order |-> o, seen |-> status[o], target |-> target])
  PROVE  IInv'
<1> DEFINE r == [op |-> op, order |-> o, seen |-> status[o], target |-> target]
<1>1. /\ request' = [request EXCEPT ![h] = r]
      /\ request[h] = Null
      /\ contested' = IF InFlight(o) = {} THEN contested ELSE contested \cup {o}
      /\ status' = status /\ fulfilment' = fulfilment
      /\ reservations' = reservations /\ deductions' = deductions
  BY DEF BeginRequest, orderVars, inventoryVars
<1>2. UncontestedSettled'
  BY <1>1 DEF IInv, UncontestedSettled
<1>3. request'[h] = r /\ \A g \in Handlers : g # h => request'[g] = request[g]
  BY <1>1 DEF TypeOK
<1>4. ASSUME NEW g \in Handlers, request'[g] # Null
      PROVE  /\ ReadAllowed(request[g])'
             /\ request'[g].order \notin contested' =>
                  /\ request'[g].seen = status'[request'[g].order]
                  /\ \A f \in Handlers :
                       request'[f] # Null /\ request'[f].order = request'[g].order => f = g
  <2>1. CASE g = h
    <3>1. ReadAllowed(request[g])'
      BY <1>1, <1>3, <2>1 DEF ReadAllowed
    <3>2. ASSUME r.order \notin contested', NEW f \in Handlers, request'[f] # Null,
                 request'[f].order = o, f # h
          PROVE  FALSE
      <4>1. f \in InFlight(o)
        BY <1>3, <3>2 DEF InFlight
      <4>2. QED
        BY <1>1, <3>2, <4>1
    <3>3. QED
      BY <1>1, <1>3, <2>1, <3>1, <3>2
  <2>2. CASE g # h
    <3>1. request'[g] = request[g] /\ request[g] # Null
      BY <1>3, <1>4, <2>2
    <3>2. ReadAllowed(request[g])'
      BY <1>1, <3>1 DEF IInv, RequestsCurrent, ReadAllowed
    <3>3. request'[g].order # o \/ o \in contested'
      BY <1>1, <3>1 DEF InFlight
    <3>4. QED
      BY <1>1, <1>3, <3>1, <3>2, <3>3 DEF IInv, RequestsCurrent
  <2>3. QED
    BY <2>1, <2>2
<1>5. RequestsCurrent'
  BY <1>4 DEF RequestsCurrent
<1>6. QED
  BY <1>2, <1>5 DEF IInv

\* Writing an order's status ends the request; another request on the same
\* order means the order is contested, and the rest are on other orders.
LEMMA WriteKeepsRequests ==
  ASSUME TypeOK, IInv, NEW h \in Handlers, request[h] # Null, WriteStatus(h)
  PROVE  RequestsCurrent'
<1> DEFINE o == request[h].order
<1>1. o \in OrderIds /\ request[h].target \in OrderStatus
  BY DEF TypeOK, Request
<1>2. /\ request' = [request EXCEPT ![h] = Null]
      /\ status' = [status EXCEPT ![o] = request[h].target]
      /\ fulfilment' = fulfilment /\ contested' = contested
  BY DEF WriteStatus
<1>3. request'[h] = Null /\ \A g \in Handlers : g # h => request'[g] = request[g]
  BY <1>2 DEF TypeOK
<1>4. \A p \in OrderIds : p # o => status'[p] = status[p]
  BY <1>2 DEF TypeOK
<1>5. status'[o] # "NONE"
  BY <1>1, <1>2 DEF TypeOK, OrderStatus
<1>6. ASSUME NEW g \in Handlers, request'[g] # Null
      PROVE  /\ ReadAllowed(request[g])'
             /\ request'[g].order \notin contested' =>
                  /\ request'[g].seen = status'[request'[g].order]
                  /\ \A f \in Handlers :
                       request'[f] # Null /\ request'[f].order = request'[g].order => f = g
  <2>1. g # h /\ request'[g] = request[g] /\ request[g] # Null
    BY <1>3, <1>6
  <2>2. request[g].order \in OrderIds
    BY <2>1 DEF TypeOK, Request
  <2>3. ReadAllowed(request[g])'
    BY <1>2, <1>4, <1>5, <2>1, <2>2 DEF IInv, RequestsCurrent, ReadAllowed
  <2>4. request[g].order = o => o \in contested
    BY <2>1 DEF IInv, RequestsCurrent
  <2>5. QED
    BY <1>2, <1>3, <1>4, <2>1, <2>2, <2>3, <2>4 DEF IInv, RequestsCurrent
<1>7. QED
  BY <1>6 DEF RequestsCurrent

LEMMA IInvInit == Init => IInv
<1> SUFFICES ASSUME Init PROVE IInv
  OBVIOUS
<1>1. RequestsCurrent
  BY DEF Init, RequestsCurrent
<1>2. UncontestedSettled
  BY DEF Init, InventoryInit, UncontestedSettled, OPERATIONAL_TARGETS
<1>3. QED
  BY <1>1, <1>2 DEF IInv

LEMMA IInvNext == TypeOK /\ IInv /\ [Next]_vars => IInv'
<1> SUFFICES ASSUME TypeOK, IInv, [Next]_vars PROVE IInv'
  OBVIOUS
<1>1. ASSUME NEW o \in OrderIds, NEW type \in OrderTypes, NEW basket \in Baskets,
             PlaceOrder(o, type, basket)
      PROVE  IInv'
  <2>1. /\ status[o] = "NONE" /\ request' = request /\ contested' = contested
        /\ status' = [status EXCEPT ![o] = "PENDING"]
        /\ fulfilment' = [fulfilment EXCEPT ![o] = type]
        /\ Account(o, 1, 0)
    BY <1>1 DEF PlaceOrder, ReserveForOrder
  <2>2. \A h \in Handlers : request[h] # Null =>
           request[h].order \in OrderIds /\ request[h].order # o
    BY <2>1 DEF TypeOK, Request, IInv, RequestsCurrent, ReadAllowed
  <2>3. \A p \in OrderIds : p # o => status'[p] = status[p] /\ fulfilment'[p] = fulfilment[p]
                        /\ reservations'[p] = reservations[p] /\ deductions'[p] = deductions[p]
    BY <2>1 DEF TypeOK, InventoryTypeOK, Account
  <2>4. \A h \in Handlers : request[h] # Null => ReadAllowed(request[h])'
    BY <2>1, <2>2, <2>3 DEF IInv, RequestsCurrent, ReadAllowed
  <2>5. RequestsCurrent'
    BY <2>1, <2>2, <2>3, <2>4 DEF IInv, RequestsCurrent
  <2>6. status'[o] = "PENDING" /\ (o \notin contested => reservations'[o] = 1 /\ deductions'[o] = 0)
    <3>1. o \notin contested => reservations[o] = 0 /\ deductions[o] = 0
      BY <2>1 DEF IInv, UncontestedSettled, OPERATIONAL_TARGETS
    <3>2. reservations'[o] = reservations[o] + 1 /\ deductions'[o] = deductions[o] + 0
      BY <2>1 DEF TypeOK, InventoryTypeOK, Account
    <3>3. status'[o] = "PENDING"
      BY <2>1 DEF TypeOK
    <3>4. QED
      BY <3>1, <3>2, <3>3
  <2>7. UncontestedSettled'
    BY <2>1, <2>3, <2>6 DEF IInv, UncontestedSettled, OPERATIONAL_TARGETS
  <2>8. QED
    BY <2>5, <2>7 DEF IInv
<1>2. ASSUME NEW h \in Handlers, NEW o \in OrderIds, BeginCancelMine(h, o)
      PROVE  IInv'
  <2>1. ReadAllowed([op |-> "cancelMine", order |-> o, seen |-> status[o],
                     target |-> "CANCELLED"])
    BY <1>2 DEF BeginCancelMine, ReadAllowed
  <2>2. QED
    BY <1>2, <2>1, BeginKeepsIInv DEF BeginCancelMine
<1>3. ASSUME NEW h \in Handlers, NEW o \in OrderIds, NEW t \in OPERATIONAL_TARGETS,
             BeginUpdateStatus(h, o, t)
      PROVE  IInv'
  <2>1. status[o] # "NONE"
    BY <1>3, ForwardSteps DEF BeginUpdateStatus, RestorableStatuses
  <2>2. ReadAllowed([op |-> "updateStatus", order |-> o, seen |-> status[o], target |-> t])
    BY <1>3, <2>1 DEF BeginUpdateStatus, ReadAllowed
  <2>3. QED
    BY <1>3, <2>2, BeginKeepsIInv DEF BeginUpdateStatus
<1>4. ASSUME NEW h \in Handlers, NEW o \in OrderIds, BeginAdminCancel(h, o)
      PROVE  IInv'
  <2>1. status[o] \in RestorableStatuses
    BY <1>4 DEF BeginAdminCancel, TypeOK, OrderStatus, RestorableStatuses
  <2>2. ReadAllowed([op |-> "adminCancel", order |-> o, seen |-> status[o],
                     target |-> "CANCELLED"])
    BY <1>4, <2>1 DEF BeginAdminCancel, ReadAllowed
  <2>3. QED
    BY <1>4, <2>2, BeginKeepsIInv DEF BeginAdminCancel
\* A commit: what it does to the order's accounts matches the status it leaves.
<1>5. ASSUME NEW h \in Handlers, request[h] # Null, WriteStatus(h),
             request[h].order \notin contested =>
               /\ reservations'[request[h].order] =
                    IF request[h].target = "PENDING" THEN 1 ELSE 0
               /\ deductions'[request[h].order] =
                    IF request[h].target \in OPERATIONAL_TARGETS THEN 1 ELSE 0,
             \A p \in OrderIds \ {request[h].order} :
               reservations'[p] = reservations[p] /\ deductions'[p] = deductions[p]
      PROVE  IInv'
  <2>1. contested' = contested /\ \A p \in OrderIds :
          status'[p] = IF p = request[h].order THEN request[h].target ELSE status[p]
    BY <1>5 DEF WriteStatus, TypeOK
  <2>2. UncontestedSettled'
    BY <1>5, <2>1 DEF IInv, UncontestedSettled
  <2>3. QED
    BY <1>5, <2>2, WriteKeepsRequests DEF IInv
\* What a request in flight on an uncontested order knows of its accounts.
<1>6. ASSUME NEW h \in Handlers, request[h] # Null
      PROVE  /\ ReadAllowed(request[h])
             /\ request[h].order \in OrderIds
             /\ request[h].op \in {"cancelMine", "updateStatus", "adminCancel"}
             /\ request[h].order \notin contested =>
                  /\ reservations[request[h].order] =
                       IF request[h].seen = "PENDING" THEN 1 ELSE 0
                  /\ deductions[request[h].order] =
                       IF request[h].seen \in OPERATIONAL_TARGETS THEN 1 ELSE 0
  BY <1>6 DEF TypeOK, Request, IInv, RequestsCurrent, UncontestedSettled
<1>7. ASSUME NEW h \in Handlers, CommitCancelMine(h)
      PROVE  IInv'
  <2>1. request[h] # Null /\ WriteStatus(h) /\ Account(request[h].order, -1, 0)
    BY <1>7 DEF CommitCancelMine, ReleaseReservation
  <2>2. request[h].seen = "PENDING" /\ request[h].target = "CANCELLED"
    BY <1>6, <1>7 DEF CommitCancelMine, ReadAllowed
  <2>3. /\ reservations'[request[h].order] = reservations[request[h].order] + (-1)
        /\ deductions'[request[h].order] = deductions[request[h].order] + 0
        /\ \A p \in OrderIds \ {request[h].order} :
             reservations'[p] = reservations[p] /\ deductions'[p] = deductions[p]
    BY <1>6, <2>1 DEF TypeOK, InventoryTypeOK, Account
  <2>4. request[h].order \notin contested =>
          /\ reservations'[request[h].order] = 0
          /\ deductions'[request[h].order] = 0
    BY <1>6, <2>1, <2>2, <2>3 DEF OPERATIONAL_TARGETS
  <2>5. QED
    BY <1>5, <2>1, <2>2, <2>3, <2>4 DEF OPERATIONAL_TARGETS
<1>8. ASSUME NEW h \in Handlers, CommitConfirm(h)
      PROVE  IInv'
  <2>1. /\ request[h] # Null /\ WriteStatus(h)
        /\ Account(request[h].order, -1, 1)
    BY <1>8 DEF CommitConfirm, ConfirmReservation
  <2>2. request[h].seen = "PENDING" /\ request[h].target = "CONFIRMED"
    BY <1>8 DEF CommitConfirm
  <2>3. /\ reservations'[request[h].order] = reservations[request[h].order] + (-1)
        /\ deductions'[request[h].order] = deductions[request[h].order] + 1
        /\ \A p \in OrderIds \ {request[h].order} :
             reservations'[p] = reservations[p] /\ deductions'[p] = deductions[p]
    BY <1>6, <2>1 DEF TypeOK, InventoryTypeOK, Account
  <2>4. request[h].order \notin contested =>
          /\ reservations'[request[h].order] = 0
          /\ deductions'[request[h].order] = 1
    BY <1>6, <2>1, <2>2, <2>3 DEF OPERATIONAL_TARGETS
  <2>5. QED
    BY <1>5, <2>1, <2>2, <2>3, <2>4 DEF OPERATIONAL_TARGETS
<1>9. ASSUME NEW h \in Handlers, CommitAdvance(h)
      PROVE  IInv'
  <2>1. /\ request[h] # Null /\ WriteStatus(h)
        /\ reservations' = reservations /\ deductions' = deductions
    BY <1>9 DEF CommitAdvance, stockVars
  <2>2. request[h].seen \in RestorableStatuses /\ request[h].target \in OPERATIONAL_TARGETS
    BY <1>6, <1>9, ForwardSteps DEF CommitAdvance, ReadAllowed
  <2>3. QED
    BY <1>5, <1>6, <2>1, <2>2 DEF OPERATIONAL_TARGETS, RestorableStatuses
<1>10. ASSUME NEW h \in Handlers, CommitAdminCancel(h)
       PROVE  IInv'
  <2>1. request[h].seen \in RestorableStatuses /\ request[h].target = "CANCELLED"
    BY <1>6, <1>10 DEF CommitAdminCancel, ReadAllowed
  <2>2. request[h] # Null /\ WriteStatus(h) /\ Account(request[h].order, 0, -1)
    BY <1>10, <2>1 DEF CommitAdminCancel, RestoreOnCancelAfterConfirm
  <2>3. /\ reservations'[request[h].order] = reservations[request[h].order] + 0
        /\ deductions'[request[h].order] = deductions[request[h].order] + (-1)
        /\ \A p \in OrderIds \ {request[h].order} :
             reservations'[p] = reservations[p] /\ deductions'[p] = deductions[p]
    BY <1>6, <2>2 DEF TypeOK, InventoryTypeOK, Account
  <2>4. request[h].order \notin contested =>
          /\ reservations'[request[h].order] = 0
          /\ deductions'[request[h].order] = 0
    BY <1>6, <2>1, <2>2, <2>3 DEF OPERATIONAL_TARGETS, RestorableStatuses
  <2>5. QED
    BY <1>5, <2>1, <2>2, <2>3, <2>4 DEF OPERATIONAL_TARGETS
<1>11. ASSUME NEW h \in Handlers, AbortRequest(h)
       PROVE  IInv'
  <2>1. /\ request' = [request EXCEPT ![h] = Null] /\ contested' = contested
        /\ status' = status /\ fulfilment' = fulfilment
        /\ reservations' = reservations /\ deductions' = deductions
    BY <1>11 DEF AbortRequest, orderVars, inventoryVars
  <2>2. \A g \in Handlers : request'[g] # Null => request'[g] = request[g]
    BY <2>1 DEF TypeOK
  <2>3. RequestsCurrent'
    BY <2>1, <2>2 DEF IInv, RequestsCurrent, ReadAllowed
  <2>4. QED
    BY <2>1, <2>3 DEF IInv, UncontestedSettled
<1>12. ASSUME UNCHANGED <<orderVars, request, contested, reservations, deductions>>
       PROVE  IInv'
  BY <1>12 DEF IInv, RequestsCurrent, ReadAllowed, UncontestedSettled, orderVars
<1>13. QED
  BY <1>1, <1>2, <1>3, <1>4, <1>7, <1>8, <1>9, <1>10, <1>11, <1>12
     DEF Next, OrdersUnchanged, vars, orderVars, AdjustManual, ApplyDelta, SetQuantityRead,
         SetQuantityApply, SetQuantityAbort, stockVars, accountVars

\* An order no two of whose requests overlap holds exactly the stock its status
\* says, whatever happens on the orders it shares its stock rows with.
THEOREM UncontestedOrdersSettled == Spec => []UncontestedSettled
<1>1. Spec => []IInv
  BY TypeCorrect, IInvInit, IInvNext, PTL DEF Spec
<1>2. IInv => UncontestedSettled
  BY DEF IInv
<1>3. QED
  BY <1>1, <1>2, PTL

\* Although no transaction looks at the order it writes, an uncontested order
\* only ever takes allowed steps.
THEOREM UncontestedOrdersForward == Spec => UncontestedForward
<1>1. ASSUME TypeOK, IInv, Next, NEW o \in OrderIds \ contested, status'[o] # status[o]
      PROVE  AllowedStep(o)
  <2>1. ASSUME NEW p \in OrderIds, NEW type \in OrderTypes, NEW basket \in Baskets,
               PlaceOrder(p, type, basket)
        PROVE  AllowedStep(o)
    BY <1>1, <2>1 DEF TypeOK, PlaceOrder, AllowedStep
  <2>2. ASSUME NEW h \in Handlers, request[h] # Null, WriteStatus(h)
        PROVE  /\ ReadAllowed(request[h])
               /\ status'[o] = request[h].target /\ status[o] = request[h].seen
               /\ fulfilment[request[h].order] = fulfilment[o]
    <3>1. ReadAllowed(request[h])
      BY <1>1, <2>2 DEF IInv, RequestsCurrent
    <3>2. request[h].order = o /\ status'[o] = request[h].target
      BY <1>1, <2>2 DEF TypeOK, WriteStatus
    <3>3. status[o] = request[h].seen
      BY <1>1, <2>2, <3>2 DEF IInv, RequestsCurrent
    <3>4. QED
      BY <3>1, <3>2, <3>3
  <2>3. ASSUME NEW h \in Handlers, CommitCancelMine(h)
        PROVE  AllowedStep(o)
    BY <2>2, <2>3 DEF CommitCancelMine, ReadAllowed, AllowedStep
  <2>4. ASSUME NEW h \in Handlers, CommitConfirm(h) \/ CommitAdvance(h)
        PROVE  AllowedStep(o)
    BY <2>2, <2>4 DEF CommitConfirm, CommitAdvance, ReadAllowed, AllowedStep
  <2>5. ASSUME NEW h \in Handlers, CommitAdminCancel(h)
        PROVE  AllowedStep(o)
    BY <2>2, <2>5 DEF CommitAdminCancel, ReadAllowed, AllowedStep
  <2>6. ASSUME UNCHANGED status
        PROVE  FALSE
    BY <1>1, <2>6
  <2>7. QED
    BY <1>1, <2>1, <2>3, <2>4, <2>5, <2>6
       DEF Next, OrdersUnchanged, orderVars, BeginCancelMine, BeginUpdateStatus,
           BeginAdminCancel, BeginRequest, AbortRequest
<1>2. TypeOK /\ IInv /\ [Next]_vars
        => [\A o \in OrderIds \ contested : status'[o] # status[o] => AllowedStep(o)]_vars
  BY <1>1 DEF vars
<1>3. QED
  BY <1>2, TypeCorrect, IInvInit, IInvNext, PTL DEF Spec, UncontestedForward

-----------------------------------------------------------------------------
(* The history of an uncontested order.                                    *)

\* The rows lead from nothing to status st, each from where the last one ended.
Path(rows, st) ==
  /\ rows # << >>
  /\ rows[1].fromStatus = Null
  /\ \A k \in 2..Len(rows) : rows[k].fromStatus = rows[k - 1].toStatus
  /\ rows[Len(rows)].toStatus = st

HistoryInv == \A o \in OrderIds \ contested : status[o] # "NONE" => Path(history[o], status[o])

LEMMA AppendKeepsPath ==
  ASSUME NEW rows \in Seq(HistoryRow), NEW st, Path(rows, st), NEW row \in HistoryRow,
         row.fromStatus = st
  PROVE  Path(Append(rows, row), row.toStatus)
<1> DEFINE n == Len(rows)
           longer == Append(rows, row)
<1>1. /\ n \in Nat /\ n >= 1 /\ Len(longer) = n + 1 /\ longer[n + 1] = row
      /\ \A k \in 1..n : longer[k] = rows[k]
  BY DEF Path
<1>2. longer # << >> /\ longer[1].fromStatus = Null
  BY <1>1 DEF Path
<1>3. ASSUME NEW k \in 2..(n + 1)
      PROVE  longer[k].fromStatus = longer[k - 1].toStatus
  <2>1. CASE k = n + 1
    <3>1. longer[k] = row /\ longer[k - 1] = rows[n]
      BY <1>1, <2>1
    <3> QED  BY <3>1 DEF Path
  <2>2. CASE k # n + 1
    <3>1. k \in 2..n /\ longer[k] = rows[k] /\ longer[k - 1] = rows[k - 1]
      BY <1>1, <2>2
    <3> QED  BY <3>1 DEF Path
  <2> QED  BY <2>1, <2>2
<1> HIDE DEF longer
<1>4. longer # << >> /\ longer[Len(longer)].toStatus = row.toStatus
  BY <1>1, <1>2
<1> QED  BY <1>1, <1>2, <1>3, <1>4 DEF Path, longer

LEMMA HistoryNext == TypeOK /\ IInv /\ HistoryInv /\ [Next]_vars => HistoryInv'
<1> SUFFICES ASSUME TypeOK, IInv, HistoryInv, [Next]_vars PROVE HistoryInv'
  OBVIOUS
<1>1. ASSUME NEW o \in OrderIds, NEW type \in OrderTypes, NEW basket \in Baskets,
             PlaceOrder(o, type, basket)
      PROVE  HistoryInv'
  <2>1. /\ contested' = contested
        /\ status' = [status EXCEPT ![o] = "PENDING"]
        /\ history' = [history EXCEPT ![o] = <<[fromStatus |-> Null, toStatus |-> "PENDING"]>>]
    BY <1>1 DEF PlaceOrder
  <2>2. Path(<<[fromStatus |-> Null, toStatus |-> "PENDING"]>>, "PENDING")
    BY DEF Path
  <2>3. status'[o] = "PENDING" /\ history'[o] = <<[fromStatus |-> Null, toStatus |-> "PENDING"]>>
        /\ \A p \in OrderIds \ {o} : status'[p] = status[p] /\ history'[p] = history[p]
    BY <2>1 DEF TypeOK
  <2> QED  BY <2>1, <2>2, <2>3 DEF HistoryInv
<1>2. ASSUME NEW h \in Handlers, request[h] # Null, WriteStatus(h)
      PROVE  HistoryInv'
  <2> DEFINE o == request[h].order
             row == [fromStatus |-> request[h].seen, toStatus |-> request[h].target]
  <2>1. /\ o \in OrderIds /\ row \in HistoryRow /\ contested' = contested
        /\ status'[o] = row.toStatus /\ history'[o] = Append(history[o], row)
        /\ \A p \in OrderIds \ {o} : status'[p] = status[p] /\ history'[p] = history[p]
    BY <1>2 DEF TypeOK, Request, WriteStatus, HistoryRow
  <2>2. o \notin contested => row.fromStatus = status[o] /\ status[o] # "NONE"
    BY <1>2 DEF IInv, RequestsCurrent, ReadAllowed
  <2>3. history[o] \in Seq(HistoryRow)
    BY <2>1 DEF TypeOK
  <2> HIDE DEF o, row
  <2>4. o \notin contested => Path(history'[o], status'[o])
    BY <2>1, <2>2, <2>3, AppendKeepsPath DEF HistoryInv
  <2> QED  BY <2>1, <2>4 DEF HistoryInv
<1>3. ASSUME UNCHANGED <<status, history>>, contested \subseteq contested'
      PROVE  HistoryInv'
  BY <1>3 DEF HistoryInv
<1> QED
  BY <1>1, <1>2, <1>3
     DEF Next, OrdersUnchanged, vars, orderVars, BeginCancelMine, BeginUpdateStatus, BeginAdminCancel,
         BeginRequest, AbortRequest, CommitCancelMine, CommitConfirm, CommitAdvance, CommitAdminCancel

\* The status history of an uncontested order is one path from nothing to its
\* status, though a row records the status that was read.
THEOREM UncontestedHistories == Spec => []UncontestedHistory
<1>1. Init => HistoryInv
  BY DEF Init, HistoryInv
<1>2. HistoryInv => UncontestedHistory
  BY DEF HistoryInv, Path, UncontestedHistory
<1>3. QED
  BY <1>1, <1>2, TypeCorrect, IInvInit, IInvNext, HistoryNext, PTL DEF Spec

-----------------------------------------------------------------------------
(* The ledger.                                                             *)

\* One more movement, written from the quantity on hand, keeps the chain.
LEMMA AppendKeepsChain ==
  ASSUME InventoryTypeOK, NEW i \in Items, LedgerChain(i), NEW row,
         ledger'[i] = Append(ledger[i], row),
         row.quantityAfter = quantity[i] + row.quantityChange,
         quantity'[i] = row.quantityAfter
  PROVE  LedgerChain(i)'
<1>1. ledger[i] \in Seq(Movement) /\ Len(ledger[i]) \in Nat
  BY DEF InventoryTypeOK
<1>2. PICK n \in Nat : n = Len(ledger[i])
  BY <1>1
<1>3. /\ Len(ledger'[i]) = n + 1
      /\ ledger'[i][n + 1] = row
      /\ \A k \in 1..n : ledger'[i][k] = ledger[i][k]
  BY <1>1, <1>2
<1>4. \A k \in 1..(n + 1) : QuantityBefore(i, k)' = QuantityBefore(i, k)
  BY <1>1, <1>2, <1>3 DEF QuantityBefore
<1>5. QuantityBefore(i, n + 2)' = row.quantityAfter
  BY <1>1, <1>2, <1>3 DEF QuantityBefore
<1>6. \A k \in 1..(n + 1) :
        ledger'[i][k].quantityAfter = QuantityBefore(i, k)' + ledger'[i][k].quantityChange
  <2> TAKE k \in 1..(n + 1)
  <2>1. CASE k = n + 1
    BY <1>1, <1>2, <1>3, <1>4, <2>1 DEF LedgerChain
  <2>2. CASE k \in 1..n
    BY <1>1, <1>2, <1>3, <1>4, <2>2 DEF LedgerChain
  <2>3. QED
    BY <1>2, <2>1, <2>2
<1>7. QED
  BY <1>1, <1>2, <1>3, <1>5, <1>6 DEF LedgerChain

LEMMA SameKeepsChain ==
  ASSUME NEW i \in Items, LedgerChain(i), ledger'[i] = ledger[i], quantity'[i] = quantity[i]
  PROVE  LedgerChain(i)'
BY DEF LedgerChain, QuantityBefore

\* The movements of an order operation: one for each row its lines name.
LEMMA RecordKeepsChains ==
  ASSUME InventoryTypeOK, LedgerAccounts, NEW type, NEW o, NEW change \in [Items -> Int],
         RecordMovements(type, o, change),
         \A i \in Items : quantity'[i] = quantity[i] + change[i]
  PROVE  LedgerAccounts'
<1> SUFFICES ASSUME NEW i \in Items PROVE LedgerChain(i)'
  BY DEF LedgerAccounts
<1> DEFINE row == [type |-> type, quantityChange |-> change[i],
                   quantityAfter |-> quantity[i] + change[i], order |-> o, note |-> Null]
<1>1. LedgerChain(i)
  BY DEF LedgerAccounts
<1>2. CASE change[i] = 0
  <2>1. ledger'[i] = ledger[i] /\ quantity'[i] = quantity[i]
    BY <1>2 DEF RecordMovements, InventoryTypeOK
  <2>2. QED
    BY <1>1, <2>1, SameKeepsChain
<1>3. CASE change[i] # 0
  <2>1. ledger'[i] = Append(ledger[i], row)
    BY <1>3 DEF RecordMovements
  <2>2. /\ row.quantityAfter = quantity[i] + row.quantityChange
        /\ quantity'[i] = row.quantityAfter
    OBVIOUS
  <2> HIDE DEF row
  <2>3. QED
    BY <1>1, <2>1, <2>2, AppendKeepsChain
<1>4. QED
  BY <1>2, <1>3

LEMMA ApplyDeltaKeepsChains ==
  ASSUME InventoryTypeOK, LedgerAccounts, NEW i \in Items, NEW delta \in Int, NEW note,
         ApplyDelta(i, delta, note)
  PROVE  LedgerAccounts'
<1> SUFFICES ASSUME NEW j \in Items PROVE LedgerChain(j)'
  BY DEF LedgerAccounts
<1> DEFINE row == [type |-> IF delta > 0 THEN "MANUAL_IN" ELSE "MANUAL_OUT",
                   quantityChange |-> delta, quantityAfter |-> quantity[i] + delta,
                   order |-> Null, note |-> note]
<1>1. LedgerChain(j)
  BY DEF LedgerAccounts
<1>2. CASE j = i
  <2>1. ledger'[i] = Append(ledger[i], row)
    BY DEF ApplyDelta, InventoryTypeOK
  <2>2. /\ row.quantityAfter = quantity[i] + row.quantityChange
        /\ quantity'[i] = row.quantityAfter
    BY DEF ApplyDelta, InventoryTypeOK
  <2> HIDE DEF row
  <2>3. QED
    BY <1>1, <1>2, <2>1, <2>2, AppendKeepsChain
<1>3. CASE j # i
  <2>1. ledger'[j] = ledger[j] /\ quantity'[j] = quantity[j]
    BY <1>3 DEF ApplyDelta, InventoryTypeOK
  <2>2. QED
    BY <1>1, <2>1, SameKeepsChain
<1>4. QED
  BY <1>2, <1>3

LEMMA StockUnchangedKeepsChains ==
  ASSUME LedgerAccounts, ledger' = ledger, quantity' = quantity
  PROVE  LedgerAccounts'
BY DEF LedgerAccounts, LedgerChain, QuantityBefore

LEMMA LedgerInit == Init => LedgerAccounts
<1> SUFFICES ASSUME Init, NEW i \in Items PROVE LedgerChain(i)
  BY DEF LedgerAccounts
<1>1. quantity[i] = InitialQuantity[i] /\ ledger[i] = <<>>
  BY DEF Init, InventoryInit
<1>2. QED
  BY <1>1 DEF LedgerChain, QuantityBefore

LEMMA LedgerNext == TypeOK /\ LedgerAccounts /\ [Next]_vars => LedgerAccounts'
<1> SUFFICES ASSUME TypeOK, LedgerAccounts, [Next]_vars PROVE LedgerAccounts'
  OBVIOUS
<1>1. ASSUME NEW h \in Handlers, CommitConfirm(h)
      PROVE  LedgerAccounts'
  <2> DEFINE n == orderLines[request[h].order]
             taken == [i \in Items |-> -n[i]]
  <2>1. n \in [Items -> Nat]
    BY <1>1 DEF TypeOK, CommitConfirm, Request, Lines
  <2>2. taken \in [Items -> Int] /\ \A i \in Items : taken[i] = -n[i]
    BY <2>1
  <2>3. quantity' = [i \in Items |-> quantity[i] - n[i]]
    BY <1>1 DEF CommitConfirm, ConfirmReservation
  <2>4. \A i \in Items : quantity'[i] = quantity[i] + taken[i]
    BY <2>1, <2>2, <2>3 DEF TypeOK, InventoryTypeOK
  <2>5. RecordMovements("ORDER_CONFIRM", request[h].order, taken)
    BY <1>1 DEF CommitConfirm, ConfirmReservation
  <2> HIDE DEF taken
  <2>6. QED
    BY <2>2, <2>4, <2>5, RecordKeepsChains DEF TypeOK
<1>2. ASSUME NEW h \in Handlers, CommitAdminCancel(h)
      PROVE  LedgerAccounts'
  <2> DEFINE n == orderLines[request[h].order]
  <2>1. n \in [Items -> Nat]
    BY <1>2 DEF TypeOK, CommitAdminCancel, Request, Lines
  <2>2. n \in [Items -> Int]
    BY <2>1
  <2>3. CASE RestoreOnCancelAfterConfirm(request[h].order, n)
    <3>1. \A i \in Items : quantity'[i] = quantity[i] + n[i]
      BY <2>3 DEF RestoreOnCancelAfterConfirm
    <3>2. RecordMovements("ORDER_CANCEL", request[h].order, n)
      BY <2>3 DEF RestoreOnCancelAfterConfirm
    <3> HIDE DEF n
    <3>3. QED
      BY <2>2, <3>1, <3>2, RecordKeepsChains DEF TypeOK
  <2>4. CASE UNCHANGED stockVars
    BY <2>4, StockUnchangedKeepsChains DEF stockVars
  <2>5. QED
    BY <1>2, <2>3, <2>4 DEF CommitAdminCancel
<1>3. ASSUME NEW i \in Items, NEW d \in ManualDeltas, AdjustManual(i, d)
      PROVE  LedgerAccounts'
  <2>1. d \in Int
    BY StockAssumption
  <2>2. QED
    BY <1>3, <2>1, ApplyDeltaKeepsChains DEF TypeOK, AdjustManual
<1>4. ASSUME NEW a \in Admins, SetQuantityApply(a)
      PROVE  LedgerAccounts'
  <2>1. setting[a].item \in Items /\ setting[a].delta \in Int
    BY <1>4 DEF TypeOK, InventoryTypeOK, SetQuantityApply, SetRequest
  <2>2. QED
    BY <1>4, <2>1, ApplyDeltaKeepsChains DEF TypeOK, SetQuantityApply
\* Every other step leaves quantities and ledgers alone.
<1>5. ASSUME ledger' = ledger, quantity' = quantity
      PROVE  LedgerAccounts'
  BY <1>5, StockUnchangedKeepsChains
<1>6. QED
  BY <1>1, <1>2, <1>3, <1>4, <1>5
     DEF Next, vars, PlaceOrder, ReserveForOrder, BeginCancelMine, BeginUpdateStatus,
         BeginAdminCancel, BeginRequest, CommitCancelMine, ReleaseReservation, CommitAdvance,
         AbortRequest, SetQuantityRead, SetQuantityAbort, inventoryVars, stockVars

\* The movements of every stock row account for its quantity, one by one.
THEOREM LedgerCorrect == Spec => []LedgerAccounts
BY TypeCorrect, LedgerInit, LedgerNext, PTL DEF Spec

-----------------------------------------------------------------------------
(* The stock, order by order.                                              *)

\* Before it is placed nothing is put down to an order.
AttributedInv ==
  /\ StockAttributed
  /\ \A o \in OrderIds : status[o] = "NONE" => reservations[o] = 0 /\ deductions[o] = 0

LEMMA UnitsAreInts ==
  ASSUME TypeOK, NEW i \in Items
  PROVE  /\ UnitsReserved(i) \in Int /\ UnitsTaken(i) \in Int
         /\ \A o \in OrderIds : /\ reservations[o] * orderLines[o][i] \in Int
                               /\ deductions[o] * orderLines[o][i] \in Int
<1>1. \A o \in OrderIds :
        reservations[o] \in Int /\ deductions[o] \in Int /\ orderLines[o][i] \in Nat
  BY DEF TypeOK, InventoryTypeOK, Lines
<1>2. \A o \in OrderIds : /\ reservations[o] * orderLines[o][i] \in Int
                         /\ deductions[o] * orderLines[o][i] \in Int
  BY <1>1
<1>3. UnitsReserved(i) \in Int
  BY <1>2, OrdersAssumption, SumInt DEF UnitsReserved
<1>4. UnitsTaken(i) \in Int
  BY <1>2, OrdersAssumption, SumInt DEF UnitsTaken
<1> QED  BY <1>2, <1>3, <1>4

\* What is put down to an order with given lines shows in the sums of its rows.
LEMMA AccountShows ==
  ASSUME TypeOK, TypeOK', NEW o \in OrderIds, NEW r \in {-1, 0, 1}, NEW d \in {-1, 0, 1},
         Account(o, r, d), NEW i \in Items, NEW n \in Nat, orderLines'[o][i] = n,
         \/ orderLines[o][i] = n
         \/ reservations[o] = 0 /\ deductions[o] = 0,
         \A p \in OrderIds \ {o} : orderLines'[p] = orderLines[p]
  PROVE  /\ UnitsReserved(i)' = UnitsReserved(i) + (IF r = 0 THEN 0 ELSE IF r = 1 THEN n ELSE -n)
         /\ UnitsTaken(i)' = UnitsTaken(i) + (IF d = 0 THEN 0 ELSE IF d = 1 THEN n ELSE -n)
<1> DEFINE f == [p \in OrderIds |-> reservations[p] * orderLines[p][i]]
           g == [p \in OrderIds |-> deductions[p] * orderLines[p][i]]
           after(x) == IF x = 0 THEN 0 ELSE IF x = 1 THEN n ELSE -n
<1>1. /\ reservations'[o] = reservations[o] + r /\ deductions'[o] = deductions[o] + d
      /\ \A p \in OrderIds \ {o} :
           reservations'[p] = reservations[p] /\ deductions'[p] = deductions[p]
  BY AccountChanges DEF TypeOK
<1>2. \A p \in OrderIds \ {o} : f'[p] = f[p] /\ g'[p] = g[p]
  BY <1>1
<1>3. \A p \in OrderIds : f[p] \in Int /\ g[p] \in Int
  BY UnitsAreInts
<1>4. \A p \in OrderIds : f'[p] \in Int /\ g'[p] \in Int
  <2>1. \A p \in OrderIds : /\ reservations'[p] \in Int /\ deductions'[p] \in Int
                           /\ orderLines'[p][i] \in Nat
    BY DEF TypeOK, InventoryTypeOK, Lines
  <2> QED  BY <2>1
<1>5. f'[o] = f[o] + after(r)
  <2>1. reservations[o] \in Int /\ orderLines[o][i] \in Nat
    BY DEF TypeOK, InventoryTypeOK, Lines
  <2>2. f'[o] = (reservations[o] + r) * n /\ f[o] = reservations[o] * orderLines[o][i]
    BY <1>1
  <2>3. f[o] = reservations[o] * n
    <3>1. reservations[o] = 0 => 0 * orderLines[o][i] = 0 * n
      BY ONLY n \in Nat, <2>1
    <3> QED  BY <2>2, <3>1
  <2> DEFINE x == reservations[o]
  <2>4. (x + r) * n = x * n + after(r)
    <3>1. x \in Int
      BY <2>1
    <3> HIDE DEF x
    <3>2. CASE r = 0
      BY <3>1, <3>2
    <3>3. CASE r = 1
      BY <3>1, <3>3
    <3>4. CASE r = -1
      BY <3>1, <3>4
    <3> QED  BY <3>2, <3>3, <3>4
  <2> QED  BY <2>2, <2>3, <2>4
<1>6. g'[o] = g[o] + after(d)
  <2>1. deductions[o] \in Int /\ orderLines[o][i] \in Nat
    BY DEF TypeOK, InventoryTypeOK, Lines
  <2>2. g'[o] = (deductions[o] + d) * n /\ g[o] = deductions[o] * orderLines[o][i]
    BY <1>1
  <2>3. g[o] = deductions[o] * n
    <3>1. deductions[o] = 0 => 0 * orderLines[o][i] = 0 * n
      BY ONLY n \in Nat, <2>1
    <3> QED  BY <2>2, <3>1
  <2> DEFINE x == deductions[o]
  <2>4. (x + d) * n = x * n + after(d)
    <3>1. x \in Int
      BY <2>1
    <3> HIDE DEF x
    <3>2. CASE d = 0
      BY <3>1, <3>2
    <3>3. CASE d = 1
      BY <3>1, <3>3
    <3>4. CASE d = -1
      BY <3>1, <3>4
    <3> QED  BY <3>2, <3>3, <3>4
  <2> QED  BY <2>2, <2>3, <2>4
<1>7. after(r) \in Int /\ after(d) \in Int
  OBVIOUS
<1>8. UnitsReserved(i) = SumFunctionOnSet(f, OrderIds) /\ UnitsTaken(i) = SumFunctionOnSet(g, OrderIds)
      /\ UnitsReserved(i)' = SumFunctionOnSet(f', OrderIds)
      /\ UnitsTaken(i)' = SumFunctionOnSet(g', OrderIds)
  BY DEF UnitsReserved, UnitsTaken
<1> HIDE DEF f, g, after
<1>9. SumFunctionOnSet(f', OrderIds) = SumFunctionOnSet(f, OrderIds) - f[o] + f'[o]
  BY <1>2, <1>3, <1>4, OrdersAssumption, SumChange
<1>10. SumFunctionOnSet(g', OrderIds) = SumFunctionOnSet(g, OrderIds) - g[o] + g'[o]
  BY <1>2, <1>3, <1>4, OrdersAssumption, SumChange
<1>11. UnitsReserved(i) \in Int /\ UnitsTaken(i) \in Int /\ f[o] \in Int /\ g[o] \in Int
  BY <1>3, UnitsAreInts
<1>12. UnitsReserved(i)' = UnitsReserved(i) + after(r)
  BY ONLY <1>5, <1>7, <1>8, <1>9, <1>11
<1>13. UnitsTaken(i)' = UnitsTaken(i) + after(d)
  BY ONLY <1>6, <1>7, <1>8, <1>10, <1>11
<1> QED  BY <1>12, <1>13 DEF after

\* A movement counts as manual if it names no order.
LEMMA MovementShows ==
  ASSUME NEW i \in Items, ledger[i] \in Seq(Movement), NEW row \in Movement,
         ledger'[i] = Append(ledger[i], row)
  PROVE  /\ ManualUnits(i) \in Int
         /\ ManualUnits(i)' = ManualUnits(i)
                                + (IF row.order = Null THEN row.quantityChange ELSE 0)
<1> DEFINE n == Len(ledger[i])
           f == [k \in DOMAIN ledger[i] |-> ledger[i][k].quantityChange]
           M == {k \in DOMAIN ledger[i] : ledger[i][k].order = Null}
<1>1. /\ n \in Nat /\ DOMAIN ledger[i] = 1..n /\ DOMAIN ledger'[i] = 1..(n + 1)
      /\ ledger'[i][n + 1] = row /\ \A k \in 1..n : ledger'[i][k] = ledger[i][k]
      /\ \A k \in 1..n : ledger[i][k] \in Movement
  OBVIOUS
<1>2. /\ \A k \in 1..n : f'[k] = f[k] /\ f[k] \in Int
      /\ f'[n + 1] = row.quantityChange /\ row.quantityChange \in Int
  BY <1>1 DEF Movement
<1>3. M \subseteq 1..n /\ (n + 1) \notin M
  BY <1>1
<1>4. IsFiniteSet(M)
  <2>1. IsFiniteSet(1..n)
    BY <1>1, FS_Interval
  <2> HIDE DEF M
  <2> QED  BY <1>3, <2>1, FS_Subset
<1>5. M' = IF row.order = Null THEN M \cup {n + 1} ELSE M
  <2>1. \A k \in 1..(n + 1) : k = n + 1 \/ k \in 1..n
    BY <1>1
  <2>2. \A k \in 1..n : k \in 1..(n + 1) /\ k # n + 1
    BY <1>1
  <2>3. n + 1 \in 1..(n + 1)
    BY <1>1
  <2>4. M' = {k \in 1..(n + 1) : ledger'[i][k].order = Null}
    BY <1>1
  <2>5. M = {k \in 1..n : ledger[i][k].order = Null}
    BY <1>1
  <2> QED  BY <1>1, <2>1, <2>2, <2>3, <2>4, <2>5
<1>6. ManualUnits(i) = SumFunctionOnSet(f, M) /\ ManualUnits(i)' = SumFunctionOnSet(f', M')
  BY DEF ManualUnits
<1> HIDE DEF f, M
<1>7. \A k \in M : f[k] = f'[k] /\ f[k] \in Int
  BY <1>2, <1>3
<1>8. SumFunctionOnSet(f, M) \in Int
  BY <1>4, <1>7, SumInt
<1>9. SumFunctionOnSet(f, M) = SumFunctionOnSet(f', M)
  BY <1>4, <1>7, SumSame
<1>10. CASE row.order = Null
  <2>1. \A k \in M \cup {n + 1} : f'[k] \in Int
    BY <1>2, <1>7
  <2>2. SumFunctionOnSet(f', M \cup {n + 1}) = f'[n + 1] + SumFunctionOnSet(f', M)
    BY <1>3, <1>4, <2>1, SumAdd
  <2> QED  BY <1>2, <1>5, <1>6, <1>8, <1>9, <1>10, <2>2
<1>11. CASE row.order # Null
  BY <1>5, <1>6, <1>8, <1>9, <1>11
<1> QED  BY <1>10, <1>11

\* An order operation writes movements in the order's name: no manual units.
LEMMA RecordedUnits ==
  ASSUME InventoryTypeOK, NEW type \in MovementType, NEW o \in OrderIds,
         NEW change \in [Items -> Int], RecordMovements(type, o, change), NEW i \in Items
  PROVE  ManualUnits(i)' = ManualUnits(i)
<1> DEFINE row == [type |-> type, quantityChange |-> change[i],
                   quantityAfter |-> quantity[i] + change[i], order |-> o, note |-> Null]
<1>1. CASE change[i] = 0
  <2>1. ledger'[i] = ledger[i]
    BY <1>1 DEF RecordMovements
  <2> QED  BY <2>1 DEF ManualUnits
<1>2. CASE change[i] # 0
  <2>1. ledger'[i] = Append(ledger[i], row)
    BY <1>2 DEF RecordMovements
  <2>2. row \in Movement /\ row.order # Null
    BY NullAssumption DEF InventoryTypeOK, Movement
  <2>3. ledger[i] \in Seq(Movement)
    BY DEF InventoryTypeOK
  <2> HIDE DEF row
  <2>4. ManualUnits(i) \in Int /\ ManualUnits(i)' = ManualUnits(i) + 0
    BY <2>1, <2>2, <2>3, MovementShows
  <2> QED  BY <2>4
<1> QED  BY <1>1, <1>2

\* A manual correction counts with its delta, on its row.
LEMMA CorrectedUnits ==
  ASSUME InventoryTypeOK, NEW i \in Items, NEW delta \in Int, NEW note \in Nat \cup {Null},
         ApplyDelta(i, delta, note), NEW j \in Items
  PROVE  /\ ManualUnits(j)' - ManualUnits(j) = quantity'[j] - quantity[j]
         /\ ManualUnits(j)' \in Int /\ ManualUnits(j) \in Int
<1> DEFINE row == [type |-> IF delta > 0 THEN "MANUAL_IN" ELSE "MANUAL_OUT",
                   quantityChange |-> delta, quantityAfter |-> quantity[i] + delta,
                   order |-> Null, note |-> note]
<1>1. CASE j = i
  <2>1. ledger'[i] = Append(ledger[i], row) /\ quantity'[i] = quantity[i] + delta
    BY DEF ApplyDelta, InventoryTypeOK
  <2>2. row \in Movement /\ row.order = Null /\ row.quantityChange = delta
    BY DEF InventoryTypeOK, Movement, MovementType
  <2>3. ledger[i] \in Seq(Movement) /\ quantity[i] \in Int
    BY DEF InventoryTypeOK
  <2> HIDE DEF row
  <2>4. ManualUnits(i) \in Int /\ ManualUnits(i)' = ManualUnits(i) + delta
    BY <2>1, <2>2, <2>3, MovementShows
  <2> QED  BY <1>1, <2>1, <2>3, <2>4
<1>2. CASE j # i
  <2>1. ledger'[j] = ledger[j] /\ quantity'[j] = quantity[j] /\ quantity[j] \in Int
    BY <1>2 DEF ApplyDelta, InventoryTypeOK
  <2>2. ManualUnits(j)' = ManualUnits(j)
    BY <2>1 DEF ManualUnits
  <2>3. ManualUnits(j) \in Int
    <3>1. ledger[j] \in Seq(Movement) /\ DOMAIN ledger[j] = 1..Len(ledger[j])
          /\ Len(ledger[j]) \in Nat
      BY DEF InventoryTypeOK
    <3>2. IsFiniteSet(DOMAIN ledger[j])
      BY <3>1, FS_Interval
    <3> DEFINE M == {k \in DOMAIN ledger[j] : ledger[j][k].order = Null}
               f == [k \in DOMAIN ledger[j] |-> ledger[j][k].quantityChange]
    <3>3. M \subseteq DOMAIN ledger[j] /\ \A k \in M : f[k] \in Int
      <4>1. \A k \in DOMAIN ledger[j] : ledger[j][k] \in Movement
        BY <3>1
      <4> QED  BY <4>1 DEF Movement
    <3>4. SumFunctionOnSet(f, M) \in Int
      <4>1. IsFiniteSet(M)
        BY <3>2, <3>3, FS_Subset
      <4> HIDE DEF f, M
      <4> QED  BY <3>3, <4>1, SumInt
    <3> QED  BY <3>4 DEF ManualUnits
  <2> QED  BY <2>1, <2>2, <2>3
<1> QED  BY <1>1, <1>2

LEMMA AttributedInit == Init => AttributedInv
<1> SUFFICES ASSUME Init, NEW i \in Items
             PROVE  /\ reserved[i] = UnitsReserved(i)
                    /\ quantity[i] + UnitsTaken(i) = InitialQuantity[i] + ManualUnits(i)
  BY DEF Init, InventoryInit, AttributedInv, StockAttributed
<1>1. /\ quantity[i] = InitialQuantity[i] /\ InitialQuantity[i] \in Nat /\ reserved[i] = 0
      /\ ledger[i] = << >>
      /\ \A o \in OrderIds :
           reservations[o] = 0 /\ deductions[o] = 0 /\ orderLines[o][i] = 0
  BY StockAssumption DEF Init, InventoryInit
<1>2. UnitsReserved(i) = 0 /\ UnitsTaken(i) = 0
  BY <1>1, OrdersAssumption, SumZero DEF UnitsReserved, UnitsTaken
<1>3. {k \in DOMAIN ledger[i] : ledger[i][k].order = Null} = {}
  BY <1>1
<1>4. ManualUnits(i) = 0
  BY <1>3, SumEmpty DEF ManualUnits
<1> QED  BY <1>1, <1>2, <1>4

LEMMA AttributedNext == TypeOK /\ IInv /\ AttributedInv /\ [Next]_vars => AttributedInv'
<1> SUFFICES ASSUME TypeOK, TypeOK', IInv, AttributedInv, [Next]_vars PROVE AttributedInv'
  BY TypeNext
<1> DEFINE Balance(i) ==
      /\ reserved[i] = UnitsReserved(i)
      /\ quantity[i] + UnitsTaken(i) = InitialQuantity[i] + ManualUnits(i)
<1>1. \A i \in Items : /\ Balance(i) /\ quantity[i] \in Int /\ reserved[i] \in Int
                      /\ InitialQuantity[i] \in Nat
                      /\ UnitsReserved(i) \in Int /\ UnitsTaken(i) \in Int
  <2>1. \A i \in Items : UnitsReserved(i) \in Int /\ UnitsTaken(i) \in Int
    BY UnitsAreInts
  <2> QED  BY <2>1, StockAssumption DEF AttributedInv, StockAttributed, TypeOK, InventoryTypeOK
\* A handler's transaction on an order that is placed, r and d being put down to it.
<1>2. ASSUME NEW h \in Handlers, request[h] # Null, WriteStatus(h)
      PROVE  /\ request[h].order \in OrderIds /\ status[request[h].order] # "NONE"
             /\ orderLines' = orderLines
             /\ \A o \in OrderIds : status'[o] = "NONE" =>
                  status[o] = "NONE" /\ o # request[h].order
  <2>1. request[h] \in Request /\ status[request[h].order] # "NONE" /\ request[h].target # "NONE"
    BY <1>2 DEF TypeOK, IInv, RequestsCurrent, ReadAllowed, Request, OrderStatus
  <2> QED  BY <1>2, <2>1 DEF TypeOK, WriteStatus, Request
<1>3. ASSUME NEW h \in Handlers, request[h] # Null, WriteStatus(h),
             NEW r \in {-1, 0, 1}, NEW d \in {-1, 0, 1}, Account(request[h].order, r, d),
             \A i \in Items :
               LET n == orderLines[request[h].order][i] IN
               /\ reserved'[i] = reserved[i] + (IF r = 0 THEN 0 ELSE IF r = 1 THEN n ELSE -n)
               /\ quantity'[i] = quantity[i] - (IF d = 0 THEN 0 ELSE IF d = 1 THEN n ELSE -n)
               /\ ManualUnits(i)' = ManualUnits(i)
      PROVE  AttributedInv'
  <2> DEFINE o == request[h].order
  <2>1. /\ o \in OrderIds /\ orderLines' = orderLines
        /\ \A p \in OrderIds : status'[p] = "NONE" => status[p] = "NONE" /\ p # o
    BY <1>2, <1>3
  <2> HIDE DEF o
  <2>2. Account(o, r, d)
    BY <1>3 DEF o
  <2>3. \A p \in OrderIds : status'[p] = "NONE" => reservations'[p] = 0 /\ deductions'[p] = 0
    <3>1. \A p \in OrderIds \ {o} :
            reservations'[p] = reservations[p] /\ deductions'[p] = deductions[p]
      BY <2>1, <2>2, AccountChanges DEF TypeOK
    <3> QED  BY <2>1, <3>1 DEF AttributedInv
  <2>4. ASSUME NEW i \in Items PROVE Balance(i)'
    <3>1. orderLines[o][i] \in Nat
      BY <2>1 DEF TypeOK, Lines
    <3> DEFINE n == orderLines[o][i]
               change(x) == IF x = 0 THEN 0 ELSE IF x = 1 THEN n ELSE -n
    <3>2. /\ UnitsReserved(i)' = UnitsReserved(i) + change(r)
          /\ UnitsTaken(i)' = UnitsTaken(i) + change(d)
      BY <2>1, <2>2, <3>1, AccountShows
    <3>3. /\ reserved'[i] = reserved[i] + change(r)
          /\ quantity'[i] = quantity[i] - change(d)
          /\ ManualUnits(i)' = ManualUnits(i)
      BY <1>3 DEF o
    <3>4. change(r) \in Int /\ change(d) \in Int
      BY <3>1
    <3> HIDE DEF change, n
    <3>5. /\ reserved[i] = UnitsReserved(i)
          /\ quantity[i] + UnitsTaken(i) = InitialQuantity[i] + ManualUnits(i)
          /\ quantity[i] \in Int /\ UnitsReserved(i) \in Int /\ UnitsTaken(i) \in Int
      BY <1>1
    <3>6. quantity'[i] + UnitsTaken(i)' = quantity[i] + UnitsTaken(i)
      BY ONLY <3>2, <3>3, <3>4, <3>5
    <3> QED  BY <3>2, <3>3, <3>5, <3>6
  <2> QED  BY <2>3, <2>4 DEF AttributedInv, StockAttributed
<1>4. ASSUME NEW o \in OrderIds, NEW type \in OrderTypes, NEW basket \in Baskets,
             PlaceOrder(o, type, basket)
      PROVE  AttributedInv'
  <2>1. /\ status[o] = "NONE" /\ Account(o, 1, 0) /\ basket \in [Items -> Nat]
        /\ orderLines' = [orderLines EXCEPT ![o] = basket]
        /\ status' = [status EXCEPT ![o] = "PENDING"]
        /\ reserved' = [i \in Items |-> reserved[i] + basket[i]]
        /\ quantity' = quantity /\ ledger' = ledger
    BY <1>4, PlacementAssumption DEF PlaceOrder, ReserveForOrder, Lines
  <2>2. /\ orderLines'[o] = basket /\ \A p \in OrderIds \ {o} : orderLines'[p] = orderLines[p]
        /\ reservations[o] = 0 /\ deductions[o] = 0
    BY <2>1 DEF TypeOK, AttributedInv
  <2>3. \A p \in OrderIds : status'[p] = "NONE" => reservations'[p] = 0 /\ deductions'[p] = 0
    <3>1. \A p \in OrderIds \ {o} :
            reservations'[p] = reservations[p] /\ deductions'[p] = deductions[p]
      BY <2>1, AccountChanges DEF TypeOK
    <3>2. \A p \in OrderIds : status'[p] = "NONE" => p # o /\ status[p] = "NONE"
      BY <2>1 DEF TypeOK
    <3> QED  BY <3>1, <3>2 DEF AttributedInv
  <2>4. ASSUME NEW i \in Items PROVE Balance(i)'
    <3>1. basket[i] \in Nat /\ orderLines'[o][i] = basket[i]
      BY <2>1, <2>2
    <3>2. UnitsReserved(i)' = UnitsReserved(i) + basket[i] /\ UnitsTaken(i)' = UnitsTaken(i) + 0
      BY <2>1, <2>2, <3>1, AccountShows
    <3>3. ManualUnits(i)' = ManualUnits(i)
      BY <2>1 DEF ManualUnits
    <3> QED  BY <1>1, <2>1, <3>1, <3>2, <3>3
  <2> QED  BY <2>3, <2>4 DEF AttributedInv, StockAttributed
<1>5. ASSUME NEW h \in Handlers, CommitCancelMine(h)
      PROVE  AttributedInv'
  <2> DEFINE o == request[h].order
  <2>1. request[h] # Null /\ WriteStatus(h) /\ ReleaseReservation(o, orderLines[o])
    BY <1>5 DEF CommitCancelMine
  <2>2. Account(o, -1, 0) /\ ledger' = ledger
    BY <2>1 DEF ReleaseReservation
  <2>3. ASSUME NEW i \in Items
        PROVE  /\ reserved'[i] = reserved[i] + -orderLines[o][i]
               /\ quantity'[i] = quantity[i] - 0
               /\ ManualUnits(i)' = ManualUnits(i)
    <3>1. orderLines[o][i] \in Nat
      BY <1>2, <2>1 DEF TypeOK, Lines
    <3>2. /\ reserved'[i] = reserved[i] - orderLines[o][i] /\ quantity' = quantity
          /\ ManualUnits(i)' = ManualUnits(i)
      BY <2>1, <2>2 DEF ReleaseReservation, ManualUnits
    <3> HIDE DEF o
    <3> QED  BY <1>1, <3>1, <3>2
  <2> QED  BY <1>3, <2>1, <2>2, <2>3
<1>6. ASSUME NEW h \in Handlers, CommitConfirm(h)
      PROVE  AttributedInv'
  <2> DEFINE o == request[h].order
             taken == [i \in Items |-> -orderLines[o][i]]
  <2>1. request[h] # Null /\ WriteStatus(h) /\ ConfirmReservation(o, orderLines[o])
    BY <1>6 DEF CommitConfirm
  <2>2. o \in OrderIds /\ orderLines[o] \in [Items -> Nat]
    BY <1>2, <2>1 DEF TypeOK, Lines
  <2>3. Account(o, -1, 1) /\ RecordMovements("ORDER_CONFIRM", o, taken)
    BY <2>1 DEF ConfirmReservation
  <2>4. taken \in [Items -> Int]
    BY <2>2
  <2>5. ASSUME NEW i \in Items
        PROVE  /\ reserved'[i] = reserved[i] + -orderLines[o][i]
               /\ quantity'[i] = quantity[i] - orderLines[o][i]
               /\ ManualUnits(i)' = ManualUnits(i)
    <3>1. reserved'[i] = reserved[i] - orderLines[o][i]
          /\ quantity'[i] = quantity[i] - orderLines[o][i]
      BY <2>1 DEF ConfirmReservation
    <3>2. ManualUnits(i)' = ManualUnits(i)
      <4> HIDE DEF taken, o
      <4> QED  BY <2>2, <2>3, <2>4, RecordedUnits DEF TypeOK, MovementType
    <3> QED  BY <1>1, <2>2, <3>1, <3>2
  <2> QED  BY <1>3, <2>1, <2>3, <2>5
<1>7. ASSUME NEW h \in Handlers, CommitAdminCancel(h)
      PROVE  AttributedInv'
  <2> DEFINE o == request[h].order
  <2>1. request[h] # Null /\ WriteStatus(h)
    BY <1>7 DEF CommitAdminCancel
  <2>2. o \in OrderIds /\ orderLines[o] \in [Items -> Nat]
    BY <1>2, <2>1 DEF TypeOK, Lines
  <2>3. CASE RestoreOnCancelAfterConfirm(o, orderLines[o])
    <3>1. Account(o, 0, -1) /\ RecordMovements("ORDER_CANCEL", o, orderLines[o])
      BY <2>3 DEF RestoreOnCancelAfterConfirm
    <3>2. orderLines[o] \in [Items -> Int]
      BY <2>2
    <3>3. ASSUME NEW i \in Items
          PROVE  /\ reserved'[i] = reserved[i] + 0
                 /\ quantity'[i] = quantity[i] - -orderLines[o][i]
                 /\ ManualUnits(i)' = ManualUnits(i)
      <4>1. reserved'[i] = reserved[i] /\ quantity'[i] = quantity[i] + orderLines[o][i]
        BY <2>3 DEF RestoreOnCancelAfterConfirm
      <4>2. ManualUnits(i)' = ManualUnits(i)
        <5> HIDE DEF o
        <5> QED  BY <2>2, <3>1, <3>2, RecordedUnits DEF TypeOK, MovementType
      <4> QED  BY <1>1, <2>2, <4>1, <4>2
    <3> QED  BY <1>3, <2>1, <3>1, <3>3
  <2>4. CASE UNCHANGED stockVars
    <3>1. ASSUME NEW i \in Items PROVE Balance(i)'
      BY <1>1, <1>2, <2>1, <2>4
         DEF stockVars, UnitsReserved, UnitsTaken, ManualUnits
    <3>2. \A p \in OrderIds : status'[p] = "NONE" => reservations'[p] = 0 /\ deductions'[p] = 0
      BY <1>2, <2>1, <2>4 DEF stockVars, AttributedInv
    <3> QED  BY <3>1, <3>2 DEF AttributedInv, StockAttributed
  <2> QED  BY <1>7, <2>3, <2>4 DEF CommitAdminCancel
<1>8. ASSUME NEW h \in Handlers, CommitAdvance(h)
      PROVE  AttributedInv'
  <2>1. request[h] # Null /\ WriteStatus(h) /\ UNCHANGED stockVars
    BY <1>8 DEF CommitAdvance
  <2>2. ASSUME NEW i \in Items PROVE Balance(i)'
    BY <1>1, <1>2, <2>1 DEF stockVars, UnitsReserved, UnitsTaken, ManualUnits
  <2>3. \A p \in OrderIds : status'[p] = "NONE" => reservations'[p] = 0 /\ deductions'[p] = 0
    BY <1>2, <2>1 DEF stockVars, AttributedInv
  <2> QED  BY <2>2, <2>3 DEF AttributedInv, StockAttributed
<1>9. ASSUME NEW i \in Items, NEW delta \in Int, NEW note \in Nat \cup {Null},
             ApplyDelta(i, delta, note), OrdersUnchanged
      PROVE  AttributedInv'
  <2>1. /\ reserved' = reserved /\ reservations' = reservations /\ deductions' = deductions
        /\ orderLines' = orderLines /\ status' = status
    BY <1>9 DEF ApplyDelta, accountVars, OrdersUnchanged, orderVars
  <2>2. ASSUME NEW j \in Items PROVE Balance(j)'
    <3>1. UnitsReserved(j)' = UnitsReserved(j) /\ UnitsTaken(j)' = UnitsTaken(j)
      BY <2>1 DEF UnitsReserved, UnitsTaken
    <3>2. /\ ManualUnits(j)' - ManualUnits(j) = quantity'[j] - quantity[j]
          /\ ManualUnits(j)' \in Int /\ ManualUnits(j) \in Int
      BY <1>9, CorrectedUnits DEF TypeOK
    <3>3. quantity'[j] \in Int
      BY DEF TypeOK, InventoryTypeOK
    <3> QED  BY <1>1, <2>1, <3>1, <3>2, <3>3
  <2> QED  BY <2>1, <2>2 DEF AttributedInv, StockAttributed
<1>10. ASSUME NEW i \in Items, NEW d \in ManualDeltas, AdjustManual(i, d), OrdersUnchanged
       PROVE  AttributedInv'
  BY <1>9, <1>10, StockAssumption DEF AdjustManual
<1>11. ASSUME NEW a \in Admins, SetQuantityApply(a), OrdersUnchanged
       PROVE  AttributedInv'
  <2>1. setting[a] \in SetRequest
    BY <1>11 DEF TypeOK, InventoryTypeOK, SetQuantityApply
  <2> QED  BY <1>9, <1>11, <2>1 DEF SetQuantityApply, SetRequest
\* Every other step leaves the stock, the accounts and the orders alone.
<1>12. ASSUME UNCHANGED <<quantity, reserved, ledger, reservations, deductions, status, orderLines>>
       PROVE  AttributedInv'
  <2>1. ASSUME NEW i \in Items PROVE Balance(i)'
    BY <1>1, <1>12 DEF UnitsReserved, UnitsTaken, ManualUnits
  <2> QED  BY <1>12, <2>1 DEF AttributedInv, StockAttributed
<1> QED
  BY <1>4, <1>5, <1>6, <1>7, <1>8, <1>10, <1>11, <1>12
     DEF Next, vars, orderVars, OrdersUnchanged, BeginCancelMine, BeginUpdateStatus,
         BeginAdminCancel, BeginRequest, AbortRequest, SetQuantityRead, SetQuantityAbort,
         inventoryVars, stockVars

\* Whatever races have done to an order, every unit reserved on a stock row and
\* every unit missing from it is down to the account of some order or to a
\* manual movement.
THEOREM StockAlwaysAttributed == Spec => []StockAttributed
<1>1. AttributedInv => StockAttributed
  BY DEF AttributedInv
<1> QED
  BY <1>1, TypeCorrect, IInvInit, IInvNext, AttributedInit, AttributedNext, PTL DEF Spec

\* An account that is one for the orders of a set and zero for the others.
LEMMA UnitsCounted ==
  ASSUME TypeOK, NEW i \in Items, NEW account, NEW T \in SUBSET OrderIds,
         \A o \in OrderIds : account[o] = IF o \in T THEN 1 ELSE 0
  PROVE  SumFunctionOnSet([o \in OrderIds |-> account[o] * orderLines[o][i]], OrderIds)
           = UnitsOf(i, T)
<1> DEFINE f == [o \in OrderIds |-> account[o] * orderLines[o][i]]
           g == [o \in OrderIds |-> orderLines[o][i]]
<1>1. \A o \in OrderIds : orderLines[o][i] \in Nat
  BY DEF TypeOK, Lines
<1>2. \A o \in OrderIds : f[o] = IF o \in T THEN g[o] ELSE 0
  BY <1>1
<1>3. \A o \in OrderIds : f[o] \in Int
  BY <1>1, <1>2
<1>4. UnitsOf(i, T) = SumFunctionOnSet(g, T)
  BY DEF UnitsOf
<1>5. IsFiniteSet(T)
  BY OrdersAssumption, FS_Subset
<1> HIDE DEF f, g
<1>6. SumFunctionOnSet(f, OrderIds) = SumFunctionOnSet(f, T)
  BY <1>2, <1>3, OrdersAssumption, SumRestrict
<1>7. SumFunctionOnSet(f, T) = SumFunctionOnSet(g, T)
  BY <1>2, <1>5, SumSame
<1> QED  BY <1>4, <1>6, <1>7 DEF f

\* While no two requests overlap on any order, what is reserved is what the
\* pending orders ask for, and what is missing is what the accepted ones took.
THEOREM StockAlwaysConserved == Spec => []StockConserved
<1>1. ASSUME TypeOK, IInv, StockAttributed PROVE StockConserved
  <2> SUFFICES ASSUME contested = {}, NEW i \in Items
               PROVE  /\ UnitsReserved(i) = UnitsOf(i, {o \in OrderIds : status[o] = "PENDING"})
                      /\ UnitsTaken(i)
                           = UnitsOf(i, {o \in OrderIds : status[o] \in OPERATIONAL_TARGETS})
    BY <1>1 DEF StockConserved, StockAttributed
  <2> DEFINE pending == {o \in OrderIds : status[o] = "PENDING"}
             accepted == {o \in OrderIds : status[o] \in OPERATIONAL_TARGETS}
  <2>1. \A o \in OrderIds : /\ reservations[o] = IF o \in pending THEN 1 ELSE 0
                           /\ deductions[o] = IF o \in accepted THEN 1 ELSE 0
    BY <1>1 DEF IInv, UncontestedSettled
  <2> HIDE DEF pending, accepted
  <2>2. pending \in SUBSET OrderIds /\ accepted \in SUBSET OrderIds
    BY DEF pending, accepted
  <2>3. UnitsReserved(i) = UnitsOf(i, pending)
    BY <1>1, <2>1, <2>2, UnitsCounted DEF UnitsReserved
  <2>4. UnitsTaken(i) = UnitsOf(i, accepted)
    BY <1>1, <2>1, <2>2, UnitsCounted DEF UnitsTaken
  <2> QED  BY <2>3, <2>4 DEF pending, accepted
<1> QED
  BY <1>1, StockAlwaysAttributed, TypeCorrect, IInvInit, IInvNext, PTL DEF Spec
=============================================================================
