-------------------------- MODULE OrderTransactions --------------------------
(***************************************************************************)
(* The transactions of Orders, row by row.                                 *)
(*                                                                         *)
(* The stock operations take their rows one at a time: SELECT ... FOR      *)
(* UPDATE waits for the row, the line is checked against what was read and *)
(* the row is written with absolute values.  The writes are private to the *)
(* transaction, and the rows stay locked, until it commits or rolls back.  *)
(* No order of the lines is fixed (order.items is read with no ORDER BY,   *)
(* and a cart lists its lines as they were added), so two transactions may *)
(* take two rows in opposite orders; the database then rolls one back.     *)
(*                                                                         *)
(* The module shows that the single-step transactions of Orders are what   *)
(* these locks provide, and that every request comes to an end.            *)
(***************************************************************************)
EXTENDS Orders

VARIABLES
  tx,    \* the transaction a handler has open
  lock   \* the handler whose transaction has the stock row locked

txVars == <<quantity, reserved, ledger, setting, reservations, deductions,
            status, fulfilment, orderLines, history, request, contested, tx, lock>>

Relations == INSTANCE Relation

\* What one unit of a line does to its row, per stock operation.
QuantityChange == [reserve |-> 0, confirm |-> -1, release |-> 0, restore |-> 1, none |-> 0]
ReservedChange == [reserve |-> 1, confirm |-> -1, release |-> -1, restore |-> 0, none |-> 0]
StockOperation == DOMAIN QuantityChange

Row == [quantity : Int, reserved : Int]

Transaction == [op : StockOperation, order : OrderIds, type : FulfilmentType, units : Lines,
                todo : SUBSET Items, waits : Items \cup {Null},
                rows : [Items -> Row \cup {Null}]]

ASSUME TxAssumption == Null \notin Row \cup Transaction \cup Handlers

TxTypeOK ==
  /\ TypeOK
  /\ tx \in [Handlers -> Transaction \cup {Null}]
  /\ lock \in [Items -> Handlers \cup {Null}]

TxInit ==
  /\ Init
  /\ tx = [h \in Handlers |-> Null]
  /\ lock = [i \in Items |-> Null]

Open(h) == tx[h] # Null
OrderRowsUnchanged == UNCHANGED <<inventoryVars, orderVars, contested>>

-----------------------------------------------------------------------------
(* Reading and opening.                                                    *)

\* The stock operation of the transaction a handler goes on to.
StockOperationOf(r) ==
  CASE r.op = "cancelMine" -> "release"
    [] r.op = "updateStatus" /\ r.seen = "PENDING" /\ r.target = "CONFIRMED" -> "confirm"
    [] r.op = "adminCancel" /\ r.seen \in RestorableStatuses -> "restore"
    [] OTHER -> "none"

OpenTx(h, op, o, type, units) ==
  /\ ~Open(h)
  /\ tx' = [tx EXCEPT ![h] =
              [op |-> op, order |-> o, type |-> type, units |-> units,
               todo |-> IF op = "none" THEN {} ELSE {i \in Items : units[i] > 0},
               waits |-> Null, rows |-> [i \in Items |-> Null]]]
  /\ UNCHANGED <<lock, request>>
  /\ OrderRowsUnchanged

OpenPlace(h, o, type, basket) ==
  /\ request[h] = Null
  /\ status[o] = "NONE"
  /\ \A g \in Handlers : Open(g) => tx[g].order # o
  /\ OpenTx(h, "reserve", o, type, basket)

OpenWrite(h) ==
  /\ request[h] # Null
  /\ LET o == request[h].order IN
       OpenTx(h, StockOperationOf(request[h]), o, fulfilment[o], orderLines[o])

ReadOrder(h) ==
  /\ ~Open(h)
  /\ \E o \in OrderIds :
       \/ BeginCancelMine(h, o)
       \/ \E t \in OPERATIONAL_TARGETS : BeginUpdateStatus(h, o, t)
       \/ BeginAdminCancel(h, o)
  /\ UNCHANGED <<tx, lock>>

-----------------------------------------------------------------------------
(* The rows.                                                               *)

Wants(h, i) == Open(h) /\ i \in tx[h].todo /\ tx[h].waits \in {i, Null}

\* The line is refused: not enough available, reserved or on hand.
Refused(op, i, n) ==
  \/ op = "reserve" /\ n > Available(i)
  \/ op \in {"confirm", "release"} /\ n > reserved[i]
  \/ op = "confirm" /\ n > quantity[i]

\* Faulty: reads the row without FOR UPDATE, so it does not wait for it.
TakeRowUnlocked(h, i) ==
  /\ Wants(h, i)
  /\ LET t == tx[h] IN
       /\ ~Refused(t.op, i, t.units[i])
       /\ tx' = [tx EXCEPT ![h].todo = @ \ {i}, ![h].waits = Null,
            ![h].rows[i] = [quantity |-> quantity[i] + QuantityChange[t.op] * t.units[i],
                            reserved |-> reserved[i] + ReservedChange[t.op] * t.units[i]]]
  /\ lock' = [lock EXCEPT ![i] = h]
  /\ UNCHANGED request /\ OrderRowsUnchanged

TakeRow(h, i) ==
  /\ Wants(h, i)
  /\ lock[i] = Null
  /\ LET t == tx[h] IN
       /\ ~Refused(t.op, i, t.units[i])
       /\ tx' = [tx EXCEPT ![h].todo = @ \ {i}, ![h].waits = Null,
            ![h].rows[i] = [quantity |-> quantity[i] + QuantityChange[t.op] * t.units[i],
                            reserved |-> reserved[i] + ReservedChange[t.op] * t.units[i]]]
  /\ lock' = [lock EXCEPT ![i] = h]
  /\ UNCHANGED request /\ OrderRowsUnchanged

WaitForRow(h, i) ==
  /\ Wants(h, i) /\ tx[h].waits = Null
  /\ lock[i] # Null
  /\ tx' = [tx EXCEPT ![h].waits = i]
  /\ UNCHANGED <<lock, request>> /\ OrderRowsUnchanged

-----------------------------------------------------------------------------
(* The end.                                                                *)

\* Faulty: the rows stay locked when the transaction ends.
StillLocked(h) == [i \in Items |-> lock[i]]

Unlocked(h) == [i \in Items |-> IF lock[i] = h THEN Null ELSE lock[i]]

RollBack(h) ==
  /\ tx' = [tx EXCEPT ![h] = Null]
  /\ request' = [request EXCEPT ![h] = Null]
  /\ lock' = Unlocked(h)
  /\ OrderRowsUnchanged

\* Faulty: passes over a line it cannot serve and goes on with the others.
SkipLine(h, i) ==
  /\ Wants(h, i)
  /\ lock[i] = Null
  /\ Refused(tx[h].op, i, tx[h].units[i])
  /\ tx' = [tx EXCEPT ![h].todo = @ \ {i}, ![h].waits = Null]
  /\ UNCHANGED <<lock, request>>
  /\ OrderRowsUnchanged

\* A line throws; what the lines before it wrote goes with it.
RefuseLine(h, i) ==
  /\ Wants(h, i)
  /\ lock[i] = Null
  /\ Refused(tx[h].op, i, tx[h].units[i])
  /\ RollBack(h)

\* The deadlock detector rolls back a transaction of a cycle of waiters.
WaitsOn == [h, g \in Handlers |->
              Open(h) /\ tx[h].waits # Null /\ lock[tx[h].waits] = g]

WaitsForItself(h) == Relations!TransitiveClosure(WaitsOn, Handlers)[h, h]

DeadlockVictim(h) ==
  /\ WaitsForItself(h)
  /\ RollBack(h)

\* Lost before or during its transaction: a timeout, a connection, the process.
Fail(h) ==
  /\ request[h] # Null \/ Open(h)
  /\ RollBack(h)

\* The rows become visible as the transaction left them, with their movements.
PublishRows(t) ==
  /\ quantity' = [i \in Items |-> IF t.rows[i] = Null THEN quantity[i] ELSE t.rows[i].quantity]
  /\ reserved' = [i \in Items |-> IF t.rows[i] = Null THEN reserved[i] ELSE t.rows[i].reserved]
  /\ ledger' = [i \in Items |->
       IF t.rows[i] = Null \/ t.op \notin {"confirm", "restore"} THEN ledger[i]
       ELSE Append(ledger[i],
              [type |-> IF t.op = "confirm" THEN "ORDER_CONFIRM" ELSE "ORDER_CANCEL",
               quantityChange |-> QuantityChange[t.op] * t.units[i],
               quantityAfter |-> t.rows[i].quantity, order |-> t.order, note |-> Null])]

EndTx(h) ==
  /\ Open(h) /\ tx[h].todo = {}
  /\ PublishRows(tx[h])
  /\ Account(tx[h].order, ReservedChange[tx[h].op], -QuantityChange[tx[h].op])
  /\ tx' = [tx EXCEPT ![h] = Null]
  /\ lock' = Unlocked(h)

CommitPlace(h) ==
  /\ EndTx(h)
  /\ request[h] = Null
  /\ LET t == tx[h] IN
       /\ status' = [status EXCEPT ![t.order] = "PENDING"]
       /\ fulfilment' = [fulfilment EXCEPT ![t.order] = t.type]
       /\ orderLines' = [orderLines EXCEPT ![t.order] = t.units]
       /\ history' = [history EXCEPT ![t.order] =
                        <<[fromStatus |-> Null, toStatus |-> "PENDING"]>>]
  /\ UNCHANGED <<setting, request, contested>>

CommitWrite(h) ==
  /\ EndTx(h)
  /\ request[h] # Null
  /\ WriteStatus(h)

\* A manual correction takes its one row and ends in the same step.
BesideTransactions == OrdersUnchanged /\ UNCHANGED <<tx, lock>>

TxNext ==
  \/ \E h \in Handlers, o \in OrderIds, type \in OrderTypes, basket \in Baskets :
       OpenPlace(h, o, type, basket)
  \/ \E h \in Handlers : ReadOrder(h)
  \/ \E h \in Handlers : OpenWrite(h)
  \/ \E h \in Handlers, i \in Items : TakeRow(h, i)
  \/ \E h \in Handlers, i \in Items : WaitForRow(h, i)
  \/ \E h \in Handlers, i \in Items : RefuseLine(h, i)
  \/ \E h \in Handlers : DeadlockVictim(h)
  \/ \E h \in Handlers : Fail(h)
  \/ \E h \in Handlers : CommitPlace(h)
  \/ \E h \in Handlers : CommitWrite(h)
  \/ \E i \in Items, d \in ManualDeltas :
       lock[i] = Null /\ AdjustManual(i, d) /\ BesideTransactions
  \/ \E a \in Admins, i \in Items, q \in ExactQuantities :
       SetQuantityRead(a, i, q) /\ BesideTransactions
  \/ \E a \in Admins :
       SetQuantityApply(a) /\ lock[setting[a].item] = Null /\ BesideTransactions
  \/ \E a \in Admins : SetQuantityAbort(a) /\ BesideTransactions

\* A handler goes on while it can, a row is granted to a waiter in the end (row
\* locks are queued), and the detector always finds a cycle.  Nothing says that
\* a new request arrives.
Fairness ==
  /\ \A h \in Handlers :
       /\ WF_txVars(OpenWrite(h))
       /\ SF_txVars(\E i \in Items : TakeRow(h, i) \/ RefuseLine(h, i))
       /\ WF_txVars(\E i \in Items : WaitForRow(h, i))
       /\ WF_txVars(CommitPlace(h) \/ CommitWrite(h))
  /\ WF_txVars(\E h \in Handlers : DeadlockVictim(h))

TxSpec == TxInit /\ [][TxNext]_txVars
FairTxSpec == TxSpec /\ Fairness

-----------------------------------------------------------------------------
(* Properties.                                                             *)

\* The locks make the transactions atomic: seen through the rows, the orders
\* and the requests, the row-by-row transactions do what Orders does in one
\* step each.  A row read without its lock would publish a stale value.
Atomic ==
  INSTANCE Orders WITH
    quantity <- quantity, reserved <- reserved, ledger <- ledger, setting <- setting,
    reservations <- reservations, deductions <- deductions,
    status <- status, fulfilment <- fulfilment, orderLines <- orderLines,
    history <- history, request <- request, contested <- contested
ImplementsAtomic == Atomic!Init /\ [][Atomic!Next]_vars

\* Every request ends, committed or refused, even when two transactions take
\* the same rows in opposite orders.
RequestsEnd ==
  \A h \in Handlers : (request[h] # Null \/ Open(h)) ~> (request[h] = Null /\ ~Open(h))
=============================================================================
