----------------------- MODULE OrderTransactionsProofs -----------------------
(***************************************************************************)
(* The row-by-row transactions implement the single-step transactions of   *)
(* Orders, for every number of rows, orders, handlers and staff and any    *)
(* baskets.                                                                *)
(***************************************************************************)
EXTENDS OrderTransactions, OrdersProofs

-----------------------------------------------------------------------------
(* An open transaction is that of its handler's request, or a placement; a *)
(* row it has taken is locked by it, and what it holds for the row is the  *)
(* row as it is, changed by its line, which was not refused.               *)

RequestFits(h) ==
  LET t == tx[h] IN
  \/ /\ request[h] = Null
     /\ t.op = "reserve" /\ status[t.order] = "NONE"
     /\ t.type \in OrderTypes /\ t.units \in Baskets
  \/ /\ request[h] # Null
     /\ t.op = StockOperationOf(request[h])
     /\ t.order = request[h].order /\ t.units = orderLines[t.order]

Taken(h, i) == tx[h].rows[i] # Null

RowFits(h, i) ==
  LET t == tx[h] IN
  /\ Taken(h, i) =>
       /\ lock[i] = h /\ t.op # "none" /\ t.units[i] > 0
       /\ ~Refused(t.op, i, t.units[i])
       /\ t.rows[i].quantity = quantity[i] + QuantityChange[t.op] * t.units[i]
       /\ t.rows[i].reserved = reserved[i] + ReservedChange[t.op] * t.units[i]
  /\ i \in t.todo <=> ~Taken(h, i) /\ t.op # "none" /\ t.units[i] > 0

TxFits(h) == Open(h) => RequestFits(h) /\ \A i \in Items : RowFits(h, i)

\* No two placements make the same order.
Placing(g) == Open(g) /\ request[g] = Null

PlacementsApart ==
  \A g \in Handlers : Placing(g) =>
    \A f \in Handlers : Placing(f) /\ tx[f].order = tx[g].order => f = g

TxInv ==
  /\ TxTypeOK /\ IInv
  /\ \A h \in Handlers : TxFits(h)
  /\ PlacementsApart

-----------------------------------------------------------------------------
(* Facts of the operations.                                                *)

LEMMA Changes ==
  /\ StockOperation = {"reserve", "confirm", "release", "restore", "none"}
  /\ QuantityChange["reserve"] = 0 /\ ReservedChange["reserve"] = 1
  /\ QuantityChange["confirm"] = -1 /\ ReservedChange["confirm"] = -1
  /\ QuantityChange["release"] = 0 /\ ReservedChange["release"] = -1
  /\ QuantityChange["restore"] = 1 /\ ReservedChange["restore"] = 0
  /\ QuantityChange["none"] = 0 /\ ReservedChange["none"] = 0
BY DEF StockOperation, QuantityChange, ReservedChange

LEMMA ChangesOfLines ==
  ASSUME NEW op \in StockOperation, NEW n \in Int, NEW q \in Int
  PROVE  q + QuantityChange[op] * n \in Int /\ q + ReservedChange[op] * n \in Int
BY Changes

LEMMA ChangesOf ==
  ASSUME NEW op \in StockOperation, NEW n \in Int
  PROVE  /\ op = "none" \/ n = 0 => QuantityChange[op] * n = 0 /\ ReservedChange[op] * n = 0
         /\ op = "reserve" => QuantityChange[op] * n = 0 /\ ReservedChange[op] * n = n
         /\ op = "confirm" => QuantityChange[op] * n = -n /\ ReservedChange[op] * n = -n
         /\ op = "release" => QuantityChange[op] * n = 0 /\ ReservedChange[op] * n = -n
         /\ op = "restore" => QuantityChange[op] * n = n /\ ReservedChange[op] * n = 0
BY Changes

LEMMA AccountOf ==
  ASSUME NEW op
  PROVE  /\ op = "reserve" => ReservedChange[op] = 1 /\ -QuantityChange[op] = 0
         /\ op = "confirm" => ReservedChange[op] = -1 /\ -QuantityChange[op] = 1
         /\ op = "release" => ReservedChange[op] = -1 /\ -QuantityChange[op] = 0
         /\ op = "restore" => ReservedChange[op] = 0 /\ -QuantityChange[op] = -1
         /\ op = "none" => ReservedChange[op] = 0 /\ -QuantityChange[op] = 0
<1>1. \A x : /\ x = 0 => -x = 0
             /\ x = -1 => -x = 1
             /\ x = 1 => -x = -1
  OBVIOUS
<1> QED  BY <1>1, Changes

LEMMA OperationsOfRequests ==
  ASSUME NEW r
  PROVE  /\ StockOperationOf(r) \in StockOperation \ {"reserve"}
         /\ r.op = "cancelMine" => StockOperationOf(r) = "release"
         /\ r.op = "updateStatus" =>
              StockOperationOf(r) = IF r.seen = "PENDING" /\ r.target = "CONFIRMED"
                                    THEN "confirm" ELSE "none"
         /\ r.op = "adminCancel" =>
              StockOperationOf(r) = IF r.seen \in RestorableStatuses THEN "restore" ELSE "none"
BY Changes DEF StockOperationOf

\* What h holds in a transaction, once typed.
LEMMA TxTyped ==
  ASSUME TxTypeOK, NEW h \in Handlers, Open(h)
  PROVE  /\ tx[h] \in Transaction
         /\ tx[h].op \in StockOperation /\ tx[h].order \in OrderIds
         /\ tx[h].units \in [Items -> Nat] /\ tx[h].todo \subseteq Items
         /\ tx[h].rows \in [Items -> Row \cup {Null}]
BY DEF TxTypeOK, Open, Transaction, Lines

-----------------------------------------------------------------------------
(* A step beside a transaction.                                            *)

\* A transaction stays as it should while nobody changes the rows it has taken
\* or the order it is about.
LEMMA OtherFits ==
  ASSUME NEW g \in Handlers, TxFits(g), tx'[g] = tx[g], request'[g] = request[g],
         \A i \in Items : Open(g) /\ Taken(g, i) =>
           lock'[i] = lock[i] /\ quantity'[i] = quantity[i] /\ reserved'[i] = reserved[i],
         Open(g) /\ request[g] = Null => status'[tx[g].order] = status[tx[g].order],
         Open(g) /\ request[g] # Null => orderLines'[tx[g].order] = orderLines[tx[g].order]
  PROVE  TxFits(g)'
<1> SUFFICES ASSUME Open(g) PROVE RequestFits(g)' /\ \A i \in Items : RowFits(g, i)'
  BY DEF TxFits, Open
<1>1. RequestFits(g)'
  BY DEF TxFits, RequestFits
<1>2. ASSUME NEW i \in Items PROVE RowFits(g, i)'
  <2>1. RowFits(g, i)
    BY DEF TxFits
  <2>2. CASE ~Taken(g, i)
    BY <2>1, <2>2 DEF RowFits, Taken
  <2>3. CASE Taken(g, i)
    BY <2>1, <2>3 DEF RowFits, Taken, Refused, Available
  <2> QED  BY <2>2, <2>3
<1> QED  BY <1>1, <1>2

LEMMA StayApart ==
  ASSUME PlacementsApart,
         \A g \in Handlers : Placing(g)' => Placing(g) /\ tx'[g].order = tx[g].order
  PROVE  PlacementsApart'
BY DEF PlacementsApart

\* A row that no transaction has locked is taken by none.
LEMMA FreeRow ==
  ASSUME TxInv, NEW g \in Handlers, Open(g), NEW i \in Items, Taken(g, i)
  PROVE  lock[i] = g /\ lock[i] # Null
BY TxAssumption DEF TxInv, TxFits, RowFits

\* A step of no transaction's: it may change the rows that are not locked.
LEMMA BesideKeeps ==
  ASSUME TxInv, TypeOK', IInv', UNCHANGED <<tx, lock, request, orderVars>>,
         \A i \in Items : lock[i] # Null => quantity'[i] = quantity[i] /\ reserved'[i] = reserved[i]
  PROVE  TxInv'
<1>1. TxTypeOK'
  BY DEF TxInv, TxTypeOK
<1>2. ASSUME NEW g \in Handlers PROVE TxFits(g)'
  BY FreeRow, OtherFits DEF TxInv, orderVars
<1>3. PlacementsApart'
  BY StayApart DEF TxInv, Placing, Open
<1> QED  BY <1>1, <1>2, <1>3 DEF TxInv

-----------------------------------------------------------------------------
(* Opening, and taking rows: nothing of it shows.                          *)

LEMMA OpenTxKeeps ==
  ASSUME TxInv, TypeOK', IInv', NEW h \in Handlers, NEW op \in StockOperation,
         NEW o \in OrderIds, NEW type \in FulfilmentType, NEW units \in Lines,
         OpenTx(h, op, o, type, units),
         \/ /\ request[h] = Null /\ op = "reserve" /\ status[o] = "NONE"
            /\ type \in OrderTypes /\ units \in Baskets
            /\ \A g \in Handlers : Open(g) => tx[g].order # o
         \/ /\ request[h] # Null /\ op = StockOperationOf(request[h])
            /\ o = request[h].order /\ units = orderLines[o]
  PROVE  TxInv'
<1> SUFFICES ASSUME NEW t,
                    t = [op |-> op, order |-> o, type |-> type, units |-> units,
                         todo |-> IF op = "none" THEN {} ELSE {i \in Items : units[i] > 0},
                         waits |-> Null, rows |-> [i \in Items |-> Null]]
             PROVE  TxInv'
  OBVIOUS
<1>1. /\ t \in Transaction /\ t.op = op /\ t.order = o /\ t.type = type /\ t.units = units
      /\ t.todo = IF op = "none" THEN {} ELSE {i \in Items : units[i] > 0}
      /\ \A i \in Items : t.rows[i] = Null
  BY DEF Transaction
<1>2. /\ ~Open(h) /\ tx' = [tx EXCEPT ![h] = t]
      /\ UNCHANGED <<lock, request, quantity, reserved, status, orderLines>>
  BY DEF OpenTx, OrderRowsUnchanged, inventoryVars, orderVars
<1>3. /\ tx'[h] = t /\ \A g \in Handlers \ {h} : tx'[g] = tx[g]
  BY <1>2 DEF TxInv, TxTypeOK
<1>4. TxTypeOK'
  BY <1>1, <1>2 DEF TxInv, TxTypeOK
<1>5. RequestFits(h)' /\ \A i \in Items : RowFits(h, i)'
  BY <1>1, <1>2, <1>3 DEF RequestFits, RowFits, Taken
<1>6. ASSUME NEW g \in Handlers \ {h} PROVE TxFits(g)'
  BY <1>2, <1>3, OtherFits DEF TxInv
<1>7. PlacementsApart'
  BY <1>1, <1>2, <1>3 DEF TxInv, PlacementsApart, Placing, Open
<1> QED  BY <1>4, <1>5, <1>6, <1>7 DEF TxInv, TxFits

LEMMA ReadOrderKeeps ==
  ASSUME TxInv, TypeOK', IInv', NEW h \in Handlers, ReadOrder(h)
  PROVE  TxInv'
<1>1. /\ ~Open(h) /\ \A g \in Handlers \ {h} : request'[g] = request[g]
      /\ UNCHANGED <<tx, lock, quantity, reserved, status, orderLines>>
  BY DEF ReadOrder, BeginCancelMine, BeginUpdateStatus, BeginAdminCancel, BeginRequest,
         inventoryVars, orderVars, TxInv, TxTypeOK, TypeOK
<1>2. TxTypeOK'
  BY <1>1 DEF TxInv, TxTypeOK
<1>3. ASSUME NEW g \in Handlers \ {h} PROVE TxFits(g)'
  BY <1>1, OtherFits DEF TxInv
<1>4. TxFits(h)'
  BY <1>1 DEF TxFits, Open
<1>5. PlacementsApart'
  BY <1>1, StayApart DEF TxInv, Placing, Open
<1> QED  BY <1>2, <1>3, <1>4, <1>5 DEF TxInv

LEMMA TakeRowKeeps ==
  ASSUME TxInv, TypeOK', IInv', NEW h \in Handlers, NEW i \in Items, TakeRow(h, i)
  PROVE  TxInv'
<1> PICK old : old = tx[h]
  OBVIOUS
<1> PICK row : row = [quantity |-> quantity[i] + QuantityChange[old.op] * old.units[i],
                      reserved |-> reserved[i] + ReservedChange[old.op] * old.units[i]]
  OBVIOUS
<1> PICK t : t = [old EXCEPT !.todo = old.todo \ {i}, !.waits = Null,
                             !.rows = [old.rows EXCEPT ![i] = row]]
  OBVIOUS
<1>1. /\ Open(h) /\ i \in old.todo /\ lock[i] = Null /\ ~Refused(old.op, i, old.units[i])
      /\ lock' = [lock EXCEPT ![i] = h]
      /\ UNCHANGED <<request, quantity, reserved, status, orderLines>>
  BY DEF TakeRow, Wants, OrderRowsUnchanged, inventoryVars, orderVars
<1>2. tx' = [tx EXCEPT ![h] = t]
  BY DEF TakeRow
<1>3. /\ old \in Transaction /\ old.op \in StockOperation /\ old.units \in [Items -> Nat]
      /\ old.rows \in [Items -> Row \cup {Null}]
  BY <1>1, TxTyped DEF TxInv
<1>4. /\ t.op = old.op /\ t.order = old.order /\ t.type = old.type /\ t.units = old.units
      /\ t.todo = old.todo \ {i} /\ t.waits = Null /\ t.rows = [old.rows EXCEPT ![i] = row]
  BY <1>3 DEF Transaction
<1>5. row \in Row /\ row # Null
  <2>1. quantity[i] \in Int /\ reserved[i] \in Int /\ old.units[i] \in Int
    BY <1>3 DEF TxInv, TxTypeOK, TypeOK, InventoryTypeOK
  <2> QED  BY <1>3, <2>1, ChangesOfLines, TxAssumption DEF Row
<1>6. t \in Transaction
  <2>1. [old.rows EXCEPT ![i] = row] \in [Items -> Row \cup {Null}]
    BY <1>3, <1>5
  <2> QED  BY <1>3, <2>1 DEF Transaction
<1>7. /\ tx'[h] = t /\ \A g \in Handlers \ {h} : tx'[g] = tx[g]
  BY <1>2 DEF TxInv, TxTypeOK
<1>8. TxTypeOK'
  BY <1>1, <1>2, <1>6 DEF TxInv, TxTypeOK
<1>9. ASSUME NEW g \in Handlers \ {h} PROVE TxFits(g)'
  <2>1. \A j \in Items : Open(g) /\ Taken(g, j) => lock[j] = g /\ lock[j] # Null
    BY FreeRow
  <2>2. \A j \in Items : Open(g) /\ Taken(g, j) => lock'[j] = lock[j]
    BY <1>1, <2>1
  <2>3. TxFits(g)
    BY DEF TxInv
  <2> QED  BY <1>1, <1>7, <2>2, <2>3, OtherFits
<1>10. RequestFits(h)'
  <2>1. RequestFits(h)
    BY <1>1 DEF TxInv, TxFits
  <2> QED  BY <1>1, <1>4, <1>7, <2>1 DEF RequestFits
<1>11. ASSUME NEW j \in Items PROVE RowFits(h, j)'
  <2>1. RowFits(h, j)
    BY <1>1 DEF TxInv, TxFits
  <2>2. CASE j = i
    <3>1. /\ t.rows[i] = row /\ lock'[i] = h /\ i \notin t.todo
          /\ row.quantity = quantity[i] + QuantityChange[old.op] * old.units[i]
          /\ row.reserved = reserved[i] + ReservedChange[old.op] * old.units[i]
      BY <1>1, <1>3, <1>4 DEF TxInv, TxTypeOK
    <3>2. old.op # "none" /\ old.units[i] > 0
      BY <1>1, <2>1, <2>2 DEF RowFits
    <3>3. Refused(old.op, i, old.units[i])' <=> Refused(old.op, i, old.units[i])
      BY <1>1 DEF Refused, Available
    <3> QED  BY <1>1, <1>4, <1>5, <1>7, <2>2, <3>1, <3>2, <3>3 DEF RowFits, Taken
  <2>3. CASE j # i
    <3>1. /\ t.rows[j] = old.rows[j] /\ lock'[j] = lock[j]
          /\ j \in t.todo <=> j \in old.todo
      BY <1>1, <1>3, <1>4, <2>3 DEF TxInv, TxTypeOK
    <3> QED  BY <1>1, <1>4, <1>7, <2>1, <3>1 DEF RowFits, Taken, Refused, Available
  <2> QED  BY <2>2, <2>3
<1>12. PlacementsApart'
  <2>1. Placing(h)' => Placing(h) /\ tx'[h].order = old.order
    BY <1>1, <1>4, <1>7 DEF Placing
  <2>2. \A g \in Handlers \ {h} : Placing(g)' => Placing(g) /\ tx'[g].order = tx[g].order
    BY <1>1, <1>7 DEF Placing, Open
  <2> QED  BY <2>1, <2>2, StayApart DEF TxInv
<1> QED  BY <1>8, <1>9, <1>10, <1>11, <1>12 DEF TxInv, TxFits

LEMMA WaitForRowKeeps ==
  ASSUME TxInv, TypeOK', IInv', NEW h \in Handlers, NEW i \in Items, WaitForRow(h, i)
  PROVE  TxInv'
<1> PICK old, t : old = tx[h] /\ t = [old EXCEPT !.waits = i]
  OBVIOUS
<1>1. /\ Open(h) /\ tx' = [tx EXCEPT ![h] = t]
      /\ UNCHANGED <<lock, request, quantity, reserved, status, orderLines>>
  BY DEF WaitForRow, Wants, OrderRowsUnchanged, inventoryVars, orderVars
<1>2. old \in Transaction
  BY <1>1, TxTyped DEF TxInv
<1>3. /\ t \in Transaction
      /\ t.op = old.op /\ t.order = old.order /\ t.type = old.type /\ t.units = old.units
      /\ t.todo = old.todo /\ t.rows = old.rows
  BY <1>2 DEF Transaction
<1>4. /\ tx'[h] = t /\ \A g \in Handlers \ {h} : tx'[g] = tx[g]
  BY <1>1 DEF TxInv, TxTypeOK
<1>5. TxTypeOK'
  BY <1>1, <1>3 DEF TxInv, TxTypeOK
<1>6. ASSUME NEW g \in Handlers \ {h} PROVE TxFits(g)'
  BY <1>1, <1>4, OtherFits DEF TxInv
<1>7. RequestFits(h)'
  BY <1>1, <1>3, <1>4 DEF TxInv, TxFits, RequestFits
<1>8. ASSUME NEW j \in Items PROVE RowFits(h, j)'
  <2>1. RowFits(h, j)
    BY <1>1 DEF TxInv, TxFits
  <2> QED  BY <1>1, <1>3, <1>4, <2>1 DEF RowFits, Taken, Refused, Available
<1>9. PlacementsApart'
  <2>1. Placing(h)' => Placing(h) /\ tx'[h].order = old.order
    BY <1>1, <1>3, <1>4 DEF Placing
  <2>2. \A g \in Handlers \ {h} : Placing(g)' => Placing(g) /\ tx'[g].order = tx[g].order
    BY <1>1, <1>4 DEF Placing, Open
  <2> QED  BY <2>1, <2>2, StayApart DEF TxInv
<1> QED  BY <1>5, <1>6, <1>7, <1>8, <1>9 DEF TxInv, TxFits

-----------------------------------------------------------------------------
(* The end of a transaction, committed or rolled back.                     *)

\* The request and the locks of h are gone; what it wrote was on rows it had
\* locked, and on its order.
LEMMA EndKeeps ==
  ASSUME TxInv, TypeOK', IInv', NEW h \in Handlers,
         tx' = [tx EXCEPT ![h] = Null], request' = [request EXCEPT ![h] = Null],
         lock' = Unlocked(h),
         \A i \in Items : ~(Open(h) /\ Taken(h, i)) =>
           quantity'[i] = quantity[i] /\ reserved'[i] = reserved[i],
         \A g \in Handlers \ {h} : Open(g) /\ request[g] = Null =>
           status'[tx[g].order] = status[tx[g].order],
         \A g \in Handlers \ {h} : Open(g) /\ request[g] # Null =>
           orderLines'[tx[g].order] = orderLines[tx[g].order]
  PROVE  TxInv'
<1>1. /\ tx'[h] = Null /\ request'[h] = Null
      /\ \A g \in Handlers \ {h} : tx'[g] = tx[g] /\ request'[g] = request[g]
  BY DEF TxInv, TxTypeOK, TypeOK
<1>2. TxTypeOK'
  BY DEF TxInv, TxTypeOK, Unlocked
<1>3. ASSUME NEW g \in Handlers \ {h} PROVE TxFits(g)'
  <2>1. \A i \in Items : Open(g) /\ Taken(g, i) => lock[i] = g /\ ~(Open(h) /\ Taken(h, i))
    BY FreeRow
  <2>2. \A i \in Items : Open(g) /\ Taken(g, i) => lock'[i] = lock[i]
    BY <2>1 DEF Unlocked
  <2>3. TxFits(g)
    BY DEF TxInv
  <2> QED  BY <1>1, <2>1, <2>2, <2>3, OtherFits
<1>4. TxFits(h)'
  BY <1>1 DEF TxFits, Open
<1>5. PlacementsApart'
  BY <1>1, StayApart DEF TxInv, Placing, Open
<1> QED  BY <1>2, <1>3, <1>4, <1>5 DEF TxInv

LEMMA RollBackKeeps ==
  ASSUME TxInv, TypeOK', IInv', NEW h \in Handlers, RollBack(h)
  PROVE  TxInv'
BY EndKeeps DEF RollBack, OrderRowsUnchanged, inventoryVars, orderVars

\* What the rows hold when a transaction publishes them: every line of it done,
\* and none refused.
LEMMA EndTxEffect ==
  ASSUME TxInv, NEW h \in Handlers, EndTx(h), NEW t, t = tx[h]
  PROVE  /\ t.op \in StockOperation /\ t.order \in OrderIds /\ t.units \in [Items -> Nat]
         /\ \A i \in Items : t.op # "none" /\ t.units[i] > 0 => ~Refused(t.op, i, t.units[i])
         /\ quantity' = [i \in Items |-> quantity[i] + QuantityChange[t.op] * t.units[i]]
         /\ reserved' = [i \in Items |-> reserved[i] + ReservedChange[t.op] * t.units[i]]
         /\ t.op \notin {"confirm", "restore"} => ledger' = ledger
         /\ t.op = "confirm" =>
              RecordMovements("ORDER_CONFIRM", t.order, [i \in Items |-> -t.units[i]])
         /\ t.op = "restore" => RecordMovements("ORDER_CANCEL", t.order, t.units)
<1>1. /\ Open(h) /\ t.todo = {} /\ PublishRows(t)
  BY DEF EndTx
<1>2. /\ t.op \in StockOperation /\ t.order \in OrderIds /\ t.units \in [Items -> Nat]
  BY <1>1, TxTyped DEF TxInv
<1>3. /\ quantity \in [Items -> Int] /\ reserved \in [Items -> Int]
      /\ ledger \in [Items -> Seq(Movement)]
  BY DEF TxInv, TxTypeOK, TypeOK, InventoryTypeOK
<1>4. ASSUME NEW i \in Items
      PROVE  \/ /\ t.rows[i] # Null /\ t.op # "none" /\ t.units[i] > 0
                /\ ~Refused(t.op, i, t.units[i])
                /\ t.rows[i].quantity = quantity[i] + QuantityChange[t.op] * t.units[i]
                /\ t.rows[i].reserved = reserved[i] + ReservedChange[t.op] * t.units[i]
             \/ /\ t.rows[i] = Null
                /\ t.op = "none" \/ t.units[i] = 0
  <2>1. RowFits(h, i)
    BY <1>1 DEF TxInv, TxFits
  <2> QED  BY <1>1, <1>2, <2>1 DEF RowFits, Taken
<1>5. \A i \in Items : t.op # "none" /\ t.units[i] > 0 => ~Refused(t.op, i, t.units[i])
  BY <1>4
<1>6. ASSUME NEW i \in Items, t.rows[i] = Null
      PROVE  /\ quantity[i] = quantity[i] + QuantityChange[t.op] * t.units[i]
             /\ reserved[i] = reserved[i] + ReservedChange[t.op] * t.units[i]
  BY <1>2, <1>3, <1>4, <1>6, ChangesOf
<1>7. quantity' = [i \in Items |-> quantity[i] + QuantityChange[t.op] * t.units[i]]
  BY <1>1, <1>4, <1>6 DEF PublishRows
<1>8. reserved' = [i \in Items |-> reserved[i] + ReservedChange[t.op] * t.units[i]]
  BY <1>1, <1>4, <1>6 DEF PublishRows
<1>9. t.op \notin {"confirm", "restore"} => ledger' = ledger
  BY <1>1, <1>3 DEF PublishRows
\* A movement for every line of a confirmation or a restoration.
<1>10. ASSUME t.op \in {"confirm", "restore"}, NEW type, NEW change \in [Items -> Int],
              type = IF t.op = "confirm" THEN "ORDER_CONFIRM" ELSE "ORDER_CANCEL",
              \A i \in Items : change[i] = QuantityChange[t.op] * t.units[i]
       PROVE  RecordMovements(type, t.order, change)
  <2>1. ASSUME NEW i \in Items
        PROVE  /\ change[i] = 0 => t.rows[i] = Null
               /\ change[i] # 0 => t.rows[i] # Null /\ t.rows[i].quantity = quantity[i] + change[i]
    <3>1. change[i] = 0 <=> t.units[i] = 0
      BY <1>2, <1>10, ChangesOf
    <3> QED  BY <1>2, <1>4, <1>10, <3>1
  <2>2. ledger' = [i \in Items |->
          IF t.rows[i] = Null THEN ledger[i]
          ELSE Append(ledger[i],
                      [type |-> type, quantityChange |-> change[i],
                       quantityAfter |-> t.rows[i].quantity, order |-> t.order, note |-> Null])]
    BY <1>1, <1>10 DEF PublishRows
  <2> QED  BY <2>1, <2>2 DEF RecordMovements
<1>11. t.op = "confirm" =>
         RecordMovements("ORDER_CONFIRM", t.order, [i \in Items |-> -t.units[i]])
  <2>1. [i \in Items |-> -t.units[i]] \in [Items -> Int]
    BY <1>2
  <2>2. t.op = "confirm" =>
          \A i \in Items : [j \in Items |-> -t.units[j]][i] = QuantityChange[t.op] * t.units[i]
    BY <1>2, ChangesOf
  <2> QED  BY <1>10, <2>1, <2>2
<1>12. t.op = "restore" => RecordMovements("ORDER_CANCEL", t.order, t.units)
  <2>1. t.op = "restore" => \A i \in Items : t.units[i] = QuantityChange[t.op] * t.units[i]
    BY <1>2, ChangesOf
  <2>2. t.units \in [Items -> Int]
    BY <1>2
  <2> QED  BY <1>10, <2>1, <2>2
<1> QED  BY <1>2, <1>5, <1>7, <1>8, <1>9, <1>11, <1>12

-----------------------------------------------------------------------------
(* Every step is one of Orders, or none.                                   *)

LEMMA CommitPlaceIsPlaceOrder ==
  ASSUME TxInv, NEW h \in Handlers, CommitPlace(h)
  PROVE  Next
<1> SUFFICES ASSUME NEW t, t = tx[h] PROVE Next
  OBVIOUS
<1>1. /\ EndTx(h) /\ Open(h) /\ RequestFits(h) /\ request[h] = Null
  BY DEF CommitPlace, EndTx, TxInv, TxFits
<1>2. /\ t.op = "reserve" /\ status[t.order] = "NONE"
      /\ t.type \in OrderTypes /\ t.units \in Baskets
  BY <1>1 DEF RequestFits
<1>3. /\ t.order \in OrderIds /\ t.units \in [Items -> Nat]
      /\ \A i \in Items : t.units[i] > 0 => t.units[i] <= Available(i)
      /\ quantity' = [i \in Items |-> quantity[i] + QuantityChange[t.op] * t.units[i]]
      /\ reserved' = [i \in Items |-> reserved[i] + ReservedChange[t.op] * t.units[i]]
      /\ ledger' = ledger
  <2>1. quantity \in [Items -> Int] /\ reserved \in [Items -> Int]
    BY DEF TxInv, TxTypeOK, TypeOK, InventoryTypeOK
  <2>2. /\ t.order \in OrderIds /\ t.units \in [Items -> Nat]
        /\ \A i \in Items : t.units[i] > 0 => ~Refused("reserve", i, t.units[i])
        /\ quantity' = [i \in Items |-> quantity[i] + QuantityChange[t.op] * t.units[i]]
        /\ reserved' = [i \in Items |-> reserved[i] + ReservedChange[t.op] * t.units[i]]
        /\ ledger' = ledger
    BY <1>1, <1>2, EndTxEffect
  <2> QED  BY <2>1, <2>2 DEF Refused, Available
<1>4. \A i \in Items : /\ QuantityChange[t.op] * t.units[i] = 0
                       /\ ReservedChange[t.op] * t.units[i] = t.units[i]
  BY <1>2, <1>3, Changes, ChangesOf
<1>5. quantity \in [Items -> Int] /\ reserved \in [Items -> Int]
  BY DEF TxInv, TxTypeOK, TypeOK, InventoryTypeOK
<1>6. quantity' = quantity /\ reserved' = [i \in Items |-> reserved[i] + t.units[i]]
  BY <1>3, <1>4, <1>5
<1>7. Account(t.order, 1, 0)
  <2>1. Account(t.order, ReservedChange[t.op], -QuantityChange[t.op])
    BY DEF CommitPlace, EndTx
  <2>2. ReservedChange[t.op] = 1 /\ -QuantityChange[t.op] = 0
    BY <1>2, AccountOf
  <2> QED  BY <2>1, <2>2
<1>8. PlaceOrder(t.order, t.type, t.units)
  BY <1>2, <1>3, <1>6, <1>7 DEF PlaceOrder, ReserveForOrder, CommitPlace
<1> QED  BY <1>2, <1>3, <1>8 DEF Next

LEMMA CommitWriteIsCommit ==
  ASSUME TxInv, NEW h \in Handlers, CommitWrite(h)
  PROVE  Next
<1> SUFFICES ASSUME NEW t, t = tx[h], NEW r, r = request[h] PROVE Next
  OBVIOUS
<1>1. /\ EndTx(h) /\ Open(h) /\ RequestFits(h) /\ r # Null /\ WriteStatus(h)
  BY DEF CommitWrite, EndTx, TxInv, TxFits
<1>2. /\ t.op = StockOperationOf(r) /\ t.order = r.order /\ t.units = orderLines[r.order]
  BY <1>1 DEF RequestFits
<1>3. /\ t.op \in StockOperation /\ t.order \in OrderIds /\ t.units \in [Items -> Nat]
      /\ \A i \in Items : t.op # "none" /\ t.units[i] > 0 => ~Refused(t.op, i, t.units[i])
      /\ quantity' = [i \in Items |-> quantity[i] + QuantityChange[t.op] * t.units[i]]
      /\ reserved' = [i \in Items |-> reserved[i] + ReservedChange[t.op] * t.units[i]]
      /\ t.op \notin {"confirm", "restore"} => ledger' = ledger
      /\ t.op = "confirm" =>
           RecordMovements("ORDER_CONFIRM", t.order, [i \in Items |-> -t.units[i]])
      /\ t.op = "restore" => RecordMovements("ORDER_CANCEL", t.order, t.units)
  BY <1>1, EndTxEffect
<1>4. /\ quantity \in [Items -> Int] /\ reserved \in [Items -> Int]
      /\ reservations \in [OrderIds -> Int] /\ deductions \in [OrderIds -> Int]
      /\ r \in Request
  BY <1>1 DEF TxInv, TxTypeOK, TypeOK, InventoryTypeOK
<1>5. Account(t.order, ReservedChange[t.op], -QuantityChange[t.op])
  BY DEF CommitWrite, EndTx
<1>6. CASE t.op = "release"
  <2>1. r.op = "cancelMine"
    BY <1>2, <1>4, <1>6, OperationsOfRequests DEF Request
  <2>2. \A i \in Items : /\ quantity[i] + QuantityChange[t.op] * t.units[i] = quantity[i]
                         /\ reserved[i] + ReservedChange[t.op] * t.units[i]
                              = reserved[i] - t.units[i]
    BY <1>3, <1>4, <1>6, ChangesOf
  <2>3. /\ quantity' = quantity /\ ledger' = ledger
        /\ reserved' = [i \in Items |-> reserved[i] - t.units[i]]
    BY <1>3, <1>4, <1>6, <2>2
  <2>4. \A i \in Items : t.units[i] > 0 => t.units[i] <= reserved[i]
    BY <1>3, <1>4, <1>6 DEF Refused
  <2>5. Account(t.order, -1, 0)
    <3>1. ReservedChange[t.op] = -1 /\ -QuantityChange[t.op] = 0
      BY <1>6, AccountOf
    <3> QED  BY <1>5, <3>1
  <2>6. CommitCancelMine(h)
    BY <1>1, <1>2, <2>1, <2>3, <2>4, <2>5 DEF CommitCancelMine, ReleaseReservation
  <2> QED  BY <2>6 DEF Next
<1>7. CASE t.op = "confirm"
  <2>1. r.op = "updateStatus" /\ r.seen = "PENDING" /\ r.target = "CONFIRMED"
    BY <1>2, <1>4, <1>7, OperationsOfRequests DEF Request
  <2>2. \A i \in Items : /\ quantity[i] + QuantityChange[t.op] * t.units[i]
                              = quantity[i] - t.units[i]
                         /\ reserved[i] + ReservedChange[t.op] * t.units[i]
                              = reserved[i] - t.units[i]
    BY <1>3, <1>4, <1>7, ChangesOf
  <2>3. /\ quantity' = [i \in Items |-> quantity[i] - t.units[i]]
        /\ reserved' = [i \in Items |-> reserved[i] - t.units[i]]
    BY <1>3, <1>4, <2>2
  <2>4. \A i \in Items : t.units[i] > 0 => t.units[i] <= reserved[i] /\ t.units[i] <= quantity[i]
    BY <1>3, <1>4, <1>7 DEF Refused
  <2>5. Account(t.order, -1, 1)
    <3>1. ReservedChange[t.op] = -1 /\ -QuantityChange[t.op] = 1
      BY <1>7, AccountOf
    <3> QED  BY <1>5, <3>1
  <2>6. CommitConfirm(h)
    BY <1>1, <1>2, <1>3, <1>7, <2>1, <2>3, <2>4, <2>5 DEF CommitConfirm, ConfirmReservation
  <2> QED  BY <2>6 DEF Next
<1>8. CASE t.op = "restore"
  <2>1. r.op = "adminCancel" /\ r.seen \in RestorableStatuses
    BY <1>2, <1>4, <1>8, OperationsOfRequests DEF Request
  <2>2. \A i \in Items : /\ quantity[i] + QuantityChange[t.op] * t.units[i]
                              = quantity[i] + t.units[i]
                         /\ reserved[i] + ReservedChange[t.op] * t.units[i] = reserved[i]
    BY <1>3, <1>4, <1>8, ChangesOf
  <2>3. /\ quantity' = [i \in Items |-> quantity[i] + t.units[i]] /\ reserved' = reserved
    BY <1>3, <1>4, <2>2
  <2>4. Account(t.order, 0, -1)
    <3>1. ReservedChange[t.op] = 0 /\ -QuantityChange[t.op] = -1
      BY <1>8, AccountOf
    <3> QED  BY <1>5, <3>1
  <2>5. CommitAdminCancel(h)
    BY <1>1, <1>2, <1>3, <1>8, <2>1, <2>3, <2>4
       DEF CommitAdminCancel, RestoreOnCancelAfterConfirm
  <2> QED  BY <2>5 DEF Next
<1>9. CASE t.op = "none"
  <2>1. \/ r.op = "updateStatus" /\ ~(r.seen = "PENDING" /\ r.target = "CONFIRMED")
        \/ r.op = "adminCancel" /\ r.seen \notin RestorableStatuses
    BY <1>2, <1>4, <1>9, OperationsOfRequests DEF Request
  <2>2. \A i \in Items : /\ quantity[i] + QuantityChange[t.op] * t.units[i] = quantity[i]
                         /\ reserved[i] + ReservedChange[t.op] * t.units[i] = reserved[i]
    BY <1>3, <1>4, <1>9, ChangesOf
  <2>3. quantity' = quantity /\ reserved' = reserved /\ ledger' = ledger
    BY <1>3, <1>4, <1>9, <2>2
  <2>4. Account(t.order, 0, 0)
    <3>1. ReservedChange[t.op] = 0 /\ -QuantityChange[t.op] = 0
      BY <1>9, AccountOf
    <3> QED  BY <1>5, <3>1
  <2>5. reservations' = reservations /\ deductions' = deductions
    BY <1>3, <1>4, <2>4 DEF Account
  <2>6. UNCHANGED stockVars
    BY <2>3, <2>5 DEF stockVars
  <2>7. CommitAdvance(h) \/ CommitAdminCancel(h)
    BY <1>1, <2>1, <2>6 DEF CommitAdvance, CommitAdminCancel
  <2> QED  BY <2>7 DEF Next
<1> QED
  <2>1. t.op # "reserve"
    BY <1>2, OperationsOfRequests
  <2> QED  BY <1>3, <1>6, <1>7, <1>8, <1>9, <2>1, Changes

LEMMA RollBackIsAbort ==
  ASSUME TxInv, NEW h \in Handlers, RollBack(h)
  PROVE  [Next]_vars
<1>1. UNCHANGED <<inventoryVars, orderVars, contested>> /\ request' = [request EXCEPT ![h] = Null]
  BY DEF RollBack, OrderRowsUnchanged
<1>2. CASE request[h] # Null
  BY <1>1, <1>2 DEF AbortRequest, Next
<1>3. CASE request[h] = Null
  <2>1. request' = request
    BY <1>1, <1>3 DEF TxInv, TxTypeOK, TypeOK
  <2> QED  BY <1>1, <2>1 DEF vars, inventoryVars, orderVars
<1> QED  BY <1>2, <1>3

LEMMA TxStepIsStep == TxInv /\ [TxNext]_txVars => [Next]_vars
<1> SUFFICES ASSUME TxInv, [TxNext]_txVars PROVE [Next]_vars
  OBVIOUS
<1>1. ASSUME UNCHANGED request, OrderRowsUnchanged
      PROVE  [Next]_vars
  BY <1>1 DEF OrderRowsUnchanged, vars, inventoryVars, orderVars
<1>2. ASSUME NEW h \in Handlers, NEW o \in OrderIds, NEW type, NEW basket,
             OpenPlace(h, o, type, basket)
      PROVE  [Next]_vars
  BY <1>1, <1>2 DEF OpenPlace, OpenTx
<1>3. ASSUME NEW h \in Handlers, OpenWrite(h)
      PROVE  [Next]_vars
  BY <1>1, <1>3 DEF OpenWrite, OpenTx
<1>4. ASSUME NEW h \in Handlers, ReadOrder(h)
      PROVE  [Next]_vars
  BY <1>4 DEF ReadOrder, Next
<1>5. ASSUME NEW h \in Handlers, NEW i \in Items, TakeRow(h, i) \/ WaitForRow(h, i)
      PROVE  [Next]_vars
  BY <1>1, <1>5 DEF TakeRow, WaitForRow
<1>6. ASSUME NEW h \in Handlers,
             (\E i \in Items : RefuseLine(h, i)) \/ DeadlockVictim(h) \/ Fail(h)
      PROVE  [Next]_vars
  BY <1>6, RollBackIsAbort DEF RefuseLine, DeadlockVictim, Fail
<1>7. ASSUME NEW h \in Handlers, CommitPlace(h) \/ CommitWrite(h)
      PROVE  [Next]_vars
  BY <1>7, CommitPlaceIsPlaceOrder, CommitWriteIsCommit
<1>8. ASSUME \/ \E i \in Items, d \in ManualDeltas : AdjustManual(i, d)
             \/ \E a \in Admins, i \in Items, q \in ExactQuantities : SetQuantityRead(a, i, q)
             \/ \E a \in Admins : SetQuantityApply(a) \/ SetQuantityAbort(a),
             BesideTransactions
      PROVE  [Next]_vars
  BY <1>8 DEF BesideTransactions, Next
<1>9. CASE UNCHANGED txVars
  BY <1>9 DEF txVars, vars
<1> QED
  BY <1>2, <1>3, <1>4, <1>5, <1>6, <1>7, <1>8, <1>9 DEF TxNext

-----------------------------------------------------------------------------
(* The invariant is kept.                                                  *)

LEMMA PublishedRows ==
  ASSUME TxInv, NEW h \in Handlers, EndTx(h), NEW i \in Items, ~(Open(h) /\ Taken(h, i))
  PROVE  quantity'[i] = quantity[i] /\ reserved'[i] = reserved[i]
BY DEF EndTx, PublishRows, Taken

\* A request is about an order that was placed, a placement about one that was not.
LEMMA PlacedOrders ==
  ASSUME TxInv, NEW g \in Handlers, Open(g)
  PROVE  /\ request[g] = Null => status[tx[g].order] = "NONE"
         /\ request[g] # Null => tx[g].order = request[g].order /\ status[tx[g].order] # "NONE"
<1>1. RequestFits(g)
  BY DEF TxInv, TxFits
<1>2. request[g] # Null => status[request[g].order] # "NONE"
  BY DEF TxInv, IInv, RequestsCurrent, ReadAllowed
<1> QED  BY <1>1, <1>2 DEF RequestFits

LEMMA CommitPlaceKeeps ==
  ASSUME TxInv, TypeOK', IInv', NEW h \in Handlers, CommitPlace(h)
  PROVE  TxInv'
<1> PICK t : t = tx[h]
  OBVIOUS
<1>1. /\ EndTx(h) /\ Open(h) /\ request[h] = Null /\ request' = request
      /\ status' = [status EXCEPT ![t.order] = "PENDING"]
      /\ orderLines' = [orderLines EXCEPT ![t.order] = t.units]
      /\ tx' = [tx EXCEPT ![h] = Null] /\ lock' = Unlocked(h)
  BY DEF CommitPlace, EndTx
<1>2. status[t.order] = "NONE"
  BY <1>1, PlacedOrders
<1>3. request' = [request EXCEPT ![h] = Null]
  BY <1>1 DEF TxInv, TxTypeOK, TypeOK
<1>4. ASSUME NEW g \in Handlers \ {h}, Open(g), request[g] = Null
      PROVE  status'[tx[g].order] = status[tx[g].order]
  <2>1. tx[g].order # t.order
    BY <1>1, <1>4 DEF TxInv, PlacementsApart, Placing
  <2> QED  BY <1>1, <2>1 DEF TxInv, TxTypeOK, TypeOK
<1>5. ASSUME NEW g \in Handlers \ {h}, Open(g), request[g] # Null
      PROVE  orderLines'[tx[g].order] = orderLines[tx[g].order]
  <2>1. tx[g].order # t.order
    BY <1>2, <1>5, PlacedOrders
  <2> QED  BY <1>1, <2>1 DEF TxInv, TxTypeOK, TypeOK
<1>6. \A i \in Items : ~(Open(h) /\ Taken(h, i)) =>
        quantity'[i] = quantity[i] /\ reserved'[i] = reserved[i]
  BY <1>1, PublishedRows
<1> QED  BY <1>1, <1>3, <1>4, <1>5, <1>6, EndKeeps

LEMMA CommitWriteKeeps ==
  ASSUME TxInv, TypeOK', IInv', NEW h \in Handlers, CommitWrite(h)
  PROVE  TxInv'
<1>1. /\ EndTx(h) /\ Open(h) /\ request[h] # Null
      /\ request' = [request EXCEPT ![h] = Null]
      /\ status' = [status EXCEPT ![request[h].order] = request[h].target]
      /\ orderLines' = orderLines
      /\ tx' = [tx EXCEPT ![h] = Null] /\ lock' = Unlocked(h)
  BY DEF CommitWrite, EndTx, WriteStatus
<1>2. status[request[h].order] # "NONE"
  BY <1>1, PlacedOrders
<1>3. ASSUME NEW g \in Handlers \ {h}, Open(g), request[g] = Null
      PROVE  status'[tx[g].order] = status[tx[g].order]
  <2>1. tx[g].order # request[h].order
    BY <1>2, <1>3, PlacedOrders
  <2> QED  BY <1>1, <2>1 DEF TxInv, TxTypeOK, TypeOK
<1>4. \A i \in Items : ~(Open(h) /\ Taken(h, i)) =>
        quantity'[i] = quantity[i] /\ reserved'[i] = reserved[i]
  BY <1>1, PublishedRows
<1> QED  BY <1>1, <1>3, <1>4, EndKeeps

LEMMA TxInvInit == TxInit => TxInv
<1> SUFFICES ASSUME TxInit PROVE TxInv
  OBVIOUS
<1>1. TypeOK /\ IInv
  BY TypeInit, IInvInit DEF TxInit
<1>2. TxTypeOK
  BY <1>1 DEF TxInit, TxTypeOK
<1>3. \A h \in Handlers : ~Open(h)
  BY DEF TxInit, Open
<1> QED  BY <1>1, <1>2, <1>3 DEF TxInv, TxFits, PlacementsApart, Placing

LEMMA TxInvNext == TxInv /\ [TxNext]_txVars => TxInv'
<1> SUFFICES ASSUME TxInv, [TxNext]_txVars PROVE TxInv'
  OBVIOUS
<1>1. TypeOK' /\ IInv'
  BY TxStepIsStep, TypeNext, IInvNext DEF TxInv, TxTypeOK
<1>2. ASSUME NEW h \in Handlers, NEW o \in OrderIds, NEW type \in OrderTypes,
             NEW basket \in Baskets, OpenPlace(h, o, type, basket)
      PROVE  TxInv'
  <2>1. type \in FulfilmentType /\ basket \in Lines /\ "reserve" \in StockOperation
    BY PlacementAssumption, Changes
  <2> QED  BY <1>1, <1>2, <2>1, OpenTxKeeps DEF OpenPlace
<1>3. ASSUME NEW h \in Handlers, ReadOrder(h)
      PROVE  TxInv'
  BY <1>1, <1>3, ReadOrderKeeps
<1>4. ASSUME NEW h \in Handlers, OpenWrite(h)
      PROVE  TxInv'
  <2> PICK o : o = request[h].order
    OBVIOUS
  <2>1. /\ request[h] # Null
        /\ OpenTx(h, StockOperationOf(request[h]), o, fulfilment[o], orderLines[o])
    BY <1>4 DEF OpenWrite
  <2>2. /\ request[h] \in Request /\ o \in OrderIds
        /\ fulfilment[o] \in FulfilmentType /\ orderLines[o] \in Lines
    BY <2>1 DEF TxInv, TxTypeOK, TypeOK, Request
  <2>3. StockOperationOf(request[h]) \in StockOperation
    BY <2>2, OperationsOfRequests
  <2> QED  BY <1>1, <2>1, <2>2, <2>3, OpenTxKeeps
<1>5. ASSUME NEW h \in Handlers, NEW i \in Items, TakeRow(h, i)
      PROVE  TxInv'
  BY <1>1, <1>5, TakeRowKeeps
<1>6. ASSUME NEW h \in Handlers, NEW i \in Items, WaitForRow(h, i)
      PROVE  TxInv'
  BY <1>1, <1>6, WaitForRowKeeps
<1>7. ASSUME NEW h \in Handlers,
             (\E i \in Items : RefuseLine(h, i)) \/ DeadlockVictim(h) \/ Fail(h)
      PROVE  TxInv'
  BY <1>1, <1>7, RollBackKeeps DEF RefuseLine, DeadlockVictim, Fail
<1>8. ASSUME NEW h \in Handlers, CommitPlace(h)
      PROVE  TxInv'
  BY <1>1, <1>8, CommitPlaceKeeps
<1>9. ASSUME NEW h \in Handlers, CommitWrite(h)
      PROVE  TxInv'
  BY <1>1, <1>9, CommitWriteKeeps
\* A manual correction writes a row that no transaction has locked.
<1>10. ASSUME NEW i \in Items, lock[i] = Null, NEW delta, NEW note,
              ApplyDelta(i, delta, note), BesideTransactions
       PROVE  TxInv'
  <2>1. \A j \in Items \ {i} : quantity'[j] = quantity[j]
    BY <1>10 DEF ApplyDelta, TxInv, TxTypeOK, TypeOK, InventoryTypeOK
  <2>2. reserved' = reserved
    BY <1>10 DEF ApplyDelta
  <2> QED
    BY <1>1, <1>10, <2>1, <2>2, BesideKeeps DEF BesideTransactions, OrdersUnchanged
<1>11. ASSUME NEW i \in Items, NEW d \in ManualDeltas, lock[i] = Null,
              AdjustManual(i, d), BesideTransactions
       PROVE  TxInv'
  BY <1>10, <1>11 DEF AdjustManual
<1>12. ASSUME NEW a \in Admins, SetQuantityApply(a), lock[setting[a].item] = Null,
              BesideTransactions
       PROVE  TxInv'
  <2>1. setting[a].item \in Items
    BY <1>12 DEF SetQuantityApply, TxInv, TxTypeOK, TypeOK, InventoryTypeOK, SetRequest
  <2> QED  BY <1>10, <1>12, <2>1 DEF SetQuantityApply
<1>13. ASSUME UNCHANGED stockVars, BesideTransactions
       PROVE  TxInv'
  BY <1>1, <1>13, BesideKeeps DEF stockVars, BesideTransactions, OrdersUnchanged
<1>14. ASSUME NEW a \in Admins,
              (\E i \in Items, q \in ExactQuantities : SetQuantityRead(a, i, q))
                \/ SetQuantityAbort(a),
              BesideTransactions
       PROVE  TxInv'
  BY <1>13, <1>14 DEF SetQuantityRead, SetQuantityAbort
<1>15. CASE UNCHANGED txVars
  BY <1>1, <1>15, BesideKeeps DEF txVars, orderVars
<1> QED
  BY <1>2, <1>3, <1>4, <1>5, <1>6, <1>7, <1>8, <1>9, <1>11, <1>12, <1>14, <1>15 DEF TxNext

-----------------------------------------------------------------------------
(* Atomic is Orders under the identity mapping.                            *)

LEMMA AtomicInit == Init => Atomic!Init
BY DEF Init, InventoryInit, Atomic!Init, Atomic!InventoryInit

LEMMA AtomicVocabulary ==
  /\ OPERATIONAL_TARGETS = Atomic!OPERATIONAL_TARGETS
  /\ RestorableStatuses = Atomic!RestorableStatuses
  /\ \A o : InFlight(o) = Atomic!InFlight(o)
  /\ \A i : Available(i) = Atomic!Available(i)
  /\ \A type, from, to :
       AssertForwardTransition(type, from, to) <=> Atomic!AssertForwardTransition(type, from, to)
<1>1. DELIVERY_FLOW = Atomic!DELIVERY_FLOW /\ PICKUP_FLOW = Atomic!PICKUP_FLOW
  BY DEF DELIVERY_FLOW, PICKUP_FLOW, Atomic!DELIVERY_FLOW, Atomic!PICKUP_FLOW
<1>2. \A type, from, to :
        AssertForwardTransition(type, from, to) <=> Atomic!AssertForwardTransition(type, from, to)
  BY <1>1, Zenon DEF AssertForwardTransition, Atomic!AssertForwardTransition
<1> QED
  BY <1>2 DEF OPERATIONAL_TARGETS, RestorableStatuses, InFlight, Available,
              Atomic!OPERATIONAL_TARGETS, Atomic!RestorableStatuses, Atomic!InFlight,
              Atomic!Available

LEMMA AtomicBegins ==
  ASSUME NEW h, NEW op, NEW o, NEW target, BeginRequest(h, op, o, target)
  PROVE  Atomic!BeginRequest(h, op, o, target)
BY AtomicVocabulary, Zenon
   DEF BeginRequest, inventoryVars, orderVars,
       Atomic!BeginRequest, Atomic!inventoryVars, Atomic!orderVars

LEMMA AtomicWrites ==
  ASSUME NEW h, WriteStatus(h)
  PROVE  Atomic!WriteStatus(h)
BY Zenon DEF WriteStatus, Atomic!WriteStatus

LEMMA AtomicNext == [Next]_vars => [Atomic!Next]_vars
<1> SUFFICES ASSUME Next PROVE Atomic!Next
  OBVIOUS
<1>1. ASSUME NEW o \in OrderIds, NEW type \in OrderTypes, NEW basket \in Baskets,
             PlaceOrder(o, type, basket)
      PROVE  Atomic!Next
  <2>1. Atomic!PlaceOrder(o, type, basket)
    BY <1>1, AtomicVocabulary, Zenon
       DEF PlaceOrder, ReserveForOrder, Account,
           Atomic!PlaceOrder, Atomic!ReserveForOrder, Atomic!Account
  <2> QED  BY <2>1 DEF Atomic!Next
<1>2. ASSUME NEW h \in Handlers, NEW o \in OrderIds, BeginCancelMine(h, o)
      PROVE  Atomic!Next
  <2>1. Atomic!BeginCancelMine(h, o)
    BY <1>2, AtomicBegins DEF BeginCancelMine, Atomic!BeginCancelMine
  <2> QED  BY <2>1 DEF Atomic!Next
<1>3. ASSUME NEW h \in Handlers, NEW o \in OrderIds, NEW t \in OPERATIONAL_TARGETS,
             BeginUpdateStatus(h, o, t)
      PROVE  Atomic!Next
  <2>1. Atomic!BeginUpdateStatus(h, o, t)
    BY <1>3, AtomicBegins, AtomicVocabulary DEF BeginUpdateStatus, Atomic!BeginUpdateStatus
  <2> QED  BY <2>1, AtomicVocabulary DEF Atomic!Next
<1>4. ASSUME NEW h \in Handlers, NEW o \in OrderIds, BeginAdminCancel(h, o)
      PROVE  Atomic!Next
  <2>1. Atomic!BeginAdminCancel(h, o)
    BY <1>4, AtomicBegins DEF BeginAdminCancel, Atomic!BeginAdminCancel
  <2> QED  BY <2>1 DEF Atomic!Next
<1>5. ASSUME NEW h \in Handlers, CommitCancelMine(h)
      PROVE  Atomic!Next
  <2>1. Atomic!CommitCancelMine(h)
    BY <1>5, AtomicWrites, Zenon
       DEF CommitCancelMine, ReleaseReservation, Account,
           Atomic!CommitCancelMine, Atomic!ReleaseReservation, Atomic!Account
  <2> QED  BY <2>1 DEF Atomic!Next
<1>6. ASSUME NEW h \in Handlers, CommitConfirm(h)
      PROVE  Atomic!Next
  <2>1. Atomic!CommitConfirm(h)
    BY <1>6, AtomicWrites, Zenon
       DEF CommitConfirm, ConfirmReservation, RecordMovements, Account,
           Atomic!CommitConfirm, Atomic!ConfirmReservation, Atomic!RecordMovements,
           Atomic!Account
  <2> QED  BY <2>1 DEF Atomic!Next
<1>7. ASSUME NEW h \in Handlers, CommitAdvance(h)
      PROVE  Atomic!Next
  <2>1. Atomic!CommitAdvance(h)
    BY <1>7, AtomicWrites, Zenon
       DEF CommitAdvance, stockVars, Atomic!CommitAdvance, Atomic!stockVars
  <2> QED  BY <2>1 DEF Atomic!Next
<1>8. ASSUME NEW h \in Handlers, CommitAdminCancel(h)
      PROVE  Atomic!Next
  <2>1. Atomic!CommitAdminCancel(h)
    BY <1>8, AtomicWrites, AtomicVocabulary, Zenon
       DEF CommitAdminCancel, RestoreOnCancelAfterConfirm, RecordMovements, Account, stockVars,
           Atomic!CommitAdminCancel, Atomic!RestoreOnCancelAfterConfirm,
           Atomic!RecordMovements, Atomic!Account, Atomic!stockVars
  <2> QED  BY <2>1 DEF Atomic!Next
<1>9. ASSUME NEW h \in Handlers, AbortRequest(h)
      PROVE  Atomic!Next
  <2>1. Atomic!AbortRequest(h)
    BY <1>9, Zenon DEF AbortRequest, inventoryVars, orderVars,
                       Atomic!AbortRequest, Atomic!inventoryVars, Atomic!orderVars
  <2> QED  BY <2>1 DEF Atomic!Next
<1>10. ASSUME OrdersUnchanged
       PROVE  Atomic!OrdersUnchanged
  BY <1>10, Zenon DEF OrdersUnchanged, orderVars, Atomic!OrdersUnchanged, Atomic!orderVars
<1>11. ASSUME NEW i, NEW d, NEW note, ApplyDelta(i, d, note)
       PROVE  Atomic!ApplyDelta(i, d, note)
  BY <1>11, Zenon DEF ApplyDelta, accountVars, Atomic!ApplyDelta, Atomic!accountVars
<1>12. ASSUME NEW i \in Items, NEW d \in ManualDeltas, AdjustManual(i, d), OrdersUnchanged
       PROVE  Atomic!Next
  <2>1. Atomic!AdjustManual(i, d)
    BY <1>11, <1>12 DEF AdjustManual, Atomic!AdjustManual
  <2> QED  BY <1>10, <1>12, <2>1 DEF Atomic!Next
<1>13. ASSUME NEW a \in Admins, NEW i \in Items, NEW q \in ExactQuantities,
              SetQuantityRead(a, i, q), OrdersUnchanged
       PROVE  Atomic!Next
  <2>1. Atomic!SetQuantityRead(a, i, q)
    BY <1>13, Zenon DEF SetQuantityRead, stockVars, Atomic!SetQuantityRead, Atomic!stockVars
  <2> QED  BY <1>10, <1>13, <2>1 DEF Atomic!Next
<1>14. ASSUME NEW a \in Admins, SetQuantityApply(a), OrdersUnchanged
       PROVE  Atomic!Next
  <2>1. Atomic!SetQuantityApply(a)
    BY <1>11, <1>14 DEF SetQuantityApply, Atomic!SetQuantityApply
  <2> QED  BY <1>10, <1>14, <2>1 DEF Atomic!Next
<1>15. ASSUME NEW a \in Admins, SetQuantityAbort(a), OrdersUnchanged
       PROVE  Atomic!Next
  <2>1. Atomic!SetQuantityAbort(a)
    BY <1>15, Zenon DEF SetQuantityAbort, stockVars, Atomic!SetQuantityAbort, Atomic!stockVars
  <2> QED  BY <1>10, <1>15, <2>1 DEF Atomic!Next
<1> QED
  BY <1>1, <1>2, <1>3, <1>4, <1>5, <1>6, <1>7, <1>8, <1>9, <1>12, <1>13, <1>14, <1>15 DEF Next

-----------------------------------------------------------------------------
(* What the locks give.                                                    *)

\* Seen through the rows, the orders and the requests, the row-by-row
\* transactions of the handlers are the single steps of Orders: SELECT ... FOR
\* UPDATE on each stock row, kept to the commit, makes a transaction atomic.
THEOREM TransactionsAtomic == TxSpec => ImplementsAtomic
<1>1. TxInit => Atomic!Init
  BY AtomicInit DEF TxInit
<1>2. TxInv /\ [TxNext]_txVars => [Atomic!Next]_vars
  BY TxStepIsStep, AtomicNext
<1> QED  BY <1>1, <1>2, TxInvInit, TxInvNext, PTL DEF TxSpec, ImplementsAtomic

\* So what holds of Orders holds of the transactions as the database runs them:
\* no stock row promises units it does not hold.
THEOREM RowsNeverOverpromised == TxSpec => []StockBounds
<1>1. TxInit => StockBounds
  BY StockBoundsInit DEF TxInit
<1>2. TxInv /\ StockBounds /\ [TxNext]_txVars => StockBounds'
  BY TxStepIsStep, StockBoundsNext DEF TxInv, TxTypeOK
<1> QED  BY <1>1, <1>2, TxInvInit, TxInvNext, PTL DEF TxSpec
=============================================================================
