------------------------------ MODULE Inventory ------------------------------
(***************************************************************************)
(* InventoryService: the stock row of every sellable unit (a product with  *)
(* no variants, or a variant) and the InventoryMovement ledger.            *)
(*                                                                         *)
(* Every write of a stock row happens in a database transaction that first *)
(* takes the row with SELECT ... FOR UPDATE (lockInventoryRow) and keeps   *)
(* it to the commit, so what a transaction does to the rows it touches is  *)
(* one step.  setQuantity is the exception: it reads the quantity before   *)
(* its transaction, so it is two steps.                                    *)
(*                                                                         *)
(* The four order operations are written as operators on the lines of an   *)
(* order, for the module Orders to use in its handlers' transactions.  The *)
(* lines of an order are a function from stock rows to ordered units; two  *)
(* lines on one row are their sum.                                         *)
(*                                                                         *)
(* In this module and the others a definition commented "Faulty" is no     *)
(* part of the system: it is a form the code could have had by mistake,    *)
(* and PROJECT.json names the property that tells it from the real one.    *)
(***************************************************************************)
EXTENDS Store, Sequences

CONSTANTS
  Admins,           \* staff who can have a set-quantity request in flight
  InitialQuantity,  \* units on hand at the start, per stock row
  ManualDeltas,     \* the deltas an adjustment is asked for
  ExactQuantities,  \* the quantities a set-quantity request asks for
  MaxMovements      \* bound: no manual adjustment of a row with that many movements

ASSUME StockAssumption ==
  /\ InitialQuantity \in [Items -> Nat]
  /\ ManualDeltas \subseteq Int \ {0}
  /\ ExactQuantities \subseteq Nat
  /\ MaxMovements \in Nat

VARIABLES
  quantity,   \* Inventory.quantity: units on hand
  reserved,   \* Inventory.reservedQuantity: units promised to pending orders
  ledger,     \* the InventoryMovement rows of each stock row, oldest first
  setting,    \* a set-quantity request between its read and its transaction
  \* History variables, which no guard reads: what each order has had done for it.
  reservations, \* times its lines were reserved minus times they were released or confirmed
  deductions    \* times its lines were taken from stock minus times they were put back

accountVars == <<reservations, deductions>>
stockVars == <<quantity, reserved, ledger, reservations, deductions>>
inventoryVars == <<quantity, reserved, ledger, setting, reservations, deductions>>

MovementType == {"ORDER_CONFIRM", "ORDER_CANCEL", "MANUAL_IN", "MANUAL_OUT"}

Movement == [type : MovementType, quantityChange : Int, quantityAfter : Int,
             order : OrderIds \cup {Null}, note : Nat \cup {Null}]

\* The read of findInventoryOrThrow, kept as the difference to apply later.
SetRequest == [item : Items, delta : Int \ {0}, wanted : Nat]

ASSUME NullAssumption ==
  /\ Null \notin Int
  /\ Null \notin OrderIds
  /\ Null \notin SetRequest

InventoryTypeOK ==
  /\ quantity \in [Items -> Int]
  /\ reserved \in [Items -> Int]
  /\ ledger \in [Items -> Seq(Movement)]
  /\ setting \in [Admins -> SetRequest \cup {Null}]
  /\ reservations \in [OrderIds -> Int]
  /\ deductions \in [OrderIds -> Int]

InventoryInit ==
  /\ quantity = InitialQuantity
  /\ reserved = [i \in Items |-> 0]
  /\ ledger = [i \in Items |-> <<>>]
  /\ setting = [a \in Admins |-> Null]
  /\ reservations = [o \in OrderIds |-> 0]
  /\ deductions = [o \in OrderIds |-> 0]

-----------------------------------------------------------------------------
(* Order operations, each inside the transaction of an order handler: n is *)
(* the units of the order o per stock row.                                 *)

Available(i) == quantity[i] - reserved[i]

\* A movement row on every stock row the lines name.
RecordMovements(type, o, change) ==
  ledger' = [i \in Items |->
               IF change[i] = 0 THEN ledger[i]
               ELSE Append(ledger[i],
                           [type |-> type, quantityChange |-> change[i],
                            quantityAfter |-> quantity[i] + change[i],
                            order |-> o, note |-> Null])]

Account(o, reservation, deduction) ==
  /\ reservations' = [reservations EXCEPT ![o] = @ + reservation]
  /\ deductions' = [deductions EXCEPT ![o] = @ + deduction]

\* A line that asks for more than is available throws and rolls all lines back.
ReserveForOrder(o, n) ==
  /\ \A i \in Items : n[i] > 0 => n[i] <= Available(i)
  /\ reserved' = [i \in Items |-> reserved[i] + n[i]]
  /\ Account(o, 1, 0)
  /\ UNCHANGED <<quantity, ledger>>

\* Faulty: takes the units off the shelf and leaves them reserved.
ConfirmKeepsReservation(o, n) ==
  /\ \A i \in Items : n[i] > 0 => n[i] <= reserved[i] /\ n[i] <= quantity[i]
  /\ quantity' = [i \in Items |-> quantity[i] - n[i]]
  /\ RecordMovements("ORDER_CONFIRM", o, [i \in Items |-> -n[i]])
  /\ Account(o, -1, 1)
  /\ UNCHANGED reserved

ConfirmReservation(o, n) ==
  /\ \A i \in Items : n[i] > 0 => n[i] <= reserved[i] /\ n[i] <= quantity[i]
  /\ quantity' = [i \in Items |-> quantity[i] - n[i]]
  /\ reserved' = [i \in Items |-> reserved[i] - n[i]]
  /\ RecordMovements("ORDER_CONFIRM", o, [i \in Items |-> -n[i]])
  /\ Account(o, -1, 1)

\* Faulty: stops at zero instead of throwing.
ReleaseClamped(o, n) ==
  /\ reserved' = [i \in Items |-> IF n[i] > reserved[i] THEN 0 ELSE reserved[i] - n[i]]
  /\ Account(o, -1, 0)
  /\ UNCHANGED <<quantity, ledger>>

ReleaseReservation(o, n) ==
  /\ \A i \in Items : n[i] > 0 => n[i] <= reserved[i]
  /\ reserved' = [i \in Items |-> reserved[i] - n[i]]
  /\ Account(o, -1, 0)
  /\ UNCHANGED <<quantity, ledger>>

RestoreOnCancelAfterConfirm(o, n) ==
  /\ quantity' = [i \in Items |-> quantity[i] + n[i]]
  /\ RecordMovements("ORDER_CANCEL", o, n)
  /\ Account(o, 0, -1)
  /\ UNCHANGED reserved

-----------------------------------------------------------------------------
(* Manual corrections by ADMIN and MANAGER.                                *)

\* Faulty: looks at the quantity and not at what is reserved of it.
ApplyDeltaBelowReserved(i, delta, note) ==
  LET next == quantity[i] + delta IN
  /\ next >= 0
  /\ quantity' = [quantity EXCEPT ![i] = next]
  /\ ledger' = [ledger EXCEPT ![i] = Append(@,
                  [type |-> IF delta > 0 THEN "MANUAL_IN" ELSE "MANUAL_OUT",
                   quantityChange |-> delta, quantityAfter |-> next,
                   order |-> Null, note |-> note])]
  /\ UNCHANGED <<reserved, accountVars>>

ApplyDelta(i, delta, note) ==
  LET next == quantity[i] + delta IN
  /\ next >= 0
  /\ next >= reserved[i]
  /\ quantity' = [quantity EXCEPT ![i] = next]
  /\ ledger' = [ledger EXCEPT ![i] = Append(@,
                  [type |-> IF delta > 0 THEN "MANUAL_IN" ELSE "MANUAL_OUT",
                   quantityChange |-> delta, quantityAfter |-> next,
                   order |-> Null, note |-> note])]
  /\ UNCHANGED <<reserved, accountVars>>

AdjustManual(i, delta) ==
  /\ Len(ledger[i]) < MaxMovements
  /\ ApplyDelta(i, delta, Null)
  /\ UNCHANGED setting

\* setQuantity reads the row with no lock and works out the delta; asked for
\* the quantity it finds, it answers at once and changes nothing.
SetQuantityRead(a, i, wanted) ==
  /\ setting[a] = Null
  /\ Len(ledger[i]) < MaxMovements
  /\ wanted # quantity[i]
  /\ setting' = [setting EXCEPT ![a] =
                   [item |-> i, delta |-> wanted - quantity[i], wanted |-> wanted]]
  /\ UNCHANGED stockVars

\* Faulty: writes the wanted quantity over whatever the row holds by now.
SetQuantityOverwrite(a) ==
  /\ setting[a] # Null
  /\ LET r == setting[a] IN
       /\ r.wanted >= reserved[r.item]
       /\ quantity' = [quantity EXCEPT ![r.item] = r.wanted]
       /\ ledger' = [ledger EXCEPT ![r.item] = Append(@,
                       [type |-> IF r.delta > 0 THEN "MANUAL_IN" ELSE "MANUAL_OUT",
                        quantityChange |-> r.delta, quantityAfter |-> r.wanted,
                        order |-> Null, note |-> r.wanted])]
  /\ setting' = [setting EXCEPT ![a] = Null]
  /\ UNCHANGED <<reserved, accountVars>>

\* ... and then adjusts by that delta.  Unless staff write their own, the note
\* of the movement names the quantity asked for.
SetQuantityApply(a) ==
  /\ setting[a] # Null
  /\ ApplyDelta(setting[a].item, setting[a].delta, setting[a].wanted)
  /\ setting' = [setting EXCEPT ![a] = Null]

\* The transaction is refused (400) or lost with its process.
SetQuantityAbort(a) ==
  /\ setting[a] # Null
  /\ setting' = [setting EXCEPT ![a] = Null]
  /\ UNCHANGED stockVars

-----------------------------------------------------------------------------
(* Properties of the stock rows.                                           *)

\* No stock row ever promises units it does not hold, and never goes negative:
\* the checks of reserveForOrder, confirmReservation, releaseReservation and
\* adjustManual together, under every interleaving of orders, cancellations
\* and corrections ("reserved quantity cannot go invalid").
StockBounds == \A i \in Items : 0 <= reserved[i] /\ reserved[i] <= quantity[i]

QuantityBefore(i, k) ==
  IF k = 1 THEN InitialQuantity[i] ELSE ledger[i][k - 1].quantityAfter

LedgerChain(i) ==
  /\ \A k \in 1..Len(ledger[i]) :
       ledger[i][k].quantityAfter = QuantityBefore(i, k) + ledger[i][k].quantityChange
  /\ quantity[i] = QuantityBefore(i, Len(ledger[i]) + 1)

\* The ledger of a stock row accounts for its quantity: every movement starts
\* where the one before ended, and the last ends at the quantity on hand.  A
\* writer that skipped the movement, or worked from a quantity read before the
\* lock, would break the chain.
LedgerAccounts == \A i \in Items : LedgerChain(i)
=============================================================================
