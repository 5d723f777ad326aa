-------------------------------- MODULE Store --------------------------------
(* What the models of the shop's services share. *)
EXTENDS Integers

CONSTANTS
  Items,     \* the stock rows: products without variants, and variants
  OrderIds,  \* the orders that may ever be placed
  Null       \* no order, no note, no code, no limit, no request

FulfilmentType == {"DELIVERY", "PICKUP"}

\* The lines of an order or of a request: ordered units per stock row.
Lines == [Items -> Nat]
=============================================================================
