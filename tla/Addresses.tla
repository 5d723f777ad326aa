------------------------------ MODULE Addresses ------------------------------
(* The delivery addresses of a customer and the default one:               *)
(* addresses.service.ts. Its transactions run at READ COMMITTED: each       *)
(* statement sees what was committed when it began, and what a transaction  *)
(* writes is seen when it commits.                                          *)
EXTENDS Requests, Sequences

CONSTANTS
  Customers,
  MaxAddresses  \* bound on the addresses a customer ever has

VARIABLES
  addresses,  \* customer -> the rows in order of creation: [default, deleted]
  unset       \* history: customers who asked for a default to be none

addressVars == <<addresses, unset>>

AddressRow == [default : BOOLEAN, deleted : BOOLEAN]

ASSUME AddressAssumption == Null \notin BOOLEAN \cup Nat

AddressesInit ==
  /\ addresses = [c \in Customers |-> << >>]
  /\ unset = {}

Ids(c) == DOMAIN addresses[c]
LiveIds(c) == {a \in Ids(c) : ~addresses[c][a].deleted}
DefaultIds(c) == {a \in LiveIds(c) : addresses[c][a].default}

\* The rows of c with the default taken off those in `off`.
Cleared(c, off) ==
  [a \in Ids(c) |-> IF a \in off THEN [addresses[c][a] EXCEPT !.default = FALSE]
                                 ELSE addresses[c][a]]

\* profileComplete asks for a default address.
HasDefault(c) == DefaultIds(c) # {}

-----------------------------------------------------------------------------
(* create: count, clear the default if it takes it, insert and commit. *)
BeginCreate(h, c, asked) ==
  /\ Len(addresses[c]) < MaxAddresses
  /\ Begin(h, [op |-> "create", on |-> {c}, customer |-> c, default |-> asked \/ LiveIds(c) = {}])
  /\ UNCHANGED addressVars

ClearForCreate(h) ==
  LET r == request[h] IN
  /\ Doing(h, "create")
  /\ GoOn(h, [op |-> "insert", on |-> r.on, customer |-> r.customer, default |-> r.default,
              off |-> IF r.default THEN DefaultIds(r.customer) ELSE {}])
  /\ UNCHANGED addressVars

Insert(h) ==
  LET r == request[h] IN
  /\ Doing(h, "insert")
  /\ Len(addresses[r.customer]) < MaxAddresses
  /\ addresses' = [addresses EXCEPT ![r.customer] =
       Append(Cleared(r.customer, r.off), [default |-> r.default, deleted |-> FALSE])]
  /\ End(h)
  /\ UNCHANGED unset

(* update and setDefault: look the address up, clear the default if it is   *)
(* to be taken, write the row by id and commit. `default` is what the row   *)
(* gets, or Null if the update does not say.                                *)
BeginUpdateAddress(h, c, a, default) ==
  /\ a \in LiveIds(c)
  /\ Begin(h, [op |-> "update", on |-> {c}, customer |-> c, address |-> a, default |-> default])
  /\ UNCHANGED addressVars

ClearForUpdate(h) ==
  LET r == request[h] IN
  /\ Doing(h, "update")
  /\ GoOn(h, [op |-> "write", on |-> r.on, customer |-> r.customer, address |-> r.address,
              default |-> r.default,
              off |-> IF r.default = TRUE THEN DefaultIds(r.customer) ELSE {}])
  /\ UNCHANGED addressVars

WriteAddress(h) ==
  LET r == request[h]
      rows == Cleared(r.customer, r.off) IN
  /\ Doing(h, "write")
  /\ addresses' = [addresses EXCEPT ![r.customer] =
       IF r.default = Null THEN rows ELSE [rows EXCEPT ![r.address].default = r.default]]
  /\ unset' = IF r.default = FALSE THEN unset \cup {r.customer} ELSE unset
  /\ End(h)

(* remove: look the address up; mark it; if it was the default, the latest *)
(* of those left is to follow; commit.                                      *)
BeginRemoveAddress(h, c, a) ==
  /\ a \in LiveIds(c)
  /\ Begin(h, [op |-> "remove", on |-> {c}, customer |-> c, address |-> a,
               default |-> addresses[c][a].default])
  /\ UNCHANGED addressVars

ChooseNext(h) ==
  LET r == request[h]
      left == LiveIds(r.customer) \ {r.address} IN
  /\ Doing(h, "remove")
  /\ GoOn(h, [op |-> "promote", on |-> r.on, customer |-> r.customer, address |-> r.address,
              next |-> IF r.default /\ left # {}
                       THEN CHOOSE a \in left : \A b \in left : b <= a ELSE Null])
  /\ UNCHANGED addressVars

\* Faulty: a removal that leaves no default behind.
RemoveOnly(h) ==
  LET r == request[h] IN
  /\ Doing(h, "promote")
  /\ addresses' = [addresses EXCEPT ![r.customer][r.address] =
                     [default |-> FALSE, deleted |-> TRUE]]
  /\ End(h)
  /\ UNCHANGED unset

RemoveAddress(h) ==
  LET r == request[h] IN
  /\ Doing(h, "promote")
  /\ addresses' = [addresses EXCEPT ![r.customer] =
       [a \in Ids(r.customer) |->
          IF a = r.address THEN [default |-> FALSE, deleted |-> TRUE]
          ELSE IF a = r.next THEN [@[a] EXCEPT !.default = TRUE] ELSE @[a]]]
  /\ End(h)
  /\ UNCHANGED unset

AddressesNext ==
  \E h \in Handlers :
    \/ \E c \in Customers :
         \/ \E asked \in BOOLEAN : BeginCreate(h, c, asked)
         \/ \E a \in Ids(c) :
              \/ \E default \in BOOLEAN \cup {Null} : BeginUpdateAddress(h, c, a, default)
              \/ BeginRemoveAddress(h, c, a)
    \/ ClearForCreate(h) \/ Insert(h) \/ ClearForUpdate(h) \/ WriteAddress(h)
    \/ ChooseNext(h) \/ RemoveAddress(h)
    \/ Abandon(h) /\ UNCHANGED addressVars

AddressesSpec ==
  AddressesInit /\ RequestsInit /\ [][AddressesNext]_<<requestVars, addressVars>>

-----------------------------------------------------------------------------
(* Properties. *)

\* A customer with addresses has exactly one default, unless two requests on
\* them overlap (at READ COMMITTED neither sees the other's default) or the
\* customer took the default off.
OneDefault ==
  \A c \in Customers \ overlapped :
    /\ Cardinality(DefaultIds(c)) <= 1
    /\ LiveIds(c) # {} /\ c \notin unset => HasDefault(c)
=============================================================================
