------------------------------- MODULE Requests -------------------------------
(* Requests in flight. A handler of the service awaits every statement, so  *)
(* between two statements of one request another may run. request[h] holds  *)
(* what the request of handler h has read and means to do; its field `on`   *)
(* names what it works on. `overlapped` is history: what two requests have  *)
(* been in flight on at once. No guard reads it.                            *)
EXTENDS Integers, FiniteSets

CONSTANTS
  Handlers,  \* the requests that may be in flight at once
  Null       \* nothing

VARIABLES request, overlapped

requestVars == <<request, overlapped>>

InFlight == {h \in Handlers : request[h] # Null}

RequestsInit ==
  /\ request = [h \in Handlers |-> Null]
  /\ overlapped = {}

\* Handler h takes up a request, which has read what r says.
Begin(h, r) ==
  /\ request[h] = Null
  /\ request' = [request EXCEPT ![h] = r]
  /\ overlapped' = overlapped \cup UNION {r.on \cap request[g].on : g \in InFlight}

Doing(h, op) == request[h] # Null /\ request[h].op = op

\* It goes on as r, having read or written something.
GoOn(h, r) ==
  /\ request' = [request EXCEPT ![h] = r]
  /\ UNCHANGED overlapped

\* It is answered; or refused, failed or lost on the way: what it wrote stays.
End(h) == GoOn(h, Null)
Abandon(h) == request[h] # Null /\ End(h)

\* The columns that an update names, and the rest of the row.
Over(change, row) ==
  [f \in DOMAIN change \cup DOMAIN row |-> IF f \in DOMAIN change THEN change[f] ELSE row[f]]

=============================================================================
