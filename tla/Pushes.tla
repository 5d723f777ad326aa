-------------------------------- MODULE Pushes --------------------------------
(* Notifications to one customer or to many (notifications.service.ts): the *)
(* row, then a push to every device of the customer, and at the end the     *)
(* devices that Firebase did not know are switched off, by the ids that     *)
(* were read at the beginning. Devices change hands meanwhile.              *)
EXTENDS Accounts

VARIABLE pushed  \* history: [device, to, owner] of every push that arrived

pushVars == <<accountVars, pushed>>

\* A shop that has its customers.
PushesInit ==
  /\ account = [u \in AccountIds |-> NewAccount(Null, Null)]
  /\ device = [d \in Devices |-> Null] /\ registered = [d \in Devices |-> Null]
  /\ files = {} /\ changedTo = [u \in AccountIds |-> Null] /\ halfway = {}
  /\ pushed = {}

\* The customers to notify: the one an order is of, or those of a broadcast.
BeginNotify(h, us) ==
  /\ us \subseteq Known
  /\ Begin(h, [op |-> "notify", on |-> {}, todo |-> us])
  /\ UNCHANGED pushVars

\* The next of them gets the row, or is skipped when that fails; then the
\* devices are read. Without a customer left, the request is answered.
ReadTokens(h, u) ==
  LET r == request[h]
      mine == {d \in Devices : device[d] = [user |-> u, live |-> TRUE]} IN
  /\ Doing(h, "notify") /\ u \in r.todo
  /\ \/ GoOn(h, [op |-> "push", on |-> mine, todo |-> r.todo \ {u}, user |-> u, left |-> mine,
                 invalid |-> {}])
     \/ GoOn(h, [r EXCEPT !.todo = @ \ {u}])
  /\ UNCHANGED pushVars

EndNotify(h) ==
  /\ Doing(h, "notify") /\ request[h].todo = {}
  /\ End(h)
  /\ UNCHANGED pushVars

\* Faulty: every push that fails takes its device for unknown.
SendPushOrRetire(h, d) ==
  LET r == request[h] IN
  /\ Doing(h, "push") /\ d \in r.left
  /\ \/ /\ pushed' = pushed \cup {[device |-> d, to |-> r.user, owner |-> device[d].user]}
        /\ GoOn(h, [r EXCEPT !.left = @ \ {d}])
        /\ UNCHANGED registered
     \/ /\ GoOn(h, [r EXCEPT !.left = @ \ {d}, !.invalid = @ \cup {d}])
        /\ UNCHANGED <<registered, pushed>>
  /\ UNCHANGED <<account, device, files, changedTo, halfway>>

\* One device: the push arrives; or Firebase does not know the token (the app
\* is gone from the device); or it fails in another way, which is logged.
SendPush(h, d) ==
  LET r == request[h] IN
  /\ Doing(h, "push") /\ d \in r.left
  /\ \/ /\ pushed' = pushed \cup {[device |-> d, to |-> r.user, owner |-> device[d].user]}
        /\ GoOn(h, [r EXCEPT !.left = @ \ {d}])
        /\ UNCHANGED registered
     \/ /\ registered' = [registered EXCEPT ![d] = Null]
        /\ GoOn(h, [r EXCEPT !.left = @ \ {d}, !.invalid = @ \cup {d}])
        /\ UNCHANGED pushed
     \/ /\ GoOn(h, [r EXCEPT !.left = @ \ {d}])
        /\ UNCHANGED <<registered, pushed>>
  /\ UNCHANGED <<account, device, files, changedTo, halfway>>

RetireInvalid(h) ==
  LET r == request[h] IN
  /\ Doing(h, "push") /\ r.left = {}
  /\ device' = [d \in Devices |-> IF d \in r.invalid THEN [device[d] EXCEPT !.live = FALSE]
                                  ELSE device[d]]
  /\ GoOn(h, [op |-> "notify", on |-> {}, todo |-> r.todo])
  /\ UNCHANGED <<account, files, changedTo, registered, halfway, pushed>>

PushesNext ==
  \/ \E h \in Handlers :
       \/ \E us \in SUBSET AccountIds \ {{}} : BeginNotify(h, us)
       \/ \E u \in AccountIds : ReadTokens(h, u)
       \/ \E d \in Devices : SendPush(h, d)
       \/ EndNotify(h) \/ RetireInvalid(h)
  \/ \E h \in Handlers :
       /\ \/ \E u \in AccountIds, d \in Devices : RegisterDevice(u, d) \/ BeginRemoveDevice(h, u, d)
          \/ RemoveDevice(h) \/ AbandonAccount(h)
       /\ UNCHANGED pushed

PushesSpec == PushesInit /\ RequestsInit /\ [][PushesNext]_<<requestVars, pushVars>>

-----------------------------------------------------------------------------
(* Properties. *)

\* A push shows on a device of the customer it is for, and a device that is
\* registered stays reached, whatever Firebase answered for it before: unless
\* it is registered again while a push that read it is on its way.
DevicesServed ==
  /\ DeviceReached
  /\ \A x \in pushed : x.owner = x.to \/ x.device \in overlapped
=============================================================================
