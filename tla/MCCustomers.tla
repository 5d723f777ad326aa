----------------------------- MODULE MCCustomers -----------------------------
(* The services of a customer's own data, for TLC. They share no rows, so a *)
(* behaviour is of one of them, the service in focus.                       *)
EXTENDS Sessions, Pushes, Addresses, Lists, TLC

VARIABLE focus

vars == <<focus, requestVars, sessionVars, pushVars, addressVars, listVars>>

Services == {"sessions", "identity", "profile", "pushes", "addresses", "lists"}

Init ==
  /\ focus \in Services
  /\ RequestsInit /\ SessionsInit /\ AddressesInit /\ ListsInit
  /\ IF focus = "pushes" THEN PushesInit ELSE AccountsInit /\ pushed = {}

SessionsStep ==
  /\ focus = "sessions" /\ SessionsNext
  /\ UNCHANGED <<focus, pushVars, addressVars, listVars>>
IdentityStep ==
  /\ focus = "identity" /\ IdentityNext
  /\ UNCHANGED <<focus, sessionVars, addressVars, listVars, pushed>>
ProfileStep ==
  /\ focus = "profile" /\ ProfileNext
  /\ UNCHANGED <<focus, sessionVars, addressVars, listVars, pushed>>
PushesStep ==
  /\ focus = "pushes" /\ PushesNext
  /\ UNCHANGED <<focus, sessionVars, addressVars, listVars>>
AddressesStep ==
  /\ focus = "addresses" /\ AddressesNext
  /\ UNCHANGED <<focus, sessionVars, pushVars, listVars>>
ListsStep ==
  /\ focus = "lists" /\ ListsNext
  /\ UNCHANGED <<focus, sessionVars, pushVars, addressVars>>

Next == SessionsStep \/ IdentityStep \/ ProfileStep \/ PushesStep \/ AddressesStep \/ ListsStep
Spec == Init /\ [][Next]_vars

CONSTANTS u1, a1, a2, c1, c2, t1, t2, t3, h1, h2, e1, e2, s1, s2, f1, f2, f3, d1, p1, p2, q1, q2
Symmetry == Permutations(Handlers) \cup Permutations(Tokens)
            \cup Permutations(Files) \cup Permutations(AccountIds)
=============================================================================
