---------------------------- MODULE CustomersProofs ----------------------------
(***************************************************************************)
(* What the services of a customer's own data keep, for any number of      *)
(* users, tokens, customers, addresses and requests: a session has one     *)
(* live refresh token, a password reset ends the sessions there are, one   *)
(* address is the default, a profile and its avatar are served, a device   *)
(* is reached under its account, and a search is counted before it is had. *)
(***************************************************************************)
EXTENDS Sessions, Pushes, Addresses, Lists, FiniteSetTheorems, WellFoundedInduction, TLAPS

-----------------------------------------------------------------------------
(* Refresh tokens: auth.service.ts.                                        *)

Issued == {t \in Tokens : token[t] # Null}

\* No token of the session of root x is or was in two requests at once.
Clean(x) == \A y \in overlapped \cap Tokens : Root(y) # x

\* What a request in flight has read still holds of the rows, but for what a
\* password reset did.
SessionRequestOK(r) ==
  /\ r.on \subseteq Issued \cup Users
  /\ r.op \in {"login", "rotate", "revokeAll", "reset"} => r.user \in Users
  /\ r.op \in {"rotate", "logout"} => r.token \in Issued
  /\ r.op = "rotate" =>
       /\ r.on = {r.token}
       /\ token[r.token].user = r.user
       /\ opened[r.token].password = r.password \/ Root(r.token) \in late

SessionShapeOK ==
  /\ DOMAIN request = Handlers
  /\ DOMAIN token = Tokens /\ DOMAIN opened = Tokens
  /\ DOMAIN password = Users
  /\ overlapped \cap Tokens \subseteq Issued
  /\ \A t \in Issued : token[t] \in TokenRow /\ Root(t) \in Issued
  /\ \A h \in InFlight : SessionRequestOK(request[h])
  /\ \A h, g \in InFlight : h # g => request[h].on \cap request[g].on \subseteq overlapped

\* The live token of a clean session is the one that a rotation in flight is
\* to replace, and there is one such rotation.
RotationOK ==
  \A h \in InFlight : \A x :
    /\ request[h].op = "rotate"
    /\ x = Root(request[h].token)
    /\ Clean(x)
    => /\ \A v \in Tokens : Live(v) /\ Root(v) = x => v = request[h].token
       /\ \A g \in InFlight :
            request[g].op = "rotate" /\ Root(request[g].token) = x => g = h

SessionInv == SessionShapeOK /\ RotationOK /\ OneLivePerSession /\ ResetsEndSessions

-----------------------------------------------------------------------------
(* Beginning a request changes no row.                                      *)
LEMMA BeginSessionKeeps ==
  ASSUME SessionInv, NEW h \in Handlers, NEW r, Begin(h, r), UNCHANGED sessionVars,
         SessionRequestOK(r), r.op = "rotate" => Live(r.token)
  PROVE  SessionInv'
<1> USE DEF SessionInv, sessionVars
<1>1. /\ request[h] = Null /\ DOMAIN request' = Handlers
      /\ request'[h] = r
      /\ \A g \in Handlers \ {h} : request'[g] = request[g]
      /\ overlapped \subseteq overlapped'
      /\ \A x \in overlapped' \ overlapped : \E g \in InFlight : x \in r.on /\ x \in request[g].on
      /\ \A g \in InFlight : r.on \cap request[g].on \subseteq overlapped'
  BY DEF Begin, SessionShapeOK
<1>2. /\ InFlight' \subseteq InFlight \cup {h}
      /\ h \notin InFlight
      /\ \A g \in InFlight' \ {h} : g \in InFlight /\ request'[g] = request[g]
  BY <1>1 DEF InFlight
<1>3. /\ Issued' = Issued
      /\ \A t : Live(t)' = Live(t)
      /\ \A t : Root(t)' = Root(t)
      /\ \A x : Clean(x)' => Clean(x)
  BY <1>1 DEF Issued, Live, Root, Clean
<1>4. \A q : SessionRequestOK(q)' = SessionRequestOK(q)
  BY <1>3 DEF SessionRequestOK, Root
<1>5. SessionShapeOK'
  <2>1. overlapped' \cap Tokens \subseteq Issued'
    BY <1>1, <1>3, SessionAssumption DEF SessionShapeOK, SessionRequestOK
  <2>2. \A g \in InFlight' : SessionRequestOK(request'[g])
    BY <1>1, <1>2 DEF SessionShapeOK
  <2>3. \A f, g \in InFlight' : f # g => request'[f].on \cap request'[g].on \subseteq overlapped'
    BY <1>1, <1>2 DEF SessionShapeOK
  <2> QED  BY <1>1, <1>3, <1>4, <2>1, <2>2, <2>3 DEF SessionShapeOK, Root
<1>6. RotationOK'
  <2> SUFFICES ASSUME NEW g \in InFlight', NEW q, q = request'[g], q.op = "rotate",
                      NEW x, x = Root(q.token), Clean(x)'
               PROVE  /\ \A v \in Tokens : Live(v) /\ Root(v) = x => v = q.token
                      /\ \A f \in InFlight' : \A p :
                           /\ p = request'[f] /\ p.op = "rotate" /\ Root(p.token) = x
                           => f = g
    BY <1>3 DEF RotationOK, Root
  <2>1. Clean(x)
    BY <1>3
  <2>2. ASSUME NEW v \in Tokens, Live(v), Root(v) = x
        PROVE  v = q.token
    <3>1. CASE g = h
      BY <1>1, <2>1, <2>2, <3>1 DEF OneLivePerSession, Clean, SessionRequestOK, Issued
    <3>2. CASE g # h
      BY <1>2, <2>1, <2>2, <3>2 DEF RotationOK
    <3> QED  BY <3>1, <3>2
  <2>3. ASSUME NEW e \in InFlight, request[e].op = "rotate",
               Root(request[e].token) = x, r.op = "rotate", Root(r.token) = x
        PROVE  FALSE
    <3>1. r.token = request[e].token
      BY <2>1, <2>3 DEF RotationOK, SessionRequestOK, Issued
    <3>2. r.token \in r.on /\ r.token \in request[e].on
      BY <2>3, <3>1 DEF SessionRequestOK, SessionShapeOK
    <3>3. r.token \in overlapped' \cap Tokens
      BY <1>1, <2>3, <3>2 DEF SessionRequestOK, Issued
    <3> QED  BY <1>3, <2>3, <3>3 DEF Clean
  <2>4. ASSUME NEW f \in InFlight', NEW p, p = request'[f], p.op = "rotate",
               Root(p.token) = x
        PROVE  f = g
    <3>1. CASE g = h \/ f = h
      BY <1>1, <1>2, <2>3, <2>4, <3>1
    <3>2. CASE g # h /\ f # h
      BY <1>2, <2>1, <2>4, <3>2 DEF RotationOK
    <3> QED  BY <3>1, <3>2
  <2> QED  BY <2>2, <2>4
<1>7. OneLivePerSession' /\ ResetsEndSessions'
  BY <1>1 DEF OneLivePerSession, ResetsEndSessions, Live, Root
<1> QED  BY <1>5, <1>6, <1>7

-----------------------------------------------------------------------------
(* Requests end, and rows are revoked.                                      *)
RequestsOnlyEnd ==
  /\ DOMAIN request' = Handlers
  /\ \A h \in Handlers : request'[h] = Null \/ request'[h] = request[h]
  /\ overlapped' = overlapped

LEMMA EndEnds ==
  ASSUME SessionInv, NEW h \in Handlers, End(h)
  PROVE  RequestsOnlyEnd
BY DEF SessionInv, SessionShapeOK, End, GoOn, RequestsOnlyEnd

LEMMA RevokingKeeps ==
  ASSUME SessionInv, RequestsOnlyEnd, UNCHANGED <<opened, late>>,
         DOMAIN token' = Tokens, DOMAIN password' = Users,
         \A t \in Tokens : token[t] = Null => token'[t] = Null,
         \A t \in Issued : /\ token'[t] \in TokenRow
                           /\ token'[t].user = token[t].user
                           /\ Live(t)' => /\ Live(t)
                                         /\ password'[token[t].user] = password[token[t].user]
  PROVE  SessionInv'
<1> USE DEF SessionInv
<1>1. /\ InFlight' \subseteq InFlight
      /\ \A g \in InFlight' : request'[g] = request[g]
  BY DEF InFlight, RequestsOnlyEnd
<1>2. /\ Issued' = Issued
      /\ \A t : Root(t)' = Root(t)
      /\ \A x : Clean(x)' = Clean(x)
      /\ \A t \in Tokens : Live(t)' => Live(t)
  BY SessionAssumption DEF Issued, Root, Clean, RequestsOnlyEnd, Live
<1>3. \A q : SessionRequestOK(q) => SessionRequestOK(q)'
  BY <1>2 DEF SessionRequestOK, Root
<1>4. SessionShapeOK'
  BY <1>1, <1>2, <1>3 DEF SessionShapeOK, RequestsOnlyEnd, Root
<1>5. RotationOK'
  BY <1>1, <1>2 DEF RotationOK, Root
<1>6. OneLivePerSession'
  BY <1>2 DEF OneLivePerSession, Root, RequestsOnlyEnd
<1>7. ResetsEndSessions'
  BY <1>2 DEF ResetsEndSessions, Root, Issued, Live
<1> QED  BY <1>4, <1>5, <1>6, <1>7

-----------------------------------------------------------------------------
(* A new token: of a new session, or the next one of a session.             *)
LEMMA IssueLoginKeeps ==
  ASSUME SessionInv, NEW h \in Handlers, NEW n \in Tokens, IssueLogin(h, n)
  PROVE  SessionInv'
<1> USE DEF SessionInv
<1> DEFINE r == request[h]
<1>1. /\ RequestsOnlyEnd
      /\ InFlight' \subseteq InFlight
      /\ \A g \in InFlight' : request'[g] = request[g]
  BY EndEnds DEF InFlight, RequestsOnlyEnd, IssueLogin
<1>2. /\ r.user \in Users
      /\ token[n] = Null /\ n \notin Issued
      /\ token'[n] = NewRow(r.user) /\ token'[n] \in TokenRow /\ ~token'[n].revoked
      /\ token'[n].user = r.user
      /\ opened'[n].root = n /\ opened'[n].password = r.password
      /\ \A t \in Tokens \ {n} : token'[t] = token[t] /\ opened'[t] = opened[t]
      /\ DOMAIN token' = Tokens /\ DOMAIN opened' = Tokens
      /\ late \subseteq late' /\ (password[r.user] # r.password => n \in late')
      /\ UNCHANGED password
  BY DEF IssueLogin, Doing, SessionShapeOK, SessionRequestOK, InFlight, Issued, NewRow, TokenRow, Straddles
<1>3. /\ Issued' = Issued \cup {n}
      /\ \A t \in Issued : Root(t)' = Root(t) /\ Root(t) # n /\ t # n
      /\ \A t \in Tokens : Live(t)' => t \in Issued'
      /\ \A t \in Issued : Live(t)' = Live(t)
      /\ Root(n)' = n
  BY <1>2, SessionAssumption DEF Issued, Root, Live, SessionShapeOK
<1>4. \A x : x # n => (Clean(x)' = Clean(x))
  BY <1>1, <1>3 DEF Clean, SessionShapeOK, RequestsOnlyEnd
<1>5. \A q : SessionRequestOK(q) => SessionRequestOK(q)'
  BY <1>2, <1>3 DEF SessionRequestOK, Root, Issued
<1>6. SessionShapeOK'
  BY <1>1, <1>2, <1>3, <1>5 DEF SessionShapeOK, RequestsOnlyEnd, Root, Issued
<1>7. RotationOK'
  <2> SUFFICES ASSUME NEW g \in InFlight', NEW q, q = request'[g], q.op = "rotate",
                      NEW x, x = Root(q.token)', Clean(x)'
               PROVE  /\ \A v \in Tokens : Live(v)' /\ Root(v)' = x => v = q.token
                      /\ \A f \in InFlight' : \A p :
                           /\ p = request'[f] /\ p.op = "rotate" /\ Root(p.token)' = x
                           => f = g
    BY DEF RotationOK, Root
  <2>1. \A f \in InFlight' : \A p :
          p = request'[f] /\ p.op = "rotate" => f \in InFlight /\ p = request[f] /\ p.token \in Issued
    BY <1>1 DEF SessionShapeOK, SessionRequestOK
  <2>2. q.token \in Issued /\ x = Root(q.token) /\ x # n /\ Clean(x)
    BY <1>3, <1>4, <2>1
  <2> QED  BY <1>3, <2>1, <2>2 DEF RotationOK
<1>8. OneLivePerSession'
  BY <1>1, <1>3 DEF OneLivePerSession, RequestsOnlyEnd, Root, SessionShapeOK
<1>9. ResetsEndSessions'
  BY <1>2, <1>3 DEF ResetsEndSessions, Root, Issued
<1> QED  BY <1>6, <1>7, <1>8, <1>9

LEMMA RotateKeeps ==
  ASSUME SessionInv, NEW h \in Handlers, NEW n \in Tokens, Rotate(h, n)
  PROVE  SessionInv'
<1> USE DEF SessionInv
<1> DEFINE r == request[h]
           t == r.token
<1>1. /\ RequestsOnlyEnd
      /\ InFlight' \subseteq InFlight \ {h}
      /\ \A g \in InFlight' : request'[g] = request[g]
      /\ h \in InFlight /\ r.op = "rotate"
  BY EndEnds DEF InFlight, RequestsOnlyEnd, Rotate, Doing, End, GoOn, SessionShapeOK
<1>2. /\ r.user \in Users
      /\ token[n] = Null /\ n \notin Issued
      /\ t \in Issued /\ token[t].user = r.user /\ token[t] \in TokenRow
      /\ opened[t].password = r.password \/ Root(t) \in late
  BY <1>1 DEF Rotate, Doing, SessionShapeOK, SessionRequestOK, InFlight, Issued
<1>3. /\ token'[n] = NewRow(r.user) /\ token'[n] \in TokenRow
      /\ token'[n].user = r.user
      /\ token'[t].revoked /\ token'[t] \in TokenRow /\ token'[t].user = r.user
      /\ \A v \in Tokens \ {n, t} : token'[v] = token[v]
      /\ DOMAIN token' = Tokens
  BY <1>2 DEF Rotate, SessionShapeOK, Issued, NewRow, TokenRow
<1>4. /\ opened'[n] = opened[t]
      /\ \A v \in Tokens \ {n} : opened'[v] = opened[v]
      /\ DOMAIN opened' = Tokens
      /\ late \subseteq late' /\ (password[r.user] # r.password => Root(t) \in late')
      /\ UNCHANGED password
  BY DEF Rotate, SessionShapeOK, Straddles, Root
<1>5. /\ Issued' = Issued \cup {n}
      /\ \A v \in Issued : Root(v)' = Root(v) /\ v # n
      /\ \A v \in Tokens : Live(v)' => v = n \/ (v # t /\ v \in Issued /\ Live(v))
      /\ Root(n)' = Root(t)
  BY <1>2, <1>3, <1>4, SessionAssumption DEF Issued, Root, Live
<1>6. \A x : Clean(x)' = Clean(x)
  BY <1>1, <1>5 DEF Clean, SessionShapeOK, RequestsOnlyEnd
<1>7. \A q : SessionRequestOK(q) => SessionRequestOK(q)'
  BY <1>2, <1>3, <1>4, <1>5 DEF SessionRequestOK, Root, Issued
<1>8. SessionShapeOK'
  BY <1>1, <1>2, <1>3, <1>4, <1>5, <1>7 DEF SessionShapeOK, RequestsOnlyEnd, Root, Issued
<1>9. \A g \in InFlight' : \A q :
        /\ q = request'[g] /\ q.op = "rotate" /\ Clean(Root(q.token))
        => q.token \in Issued /\ Root(q.token) # Root(t)
  BY <1>1, <1>2 DEF RotationOK, SessionShapeOK, SessionRequestOK
<1>10. RotationOK'
  <2> SUFFICES ASSUME NEW g \in InFlight', NEW q, q = request'[g], q.op = "rotate",
                      NEW x, x = Root(q.token)', Clean(x)'
               PROVE  /\ \A v \in Tokens : Live(v)' /\ Root(v)' = x => v = q.token
                      /\ \A f \in InFlight' : \A p :
                           /\ p = request'[f] /\ p.op = "rotate" /\ Root(p.token)' = x
                           => f = g
    BY DEF RotationOK, Root
  <2>1. \A f \in InFlight' : \A p :
          p = request'[f] /\ p.op = "rotate" => f \in InFlight /\ p = request[f] /\ p.token \in Issued
    BY <1>1 DEF SessionShapeOK, SessionRequestOK
  <2>2. q.token \in Issued /\ x = Root(q.token) /\ Clean(x) /\ x # Root(t)
    BY <1>5, <1>6, <1>9, <2>1
  <2> QED  BY <1>5, <2>1, <2>2 DEF RotationOK
<1>11. OneLivePerSession'
  <2> SUFFICES ASSUME NEW v \in Tokens, NEW w \in Tokens, Live(v)', Live(w)',
                      Root(v)' = Root(w)', Clean(Root(v)')
               PROVE  v = w
    BY <1>1, <1>5 DEF OneLivePerSession, Clean, RequestsOnlyEnd, Root, SessionShapeOK, Issued
  <2>1. CASE v # n /\ w # n
    BY <1>5, <2>1 DEF OneLivePerSession, Clean
  <2>2. \A u \in Tokens : Live(u)' /\ Root(u)' = Root(t) /\ Clean(Root(t)) => u = n
    BY <1>1, <1>5 DEF RotationOK
  <2> QED  BY <1>5, <2>1, <2>2
<1>12. ResetsEndSessions'
  BY <1>2, <1>3, <1>4, <1>5 DEF ResetsEndSessions, Root, Issued
<1> QED  BY <1>8, <1>10, <1>11, <1>12

-----------------------------------------------------------------------------
LEMMA SessionInvInit == SessionsInit /\ RequestsInit => SessionInv
BY DEF SessionsInit, RequestsInit, SessionInv, SessionShapeOK, RotationOK, OneLivePerSession,
       ResetsEndSessions, InFlight, Issued, Live

LEMMA SessionStepKeeps == SessionInv /\ [SessionsNext]_<<requestVars, sessionVars>> => SessionInv'
<1> SUFFICES ASSUME SessionInv, [SessionsNext]_<<requestVars, sessionVars>> PROVE SessionInv'
  OBVIOUS
<1>1. ASSUME NEW h \in Handlers, NEW u \in Users, BeginLogin(h, u)
      PROVE  SessionInv'
  <2> DEFINE r == [op |-> "login", on |-> {}, user |-> u, password |-> password[u]]
  <2>1. SessionRequestOK(r) /\ r.op = "login"
    BY DEF SessionRequestOK
  <2> QED  BY <1>1, <2>1, BeginSessionKeeps DEF BeginLogin
<1>2. ASSUME NEW h \in Handlers, NEW u \in Users, BeginReset(h, u)
      PROVE  SessionInv'
  <2> DEFINE r == [op |-> "reset", on |-> {u}, user |-> u]
  <2>1. SessionRequestOK(r) /\ r.op = "reset"
    BY DEF SessionRequestOK
  <2> QED  BY <1>2, <2>1, BeginSessionKeeps DEF BeginReset
<1>3. ASSUME NEW h \in Handlers, NEW t \in Tokens, BeginRefresh(h, t)
      PROVE  SessionInv'
  <2> DEFINE u == token[t].user
             a == [op |-> "revokeAll", on |-> {t}, user |-> u]
             b == [op |-> "rotate", on |-> {t}, user |-> u, token |-> t, password |-> password[u]]
  <2>1. t \in Issued /\ u \in Users
    BY <1>3 DEF BeginRefresh, SessionInv, SessionShapeOK, Issued, TokenRow
  <2>2. SessionRequestOK(a) /\ a.op = "revokeAll"
    BY <2>1 DEF SessionRequestOK
  <2>3. b.op = "rotate" /\ b.token = t /\ (Live(t) => SessionRequestOK(b))
    BY <2>1 DEF SessionRequestOK, SessionInv, ResetsEndSessions, Root, Issued
  <2>4. CASE Begin(h, a)
    BY <1>3, <2>2, <2>4, BeginSessionKeeps DEF BeginRefresh
  <2>5. CASE Live(t) /\ Begin(h, b)
    BY <1>3, <2>3, <2>5, BeginSessionKeeps DEF BeginRefresh
  <2> QED  BY <1>3, <2>4, <2>5 DEF BeginRefresh
<1>4. ASSUME NEW h \in Handlers, NEW t \in Tokens, BeginLogout(h, t)
      PROVE  SessionInv'
  <2> DEFINE r == [op |-> "logout", on |-> {t}, token |-> t]
  <2>1. SessionRequestOK(r) /\ r.op = "logout"
    BY <1>4 DEF SessionRequestOK, BeginLogout, Live, Issued
  <2> QED  BY <1>4, <2>1, BeginSessionKeeps DEF BeginLogout
<1>5. ASSUME NEW h \in Handlers, NEW n \in Tokens, IssueLogin(h, n) \/ Rotate(h, n)
      PROVE  SessionInv'
  BY <1>5, IssueLoginKeeps, RotateKeeps
<1>6. ASSUME NEW h \in Handlers, RevokeAll(h) \/ ResetPassword(h)
      PROVE  SessionInv'
  <2> DEFINE u == request[h].user
  <2>1. u \in Users /\ RequestsOnlyEnd
    BY <1>6, EndEnds DEF RevokeAll, ResetPassword, Doing, SessionInv, SessionShapeOK, InFlight, SessionRequestOK
  <2>2. /\ token' = AllRevoked(token, u) /\ UNCHANGED <<opened, late>>
        /\ DOMAIN password' = Users
        /\ \A v \in Users \ {u} : password'[v] = password[v]
    BY <1>6, <2>1 DEF RevokeAll, ResetPassword, SessionInv, SessionShapeOK
  <2>3. \A t \in Tokens : token[t] = Null => token'[t] = Null
    BY <2>2 DEF AllRevoked
  <2>4. ASSUME NEW t \in Issued
        PROVE  /\ token'[t] \in TokenRow
               /\ token'[t].user = token[t].user
               /\ Live(t)' => Live(t) /\ token[t].user # u
    BY <2>2 DEF AllRevoked, Issued, Live, TokenRow, SessionInv, SessionShapeOK
  <2>5. \A t \in Issued : token[t].user \in Users
    BY DEF SessionInv, SessionShapeOK, TokenRow
  <2>6. DOMAIN token' = Tokens
    BY <2>2 DEF AllRevoked
  <2> QED  BY <2>1, <2>2, <2>3, <2>4, <2>5, <2>6, RevokingKeeps
<1>7. ASSUME NEW h \in Handlers, Logout(h)
      PROVE  SessionInv'
  <2> DEFINE t == request[h].token
  <2>1. t \in Issued /\ RequestsOnlyEnd
    BY <1>7, EndEnds DEF Logout, Doing, SessionInv, SessionShapeOK, InFlight, SessionRequestOK
  <2>2. token' = [token EXCEPT ![t].revoked = TRUE] /\ UNCHANGED <<opened, late, password>>
    BY <1>7 DEF Logout
  <2>3. DOMAIN token' = Tokens /\ DOMAIN password' = Users /\ UNCHANGED <<opened, late>>
    BY <2>2 DEF SessionInv, SessionShapeOK
  <2>4. \A v \in Tokens : token[v] = Null => token'[v] = Null
    BY <2>1, <2>2 DEF Issued, SessionInv, SessionShapeOK
  <2>5. ASSUME NEW v \in Issued
        PROVE  /\ token'[v] \in TokenRow
               /\ token'[v].user = token[v].user
               /\ Live(v)' => Live(v) /\ password'[token[v].user] = password[token[v].user]
    <3>1. v \in Tokens /\ token[v] \in TokenRow /\ token[v] # Null /\ DOMAIN token = Tokens
      BY DEF Issued, SessionInv, SessionShapeOK
    <3>2. token'[v] = IF v = t THEN [token[v] EXCEPT !.revoked = TRUE] ELSE token[v]
      BY <2>2, <3>1
    <3>3. token'[v] \in TokenRow /\ token'[v].user = token[v].user
      BY <3>1, <3>2 DEF TokenRow
    <3>4. Live(v)' => Live(v)
      BY <3>1, <3>2 DEF Live, TokenRow
    <3> QED  BY <2>2, <3>3, <3>4
  <2> QED  BY <2>1, <2>3, <2>4, <2>5, RevokingKeeps
<1>8. ASSUME RequestsOnlyEnd, UNCHANGED <<token, opened, late, password>>
      PROVE  SessionInv'
  <2>1. DOMAIN token' = Tokens /\ DOMAIN password' = Users
    BY <1>8 DEF SessionInv, SessionShapeOK
  <2>2. /\ \A t \in Tokens : token[t] = Null => token'[t] = Null
        /\ \A t \in Issued : /\ token'[t] \in TokenRow
                             /\ token'[t].user = token[t].user
                             /\ Live(t)' => Live(t) /\ password'[token[t].user] = password[token[t].user]
    BY <1>8 DEF SessionInv, SessionShapeOK, Live
  <2> QED  BY <1>8, <2>1, <2>2, RevokingKeeps
<1>9. ASSUME NEW h \in Handlers, Abandon(h), UNCHANGED sessionVars
      PROVE  SessionInv'
  BY <1>8, <1>9, EndEnds DEF Abandon, sessionVars
<1>10. ASSUME UNCHANGED <<requestVars, token, opened, late, password>>
       PROVE  SessionInv'
  BY <1>8, <1>10 DEF RequestsOnlyEnd, requestVars, SessionInv, SessionShapeOK
<1>11. ASSUME NEW u \in Users, ForgotPassword(u) \/ \E s \in AccountStatus : UpdateStatus(u, s)
       PROVE  SessionInv'
  BY <1>10, <1>11 DEF ForgotPassword, UpdateStatus
<1>12. CASE UNCHANGED <<requestVars, sessionVars>>
  BY <1>10, <1>12 DEF sessionVars
<1> QED
  BY <1>1, <1>2, <1>3, <1>4, <1>5, <1>6, <1>7, <1>9, <1>11, <1>12 DEF SessionsNext

LEMMA SessionInvHolds == SessionsSpec => []SessionInv
BY SessionInvInit, SessionStepKeeps, PTL DEF SessionsSpec

\* A session has one live refresh token at the most as long as no token of it
\* is in two requests at once, whatever else logs in, resets or is suspended
\* (AuthService.refresh rotates the token that it looked up before).
THEOREM OneTokenLives == SessionsSpec => []OneLivePerSession
<1>1. SessionInv => OneLivePerSession
  BY DEF SessionInv
<1> QED  BY <1>1, SessionInvHolds, PTL

\* A password reset leaves no session of an earlier password, but those that a
\* request in flight renewed after it (AuthService.resetPassword).
THEOREM ResetsRevoke == SessionsSpec => []ResetsEndSessions
<1>1. SessionInv => ResetsEndSessions
  BY DEF SessionInv
<1> QED  BY <1>1, SessionInvHolds, PTL

-----------------------------------------------------------------------------
(* The default address: addresses.service.ts.                              *)

Single(c) == \A a, b \in DefaultIds(c) : a = b
Good(c) == Single(c) /\ (LiveIds(c) # {} /\ c \notin unset => DefaultIds(c) # {})

\* What a request in flight has read, and, of a customer whose requests do not
\* overlap, still holds.
AddressRead(r) ==
  /\ r.customer \in Customers /\ r.on = {r.customer}
  /\ r.op \in {"create", "insert", "update", "write", "remove", "promote"}
  /\ r.op \in {"create", "insert", "remove"} => r.default \in BOOLEAN
  /\ r.op \in {"update", "write"} => r.default \in BOOLEAN \cup {Null}
  /\ r.op \in {"update", "write", "remove", "promote"} => r.address \in Ids(r.customer)

Current(r) ==
  LET c == r.customer IN
  /\ r.op \in {"create", "insert"} /\ LiveIds(c) = {} => r.default
  /\ r.op = "insert" => r.off = IF r.default THEN DefaultIds(c) ELSE {}
  /\ r.op \in {"update", "write", "remove", "promote"} => r.address \in LiveIds(c)
  /\ r.op = "write" => r.off = IF r.default = TRUE THEN DefaultIds(c) ELSE {}
  /\ r.op = "remove" => r.default = addresses[c][r.address].default
  /\ r.op = "promote" =>
       IF addresses[c][r.address].default /\ LiveIds(c) \ {r.address} # {}
       THEN r.next \in LiveIds(c) \ {r.address} ELSE r.next = Null

AddressRequestOK(r) == AddressRead(r) /\ (r.customer \notin overlapped => Current(r))

AddressShapeOK ==
  /\ DOMAIN request = Handlers
  /\ addresses \in [Customers -> Seq(AddressRow)]
  /\ unset \subseteq Customers
  /\ \A h \in InFlight : AddressRequestOK(request[h])
  /\ \A h, g \in InFlight : h # g => request[h].on \cap request[g].on \subseteq overlapped

AddressInv == AddressShapeOK /\ \A c \in Customers \ overlapped : Good(c)

-----------------------------------------------------------------------------
(* Steps that write no address.                                             *)
LEMMA RequestsKeep ==
  ASSUME AddressInv, NEW h \in Handlers, UNCHANGED <<addresses, unset>>, DOMAIN request' = Handlers,
         \A g \in Handlers \ {h} : request'[g] = request[g],
         overlapped \subseteq overlapped',
         NEW r, r = request'[h],
         r # Null => /\ AddressRequestOK(r)
                     /\ \A g \in InFlight \ {h} : r.on \cap request[g].on \subseteq overlapped'
  PROVE  AddressInv'
<1>1. /\ \A c : Ids(c)' = Ids(c)
      /\ \A c : LiveIds(c)' = LiveIds(c) /\ DefaultIds(c)' = DefaultIds(c)
  BY DEF Ids, LiveIds, DefaultIds
<1>2. \A q : AddressRequestOK(q) => AddressRequestOK(q)'
  BY <1>1 DEF AddressRequestOK, AddressRead, Current
<1>3. \A g \in InFlight' : g = h \/ (g \in InFlight /\ request'[g] = request[g])
  BY DEF InFlight
<1>4. ASSUME NEW g \in InFlight', NEW q, q = request'[g]
      PROVE  AddressRequestOK(q)'
  <2>1. AddressRequestOK(q)
    BY <1>3, <1>4 DEF AddressInv, AddressShapeOK, InFlight
  <2> QED  BY <1>2, <2>1
<1>5. ASSUME NEW f \in InFlight', NEW g \in InFlight', f # g
      PROVE  request'[f].on \cap request'[g].on \subseteq overlapped'
  BY <1>3, <1>5 DEF AddressInv, AddressShapeOK, InFlight
<1>6. \A g \in InFlight' : AddressRequestOK(request[g])'
  BY <1>4
<1>7. AddressShapeOK'
  BY <1>5, <1>6 DEF AddressInv, AddressShapeOK
<1>8. \A c \in Customers \ overlapped' : Good(c)'
  BY <1>1 DEF AddressInv, Good, Single
<1> QED  BY <1>7, <1>8 DEF AddressInv

LEMMA BeginAddressKeeps ==
  ASSUME AddressInv, NEW h \in Handlers, NEW r, Begin(h, r), AddressRequestOK(r), UNCHANGED addressVars
  PROVE  AddressInv'
<1>1. /\ DOMAIN request' = Handlers /\ r = request'[h]
      /\ \A g \in Handlers \ {h} : request'[g] = request[g]
      /\ overlapped \subseteq overlapped'
      /\ \A g \in InFlight : r.on \cap request[g].on \subseteq overlapped'
  BY DEF Begin, AddressInv, AddressShapeOK
<1> QED  BY <1>1, RequestsKeep DEF addressVars

LEMMA GoOnKeeps ==
  ASSUME AddressInv, NEW h \in Handlers, h \in InFlight, NEW r, GoOn(h, r), UNCHANGED addressVars,
         r # Null => AddressRequestOK(r) /\ r.on = request[h].on
  PROVE  AddressInv'
<1>1. /\ DOMAIN request' = Handlers /\ r = request'[h]
      /\ \A g \in Handlers \ {h} : request'[g] = request[g]
      /\ overlapped' = overlapped
  BY DEF GoOn, AddressInv, AddressShapeOK
<1>2. r # Null => \A g \in InFlight \ {h} : r.on \cap request[g].on \subseteq overlapped'
  BY <1>1 DEF AddressInv, AddressShapeOK
<1> QED  BY <1>1, <1>2, RequestsKeep DEF addressVars

-----------------------------------------------------------------------------
(* A request that commits rows for its customer: nobody else's requests see *)
(* them but those that overlap with it.                                     *)
LEMMA CommitKeeps ==
  ASSUME AddressInv, NEW h \in Handlers, NEW r, r = request[h], r # Null, End(h),
         NEW c \in Customers, c = r.customer,
         NEW new \in Seq(AddressRow), Len(addresses[c]) <= Len(new),
         addresses' = [addresses EXCEPT ![c] = new],
         unset' \in {unset, unset \cup {c}},
         c \notin overlapped => Good(c)'
  PROVE  AddressInv'
<1>1. /\ addresses' \in [Customers -> Seq(AddressRow)]
      /\ \A d \in Customers \ {c} : addresses'[d] = addresses[d]
      /\ unset' \subseteq Customers
      /\ \A d \in Customers \ {c} : d \in unset' <=> d \in unset
  BY DEF AddressInv, AddressShapeOK
<1>2. /\ \A d \in Customers \ {c} : /\ Ids(d)' = Ids(d) /\ LiveIds(d)' = LiveIds(d)
                                    /\ DefaultIds(d)' = DefaultIds(d)
      /\ Ids(c) \subseteq Ids(c)'
  <2>1. ASSUME NEW d \in Customers \ {c}
        PROVE  Ids(d)' = Ids(d) /\ LiveIds(d)' = LiveIds(d) /\ DefaultIds(d)' = DefaultIds(d)
    BY <1>1, <2>1 DEF Ids, LiveIds, DefaultIds
  <2>2. /\ Ids(c) = 1..Len(addresses[c]) /\ Ids(c)' = 1..Len(new)
        /\ Len(addresses[c]) \in Nat /\ Len(new) \in Nat
    BY DEF AddressInv, AddressShapeOK, Ids
  <2>3. Ids(c) \subseteq Ids(c)'
    BY <2>2
  <2> QED  BY <2>1, <2>3
<1>3. /\ overlapped' = overlapped
      /\ DOMAIN request' = Handlers
      /\ \A g \in InFlight' : g # h /\ g \in InFlight /\ request'[g] = request[g]
      /\ h \in InFlight
  BY DEF End, GoOn, AddressInv, AddressShapeOK, InFlight
<1>4. ASSUME NEW g \in InFlight', NEW q, q = request'[g]
      PROVE  AddressRequestOK(q)'
  <2>1. /\ AddressRequestOK(q) /\ q.on \cap r.on \subseteq overlapped /\ r.on = {c}
    BY <1>3, <1>4 DEF AddressInv, AddressShapeOK, AddressRequestOK, AddressRead
  <2>2. AddressRead(q)'
    BY <1>2, <2>1 DEF AddressRequestOK, AddressRead
  <2>3. CASE q.customer = c
    BY <1>3, <2>1, <2>2, <2>3 DEF AddressRequestOK, AddressRead
  <2>4. CASE q.customer # c
    <3>1. q.customer \in Customers \ {c}
      BY <2>1, <2>4 DEF AddressRequestOK, AddressRead
    <3>2. Current(q) => Current(q)'
      BY <1>1, <1>2, <3>1 DEF Current
    <3> QED  BY <1>3, <2>1, <2>2, <3>2 DEF AddressRequestOK
  <2> QED  BY <2>3, <2>4
<1>5. \A g \in InFlight' : AddressRequestOK(request[g])'
  BY <1>4
<1>6. \A f, g \in InFlight' : f # g => request'[f].on \cap request'[g].on \subseteq overlapped'
  BY <1>3 DEF AddressInv, AddressShapeOK
<1>7. AddressShapeOK'
  BY <1>1, <1>3, <1>5, <1>6 DEF AddressShapeOK
<1>8. \A d \in Customers \ overlapped' : Good(d)'
  BY <1>1, <1>2, <1>3 DEF AddressInv, Good, Single
<1> QED  BY <1>7, <1>8 DEF AddressInv

-----------------------------------------------------------------------------
(* Of some positions there is a greatest.                                   *)
LEMMA GreatestOf ==
  ASSUME NEW n \in Nat, NEW S \in SUBSET (1..n), S # {}
  PROVE  (CHOOSE a \in S : \A b \in S : b <= a) \in S
<1> DEFINE N == 1..n
           Above(a) == {b \in S : b > a}
           T == {Above(a) : a \in S}
           R == StrictSubsetOrdering(N)
<1>1. IsWellFoundedOn(R, FiniteSubsetsOf(N))
  BY FS_StrictSubsetOrderingWellFounded
<1>2. T \subseteq FiniteSubsetsOf(N) /\ T # {}
  <2>1. IsFiniteSet(N)
    BY FS_Interval
  <2>2. \A a \in S : Above(a) \subseteq N
    OBVIOUS
  <2>3. \A a \in S : IsFiniteSet(Above(a))
    BY <2>1, <2>2, FS_Subset
  <2> QED  BY <2>2, <2>3 DEF FiniteSubsetsOf
<1>3. \A x, y \in SUBSET N : x \subseteq y /\ x # y => <<x, y>> \in R
  BY DEF StrictSubsetOrdering
<1> HIDE DEF R
<1>4. PICK x \in T : \A y \in T : ~ (<<y, x>> \in R)
  BY <1>1, <1>2, WFMin
<1>5. PICK a \in S : x = Above(a)
  OBVIOUS
<1>6. ASSUME NEW b \in S, b > a
      PROVE  FALSE
  <2>1. Above(b) \subseteq Above(a) /\ Above(b) # Above(a)
    <3>1. S \subseteq Int
      OBVIOUS
    <3>2. b \in Above(a) /\ b \notin Above(b)
      BY <1>6, <3>1
    <3>3. ASSUME NEW e \in S, e > b
          PROVE  e > a
      <4>1. a \in Int /\ b \in Int /\ e \in Int
        BY <3>1
      <4> QED  BY <1>6, <3>3, <4>1
    <3>4. Above(b) \subseteq Above(a)
      BY <3>3
    <3> HIDE DEF Above
    <3> QED  BY <3>2, <3>4
  <2>2. Above(b) \in T /\ Above(b) \in SUBSET N /\ Above(a) \in SUBSET N
    OBVIOUS
  <2> QED  BY <1>3, <1>4, <1>5, <2>1, <2>2
<1>7. \A b \in S : b <= a
  BY <1>6
<1> QED  BY <1>7

-----------------------------------------------------------------------------
(* The operations.                                                          *)

\* What is known of a request in flight.
LEMMA KnownAddresses ==
  ASSUME AddressInv, NEW h \in Handlers, NEW op, Doing(h, op)
  PROVE  /\ h \in InFlight /\ request[h] # Null /\ request[h].op = op
         /\ AddressRead(request[h]) /\ request[h].customer \in Customers
         /\ request[h].customer \notin overlapped => Current(request[h]) /\ Good(request[h].customer)
         /\ addresses[request[h].customer] \in Seq(AddressRow)
         /\ Ids(request[h].customer) = 1..Len(addresses[request[h].customer])
BY DEF Doing, AddressInv, AddressShapeOK, InFlight, AddressRequestOK, AddressRead, Ids

LEMMA ClearForCreateKeeps ==
  ASSUME AddressInv, NEW h \in Handlers, ClearForCreate(h)
  PROVE  AddressInv'
<1> DEFINE r == request[h]
           q == [op |-> "insert", on |-> r.on, customer |-> r.customer, default |-> r.default,
                 off |-> IF r.default THEN DefaultIds(r.customer) ELSE {}]
<1>1. /\ h \in InFlight /\ r.op = "create" /\ AddressRead(r)
      /\ r.customer \notin overlapped => Current(r)
  BY KnownAddresses DEF ClearForCreate
<1>2. GoOn(h, q) /\ UNCHANGED addressVars
  BY DEF ClearForCreate
<1>3. AddressRead(q)
  BY <1>1 DEF AddressRead
<1>4. Current(r) => Current(q)
  BY <1>1 DEF Current
<1>5. AddressRequestOK(q) /\ q.on = r.on
  BY <1>1, <1>3, <1>4 DEF AddressRequestOK
<1> HIDE DEF q
<1> QED  BY <1>1, <1>2, <1>5, GoOnKeeps

LEMMA ClearForUpdateKeeps ==
  ASSUME AddressInv, NEW h \in Handlers, ClearForUpdate(h)
  PROVE  AddressInv'
<1> DEFINE r == request[h]
           q == [op |-> "write", on |-> r.on, customer |-> r.customer, address |-> r.address,
                 default |-> r.default,
                 off |-> IF r.default = TRUE THEN DefaultIds(r.customer) ELSE {}]
<1>1. /\ h \in InFlight /\ r.op = "update" /\ AddressRead(r)
      /\ r.customer \notin overlapped => Current(r)
  BY KnownAddresses DEF ClearForUpdate
<1>2. GoOn(h, q) /\ UNCHANGED addressVars
  BY DEF ClearForUpdate
<1>3. AddressRead(q)
  BY <1>1 DEF AddressRead
<1>4. Current(r) => Current(q)
  BY <1>1 DEF Current
<1>5. AddressRequestOK(q) /\ q.on = r.on
  BY <1>1, <1>3, <1>4 DEF AddressRequestOK
<1> HIDE DEF q
<1> QED  BY <1>1, <1>2, <1>5, GoOnKeeps

LEMMA ChooseNextKeeps ==
  ASSUME AddressInv, NEW h \in Handlers, ChooseNext(h)
  PROVE  AddressInv'
<1> DEFINE r == request[h]
           c == r.customer
           left == LiveIds(c) \ {r.address}
           next == IF r.default /\ left # {} THEN CHOOSE a \in left : \A b \in left : b <= a ELSE Null
           q == [op |-> "promote", on |-> r.on, customer |-> c, address |-> r.address, next |-> next]
<1>1. /\ h \in InFlight /\ r.op = "remove" /\ AddressRead(r)
      /\ c \notin overlapped => Current(r)
      /\ Ids(c) = 1..Len(addresses[c]) /\ Len(addresses[c]) \in Nat
  BY KnownAddresses DEF ChooseNext
<1>2. GoOn(h, q) /\ UNCHANGED addressVars
  BY DEF ChooseNext
<1>3. AddressRead(q)
  BY <1>1 DEF AddressRead
<1>4. left \subseteq 1..Len(addresses[c])
  BY <1>1 DEF LiveIds
<1> HIDE DEF left
<1>5. left # {} => (CHOOSE a \in left : \A b \in left : b <= a) \in left
  BY <1>1, <1>4, GreatestOf
<1>6. IF r.default /\ left # {} THEN next \in left ELSE next = Null
  BY <1>5
<1> HIDE DEF next
<1>7. Current(r) => Current(q)
  BY <1>1, <1>6 DEF Current, left
<1>8. AddressRequestOK(q) /\ q.on = r.on
  BY <1>1, <1>3, <1>7 DEF AddressRequestOK
<1> HIDE DEF q
<1> QED  BY <1>1, <1>2, <1>8, GoOnKeeps

\* The rows of c after a commit, and which of them are live or the default.
LiveOf(rows) == {a \in DOMAIN rows : ~rows[a].deleted}
DefaultsOf(rows) == {a \in LiveOf(rows) : rows[a].default}

LEMMA AfterCommit ==
  ASSUME AddressInv, NEW c \in Customers, NEW new, addresses' = [addresses EXCEPT ![c] = new]
  PROVE  /\ LiveIds(c) = LiveOf(addresses[c]) /\ DefaultIds(c) = DefaultsOf(addresses[c])
         /\ LiveIds(c)' = LiveOf(new) /\ DefaultIds(c)' = DefaultsOf(new)
BY DEF AddressInv, AddressShapeOK, LiveIds, DefaultIds, Ids, LiveOf, DefaultsOf

\* The row of one more address, or the rows with one rewritten.
LEMMA InsertKeeps ==
  ASSUME AddressInv, NEW h \in Handlers, Insert(h)
  PROVE  AddressInv'
<1> SUFFICES ASSUME NEW c, c = request[h].customer
             PROVE  AddressInv'
  OBVIOUS
<1> DEFINE r == request[h]
           old == addresses[c]
           n == Len(old)
           row == [default |-> r.default, deleted |-> FALSE]
           new == Append(Cleared(c, r.off), row)
<1>1. /\ r # Null /\ r.op = "insert" /\ AddressRead(r) /\ c \in Customers
      /\ c \notin overlapped => Current(r) /\ Good(c)
      /\ old \in Seq(AddressRow) /\ Ids(c) = 1..n /\ n \in Nat /\ old \in [1..n -> AddressRow]
  BY KnownAddresses DEF Insert
<1>2. addresses' = [addresses EXCEPT ![c] = new] /\ unset' = unset /\ End(h)
  BY DEF Insert
<1>3. row \in AddressRow /\ (row.default <=> r.default) /\ ~row.deleted
  BY <1>1 DEF AddressRow, AddressRead
<1>4. /\ Cleared(c, r.off) \in [1..n -> AddressRow]
      /\ \A a \in 1..n : /\ Cleared(c, r.off)[a].deleted <=> old[a].deleted
                         /\ Cleared(c, r.off)[a].default <=> a \notin r.off /\ old[a].default
  BY <1>1 DEF Cleared, AddressRow
<1> HIDE DEF row
<1>5. /\ new \in Seq(AddressRow) /\ Len(new) = n + 1 /\ new[n + 1] = row
      /\ \A a \in 1..n : /\ new[a].deleted <=> old[a].deleted
                         /\ new[a].default <=> a \notin r.off /\ old[a].default
  <2>1. Cleared(c, r.off) \in Seq(AddressRow) /\ Len(Cleared(c, r.off)) = n
    BY <1>1, <1>4
  <2>2. \A a \in 1..n : new[a] = Cleared(c, r.off)[a]
    BY <1>1, <2>1
  <2> QED  BY <1>1, <1>3, <1>4, <2>1, <2>2
<1> HIDE DEF new
<1>6. /\ LiveOf(new) = LiveOf(old) \cup {n + 1}
      /\ DefaultsOf(new) = (DefaultsOf(old) \ r.off) \cup (IF r.default THEN {n + 1} ELSE {})
  <2>1. DOMAIN new = 1..(n + 1)
    BY <1>5
  <2>2. DOMAIN old = 1..n /\ 1..(n + 1) = (1..n) \cup {n + 1} /\ n + 1 \notin 1..n
    BY <1>1
  <2>3. LiveOf(new) = LiveOf(old) \cup {n + 1}
    BY <1>3, <1>5, <2>1, <2>2 DEF LiveOf
  <2>4. n + 1 \notin LiveOf(old) /\ DefaultsOf(old) \subseteq LiveOf(old)
    BY <2>2 DEF LiveOf, DefaultsOf
  <2>5. ASSUME NEW a \in LiveOf(old)
        PROVE  a \in DefaultsOf(new) <=> a \in DefaultsOf(old) \ r.off
    <3>1. a \in 1..n
      BY <2>2 DEF LiveOf
    <3> QED  BY <1>5, <2>3, <3>1 DEF DefaultsOf
  <2>6. n + 1 \in DefaultsOf(new) <=> r.default
    BY <1>3, <1>5, <2>3 DEF DefaultsOf
  <2>7. DefaultsOf(new) \subseteq LiveOf(old) \cup {n + 1}
    BY <2>3 DEF DefaultsOf
  <2> QED  BY <2>3, <2>4, <2>5, <2>6, <2>7
<1>7. /\ LiveIds(c) = LiveOf(old) /\ DefaultIds(c) = DefaultsOf(old)
      /\ LiveIds(c)' = LiveOf(new) /\ DefaultIds(c)' = DefaultsOf(new)
  BY <1>1, <1>2, AfterCommit
<1>8. ASSUME c \notin overlapped
      PROVE  Good(c)'
  <2>1. /\ LiveIds(c) = {} => r.default
        /\ r.off = IF r.default THEN DefaultIds(c) ELSE {}
    BY <1>1, <1>8 DEF Current
  <2>2. DefaultIds(c)' = IF r.default THEN {n + 1} ELSE DefaultIds(c)
    BY <1>6, <1>7, <2>1
  <2> QED  BY <1>1, <1>2, <1>8, <2>1, <2>2 DEF Good, Single
<1>9. Len(addresses[c]) <= Len(new)
  BY <1>1, <1>5
<1>10. r = request[h] /\ c = r.customer /\ unset' \in {unset, unset \cup {c}}
  BY <1>2
<1> HIDE DEF r
<1> QED  BY <1>1, <1>2, <1>5, <1>8, <1>9, <1>10, CommitKeeps

LEMMA WriteAddressKeeps ==
  ASSUME AddressInv, NEW h \in Handlers, WriteAddress(h)
  PROVE  AddressInv'
<1> SUFFICES ASSUME NEW c, c = request[h].customer
             PROVE  AddressInv'
  OBVIOUS
<1> DEFINE r == request[h]
           a == r.address
           old == addresses[c]
           n == Len(old)
           rows == Cleared(c, r.off)
           new == IF r.default = Null THEN rows ELSE [rows EXCEPT ![a].default = r.default]
<1>1. /\ r # Null /\ r.op = "write" /\ AddressRead(r) /\ c \in Customers
      /\ c \notin overlapped => Current(r) /\ Good(c)
      /\ Ids(c) = 1..n /\ n \in Nat /\ old \in [1..n -> AddressRow]
      /\ a \in 1..n /\ r.default \in BOOLEAN \cup {Null}
  BY KnownAddresses DEF WriteAddress, AddressRead
<1>2. /\ addresses' = [addresses EXCEPT ![c] = new] /\ End(h)
      /\ unset' = IF r.default = FALSE THEN unset \cup {c} ELSE unset
  BY DEF WriteAddress
<1>3. /\ rows \in [1..n -> AddressRow]
      /\ \A x \in 1..n : /\ rows[x].deleted <=> old[x].deleted
                         /\ rows[x].default <=> x \notin r.off /\ old[x].default
  BY <1>1 DEF Cleared, AddressRow
<1> HIDE DEF rows
<1>4. /\ new \in [1..n -> AddressRow]
      /\ \A x \in 1..n : /\ new[x].deleted <=> rows[x].deleted
                         /\ x # a => (new[x].default <=> rows[x].default)
      /\ r.default = Null => new = rows
      /\ r.default # Null => new[a].default = r.default
  BY <1>1, <1>3 DEF AddressRow
<1> HIDE DEF new, old, n
<1>5. /\ LiveOf(new) = LiveOf(old)
      /\ \A x \in LiveOf(old) \ {a} : x \in DefaultsOf(new) <=> x \in DefaultsOf(old) \ r.off
      /\ a \in LiveOf(old) =>
           (a \in DefaultsOf(new) <=> IF r.default = Null THEN a \in DefaultsOf(old) \ r.off
                                      ELSE r.default)
      /\ DefaultsOf(new) \subseteq LiveOf(old) /\ DefaultsOf(old) \subseteq LiveOf(old)
  <2>1. DOMAIN new = 1..n /\ DOMAIN old = 1..n
    BY <1>1, <1>4
  <2>2. LiveOf(new) = LiveOf(old)
    BY <1>3, <1>4, <2>1 DEF LiveOf
  <2>3. LiveOf(old) \subseteq 1..n
    BY <2>1 DEF LiveOf
  <2> QED  BY <1>1, <1>3, <1>4, <2>2, <2>3 DEF DefaultsOf
<1>6. /\ LiveIds(c) = LiveOf(old) /\ DefaultIds(c) = DefaultsOf(old)
      /\ LiveIds(c)' = LiveOf(new) /\ DefaultIds(c)' = DefaultsOf(new)
  BY <1>1, <1>2, AfterCommit DEF old
<1>7. ASSUME c \notin overlapped
      PROVE  Good(c)'
  <2>1. a \in LiveOf(old) /\ r.off = IF r.default = TRUE THEN DefaultsOf(old) ELSE {}
    BY <1>1, <1>6, <1>7 DEF Current
  <2>2. CASE r.default = TRUE
    <3>1. DefaultsOf(new) = {a}
      BY <1>5, <2>1, <2>2, AddressAssumption
    <3> QED  BY <1>6, <3>1 DEF Good, Single
  <2>3. CASE r.default = Null
    <3>1. r.off = {} /\ unset' = unset
      BY <1>2, <2>1, <2>3, AddressAssumption
    <3>2. \A x \in LiveOf(old) : x \in DefaultsOf(new) <=> x \in DefaultsOf(old)
      BY <1>5, <2>3, <3>1
    <3>3. DefaultsOf(new) = DefaultsOf(old) /\ unset' = unset
      BY <1>5, <3>1, <3>2
    <3> QED  BY <1>1, <1>5, <1>6, <1>7, <3>3 DEF Good, Single
  <2>4. CASE r.default = FALSE
    <3>1. DefaultsOf(new) \subseteq DefaultsOf(old) /\ c \in unset'
      BY <1>2, <1>5, <2>1, <2>4, AddressAssumption
    <3> QED  BY <1>1, <1>5, <1>6, <1>7, <3>1 DEF Good, Single
  <2> QED  BY <1>1, <2>2, <2>3, <2>4
<1>8. new \in Seq(AddressRow) /\ Len(addresses[c]) <= Len(new) /\ unset' \in {unset, unset \cup {c}}
  BY <1>1, <1>2, <1>4 DEF n, old
<1>9. r = request[h] /\ c = r.customer
  OBVIOUS
<1> HIDE DEF r
<1> QED  BY <1>1, <1>2, <1>7, <1>8, <1>9, CommitKeeps

LEMMA RemoveAddressKeeps ==
  ASSUME AddressInv, NEW h \in Handlers, RemoveAddress(h)
  PROVE  AddressInv'
<1> SUFFICES ASSUME NEW c, c = request[h].customer
             PROVE  AddressInv'
  OBVIOUS
<1> DEFINE r == request[h]
           a == r.address
           old == addresses[c]
           n == Len(old)
           new == [x \in Ids(c) |-> IF x = a THEN [default |-> FALSE, deleted |-> TRUE]
                                    ELSE IF x = r.next THEN [old[x] EXCEPT !.default = TRUE]
                                    ELSE old[x]]
<1>1. /\ r # Null /\ r.op = "promote" /\ AddressRead(r) /\ c \in Customers
      /\ c \notin overlapped => Current(r) /\ Good(c)
      /\ Ids(c) = 1..n /\ n \in Nat /\ old \in [1..n -> AddressRow] /\ a \in 1..n
  BY KnownAddresses DEF RemoveAddress, AddressRead
<1>2. addresses' = [addresses EXCEPT ![c] = new] /\ End(h) /\ unset' = unset
  BY DEF RemoveAddress
<1>3. /\ new \in [1..n -> AddressRow]
      /\ new[a].deleted
      /\ \A x \in 1..n : x # a =>
           /\ new[x].deleted <=> old[x].deleted
           /\ new[x].default <=> old[x].default \/ x = r.next
  BY <1>1 DEF AddressRow
<1> HIDE DEF new, old, n
<1>4. /\ LiveOf(new) = LiveOf(old) \ {a}
      /\ \A x \in LiveOf(new) : x \in DefaultsOf(new) <=> x \in DefaultsOf(old) \/ x = r.next
      /\ DefaultsOf(new) \subseteq LiveOf(new) /\ DefaultsOf(old) \subseteq LiveOf(old)
  <2>1. DOMAIN new = 1..n /\ DOMAIN old = 1..n
    BY <1>1, <1>3
  <2>2. LiveOf(new) = LiveOf(old) \ {a}
    BY <1>3, <2>1 DEF LiveOf
  <2>3. LiveOf(old) \subseteq 1..n
    BY <2>1 DEF LiveOf
  <2> QED  BY <1>1, <1>3, <2>2, <2>3 DEF DefaultsOf
<1>5. /\ LiveIds(c) = LiveOf(old) /\ DefaultIds(c) = DefaultsOf(old)
      /\ LiveIds(c)' = LiveOf(new) /\ DefaultIds(c)' = DefaultsOf(new)
  BY <1>1, <1>2, AfterCommit DEF old
<1>6. ASSUME c \notin overlapped
      PROVE  Good(c)'
  <2>1. /\ a \in LiveOf(old)
        /\ IF old[a].default /\ LiveOf(old) \ {a} # {}
           THEN r.next \in LiveOf(old) \ {a} ELSE r.next = Null
    BY <1>1, <1>5, <1>6 DEF Current, old
  <2>2. LiveOf(old) \subseteq Nat
    BY <1>1 DEF LiveOf
  <2>3. CASE old[a].default
    <3>1. DefaultsOf(old) = {a}
      BY <1>1, <1>5, <1>6, <2>1, <2>3 DEF Good, Single, DefaultsOf
    <3>2. DefaultsOf(new) \subseteq {r.next} /\ (LiveOf(new) # {} => r.next \in DefaultsOf(new))
      BY <1>4, <2>1, <2>3, <3>1
    <3> QED  BY <1>5, <3>2 DEF Good, Single
  <2>4. CASE ~old[a].default
    <3>1. a \notin DefaultsOf(old) /\ r.next \notin LiveOf(old)
      BY <2>1, <2>2, <2>4, AddressAssumption DEF DefaultsOf
    <3>2. DefaultsOf(new) = DefaultsOf(old)
      BY <1>4, <3>1
    <3> QED  BY <1>1, <1>2, <1>4, <1>5, <1>6, <3>2 DEF Good, Single
  <2> QED  BY <2>3, <2>4
<1>7. new \in Seq(AddressRow) /\ Len(addresses[c]) <= Len(new) /\ unset' \in {unset, unset \cup {c}}
  BY <1>1, <1>2, <1>3 DEF n, old
<1>8. r = request[h] /\ c = r.customer
  OBVIOUS
<1> HIDE DEF r
<1> QED  BY <1>1, <1>2, <1>6, <1>7, <1>8, CommitKeeps

-----------------------------------------------------------------------------
LEMMA AddressStepKeeps == AddressInv /\ [AddressesNext]_<<requestVars, addressVars>> => AddressInv'
<1> SUFFICES ASSUME AddressInv, [AddressesNext]_<<requestVars, addressVars>> PROVE AddressInv'
  OBVIOUS
<1>1. CASE UNCHANGED <<requestVars, addressVars>>
  <2>1. UNCHANGED <<request, overlapped, addresses, unset>>
    BY <1>1 DEF requestVars, addressVars
  <2>2. /\ \A c : Ids(c)' = Ids(c)
        /\ \A c : LiveIds(c)' = LiveIds(c) /\ DefaultIds(c)' = DefaultIds(c)
    BY <2>1 DEF Ids, LiveIds, DefaultIds
  <2>3. \A q : AddressRequestOK(q)' <=> AddressRequestOK(q)
    BY <2>1, <2>2 DEF AddressRequestOK, AddressRead, Current
  <2>4. \A c : Good(c)' <=> Good(c)
    BY <2>1, <2>2 DEF Good, Single
  <2> QED  BY <2>1, <2>3, <2>4 DEF AddressInv, AddressShapeOK, InFlight
<1>2. ASSUME NEW h \in Handlers, NEW c \in Customers, NEW asked \in BOOLEAN, BeginCreate(h, c, asked)
      PROVE  AddressInv'
  <2> DEFINE r == [op |-> "create", on |-> {c}, customer |-> c, default |-> asked \/ LiveIds(c) = {}]
  <2>1. Begin(h, r) /\ UNCHANGED addressVars
    BY <1>2 DEF BeginCreate
  <2>2. AddressRead(r) /\ Current(r)
    BY DEF AddressRead, Current
  <2>3. AddressRequestOK(r)
    BY <2>2 DEF AddressRequestOK
  <2> HIDE DEF r
  <2> QED  BY <2>1, <2>3, BeginAddressKeeps
<1>3. ASSUME NEW h \in Handlers, NEW c \in Customers, NEW a \in Ids(c),
             NEW default \in BOOLEAN \cup {Null}, BeginUpdateAddress(h, c, a, default)
      PROVE  AddressInv'
  <2> DEFINE r == [op |-> "update", on |-> {c}, customer |-> c, address |-> a, default |-> default]
  <2>1. Begin(h, r) /\ UNCHANGED addressVars /\ a \in LiveIds(c)
    BY <1>3 DEF BeginUpdateAddress
  <2>2. AddressRead(r) /\ Current(r)
    BY <2>1 DEF AddressRead, Current
  <2>3. AddressRequestOK(r)
    BY <2>2 DEF AddressRequestOK
  <2> HIDE DEF r
  <2> QED  BY <2>1, <2>3, BeginAddressKeeps
<1>4. ASSUME NEW h \in Handlers, NEW c \in Customers, NEW a \in Ids(c), BeginRemoveAddress(h, c, a)
      PROVE  AddressInv'
  <2> DEFINE r == [op |-> "remove", on |-> {c}, customer |-> c, address |-> a,
                   default |-> addresses[c][a].default]
  <2>1. Begin(h, r) /\ UNCHANGED addressVars /\ a \in LiveIds(c)
    BY <1>4 DEF BeginRemoveAddress
  <2>2. addresses[c][a] \in AddressRow
    BY DEF AddressInv, AddressShapeOK, Ids
  <2>3. AddressRead(r) /\ Current(r)
    BY <2>1, <2>2 DEF AddressRead, Current, AddressRow
  <2>4. AddressRequestOK(r)
    BY <2>3 DEF AddressRequestOK
  <2> HIDE DEF r
  <2> QED  BY <2>1, <2>4, BeginAddressKeeps
<1>5. ASSUME NEW h \in Handlers, ClearForCreate(h) \/ ClearForUpdate(h) \/ ChooseNext(h)
      PROVE  AddressInv'
  BY <1>5, ClearForCreateKeeps, ClearForUpdateKeeps, ChooseNextKeeps
<1>6. ASSUME NEW h \in Handlers, Insert(h) \/ WriteAddress(h) \/ RemoveAddress(h)
      PROVE  AddressInv'
  BY <1>6, InsertKeeps, WriteAddressKeeps, RemoveAddressKeeps
<1>7. ASSUME NEW h \in Handlers, Abandon(h), UNCHANGED addressVars PROVE AddressInv'
  BY <1>7, GoOnKeeps DEF Abandon, End, InFlight
<1> QED  BY <1>1, <1>2, <1>3, <1>4, <1>5, <1>6, <1>7 DEF AddressesNext

\* A customer whose requests do not overlap and who never took the default off
\* has exactly one default address as long as there is an address: each
\* transaction clears the defaults it has seen and writes its own.
THEOREM DefaultKept == AddressesSpec => []OneDefault
<1>1. AddressesInit /\ RequestsInit => AddressInv
  BY DEF AddressesInit, RequestsInit, AddressInv, AddressShapeOK, Good, Single, LiveIds, DefaultIds, Ids, InFlight
<1>2. AddressInv => OneDefault
  <2> SUFFICES ASSUME AddressInv, NEW c \in Customers \ overlapped
               PROVE  /\ Cardinality(DefaultIds(c)) <= 1
                      /\ LiveIds(c) # {} /\ c \notin unset => HasDefault(c)
    BY DEF OneDefault
  <2>1. Good(c)
    BY DEF AddressInv
  <2>2. CASE DefaultIds(c) = {}
    BY <2>1, <2>2, FS_EmptySet DEF Good, HasDefault
  <2>3. CASE DefaultIds(c) # {}
    <3>1. PICK a : DefaultIds(c) = {a}
      BY <2>1, <2>3 DEF Good, Single
    <3>2. Cardinality(DefaultIds(c)) = 1
      BY <3>1, FS_Singleton
    <3> QED  BY <2>3, <3>2 DEF HasDefault
  <2> QED  BY <2>2, <2>3
<1> QED  BY <1>1, <1>2, AddressStepKeeps, PTL DEF AddressesSpec

-----------------------------------------------------------------------------
(* Profiles: auth.service.ts, users.service.ts.                            *)

Uploading(r) == r.op \in {"avatarSaved", "avatarRead", "avatarCleared"}
HasRead(r) == r.op \in {"avatarRead", "avatarCleared"}

\* What a request works on, and what it has read of an account that no other
\* request works on.
ProfileRequestOK(r) ==
  /\ r.op \in {"register", "googleNew", "googleLink", "updateMe"} => r.email \in Emails \cup {Null}
  /\ r.op \in {"googleNew", "googleLink"} => r.sub \in Subs
  /\ r.op \in {"googleLink", "updateMe"} \/ Uploading(r) => r.user \in Known /\ r.on = {r.user}
  /\ r.op = "googleLink" =>
       /\ r.seen \in AccountRow
       /\ r.user \notin overlapped => r.seen.email = account[r.user].email
  /\ Uploading(r) => r.file \in Files
  /\ HasRead(r) => r = [op |-> r.op, on |-> {r.user}, user |-> r.user, file |-> r.file,
                        previous |-> r.previous]
  /\ HasRead(r) => r.previous \in Files \cup {Null}

ProfileInv ==
  /\ DOMAIN request = Handlers
  /\ account \in [AccountIds -> AccountRow \cup {Null}]
  /\ DOMAIN changedTo = AccountIds
  /\ \A h \in InFlight : ProfileRequestOK(request[h])
  /\ \A h, g \in InFlight : h # g => request[h].on \cap request[g].on \subseteq overlapped
  /\ ProfileKept

LEMMA BeginProfileKeeps ==
  ASSUME ProfileInv, NEW h \in Handlers, NEW r, Begin(h, r), UNCHANGED <<account, changedTo>>,
         ProfileRequestOK(r)
  PROVE  ProfileInv'
<1>1. /\ h \notin InFlight /\ request'[h] = r /\ DOMAIN request' = Handlers
      /\ \A g \in Handlers \ {h} : request'[g] = request[g]
      /\ overlapped \subseteq overlapped'
      /\ \A g \in InFlight : r.on \cap request[g].on \subseteq overlapped'
  BY DEF Begin, InFlight, ProfileInv
<1>2. /\ \A g \in InFlight' \ {h} : g \in InFlight /\ request'[g] = request[g]
      /\ Known' = Known
  BY <1>1 DEF InFlight, Known
<1>3. \A q : ProfileRequestOK(q) => ProfileRequestOK(q)'
  BY <1>1, <1>2 DEF ProfileRequestOK, Uploading, HasRead
<1>4. (\A g \in InFlight : ProfileRequestOK(request[g]))'
  BY <1>1, <1>2, <1>3 DEF ProfileInv
<1>5. \A f, g \in InFlight' : f # g => request'[f].on \cap request'[g].on \subseteq overlapped'
  BY <1>1, <1>2 DEF ProfileInv
<1>6. ProfileKept'
  <2>1. ProfileKept
    BY DEF ProfileInv
  <2> QED  BY <1>1, <1>2, <2>1 DEF ProfileKept
<1> QED  BY <1>1, <1>4, <1>5, <1>6 DEF ProfileInv

\* A request goes on or ends, and no account changes but for an avatar.
LEMMA GoOnProfileKeeps ==
  ASSUME ProfileInv, NEW h \in InFlight, NEW r, GoOn(h, r), changedTo' = changedTo,
         r = Null \/ (ProfileRequestOK(r) /\ r.on = request[h].on),
         account' \in [AccountIds -> AccountRow \cup {Null}], Known' = Known,
         \A u \in Known : account'[u].email = account[u].email
  PROVE  ProfileInv'
<1>1. /\ request'[h] = r /\ DOMAIN request' = Handlers /\ overlapped' = overlapped
      /\ \A g \in Handlers \ {h} : request'[g] = request[g]
  BY DEF GoOn, InFlight, ProfileInv
<1>2. \A g \in InFlight' \ {h} : g \in InFlight /\ request'[g] = request[g]
  BY <1>1 DEF InFlight
<1>3. \A q : ProfileRequestOK(q) => ProfileRequestOK(q)'
  BY <1>1 DEF ProfileRequestOK, Uploading, HasRead
<1>4. (\A g \in InFlight : ProfileRequestOK(request[g]))'
  BY <1>1, <1>2, <1>3 DEF ProfileInv, InFlight
<1>5. \A f, g \in InFlight' : f # g => request'[f].on \cap request'[g].on \subseteq overlapped'
  BY <1>1, <1>2 DEF ProfileInv, InFlight
<1>6. ProfileKept'
  <2>1. ProfileKept
    BY DEF ProfileInv
  <2> QED  BY <1>1, <2>1 DEF ProfileKept
<1> QED  BY <1>1, <1>4, <1>5, <1>6 DEF ProfileInv

\* A request writes the e-mail of an account it works on, or of a new one.
LEMMA WriteEmailKeeps ==
  ASSUME ProfileInv, NEW h \in InFlight, End(h), NEW u \in AccountIds, NEW row \in AccountRow,
         NEW e, account[u] = Null \/ u \in request[h].on,
         account' = [account EXCEPT ![u] = row], changedTo' = [changedTo EXCEPT ![u] = e],
         row.email = e \/ u \in overlapped
  PROVE  ProfileInv'
<1>1. /\ request'[h] = Null /\ DOMAIN request' = Handlers /\ overlapped' = overlapped
      /\ \A g \in Handlers \ {h} : request'[g] = request[g]
  BY DEF End, GoOn, InFlight, ProfileInv
<1>2. \A g \in InFlight' : g # h /\ g \in InFlight /\ request'[g] = request[g]
  BY <1>1 DEF InFlight
<1>3. /\ account' \in [AccountIds -> AccountRow \cup {Null}] /\ DOMAIN changedTo' = AccountIds
      /\ account'[u] = row /\ changedTo'[u] = e
      /\ \A v \in AccountIds \ {u} : account'[v] = account[v] /\ changedTo'[v] = changedTo[v]
  BY DEF ProfileInv
<1>4. Known' = Known \cup {u}
  BY <1>3, AccountAssumption DEF Known
<1>5. (\A g \in InFlight : ProfileRequestOK(request[g]))'
  <2> SUFFICES ASSUME NEW g \in InFlight', NEW q, q = request[g]
               PROVE  ProfileRequestOK(q)'
    BY <1>2
  <2>1. ProfileRequestOK(q) /\ g \in InFlight /\ g # h
    BY <1>2 DEF ProfileInv
  <2>2. q.op = "googleLink" /\ q.user \notin overlapped => q.user # u
    BY <2>1 DEF ProfileRequestOK, ProfileInv, Known
  <2>3. q.op = "googleLink" /\ q.user \notin overlapped => account'[q.user] = account[q.user]
    BY <1>3, <2>1, <2>2 DEF ProfileRequestOK, Known
  <2> QED  BY <1>1, <1>4, <2>1, <2>3 DEF ProfileRequestOK, Uploading, HasRead
<1>6. \A f, g \in InFlight' : f # g => request'[f].on \cap request'[g].on \subseteq overlapped'
  BY <1>1, <1>2 DEF ProfileInv
<1>7. ProfileKept'
  <2>1. ProfileKept
    BY DEF ProfileInv
  <2>2. \A v \in Known' : v = u \/ (v \in Known /\ v \in AccountIds \ {u})
    BY <1>4 DEF Known
  <2> QED  BY <1>1, <1>3, <2>1, <2>2 DEF ProfileKept
<1> QED  BY <1>1, <1>3, <1>5, <1>6, <1>7 DEF ProfileInv

LEMMA NewAccountKeeps ==
  ASSUME ProfileInv, NEW h \in Handlers, NEW u \in AccountIds, Register(h, u) \/ GoogleNew(h, u)
  PROVE  ProfileInv'
<1> DEFINE r == request[h]
           s == IF r.op = "register" THEN Null ELSE r.sub
           row == NewAccount(r.email, s)
<1>1. h \in InFlight /\ r.op \in {"register", "googleNew"} /\ ProfileRequestOK(r)
  BY DEF Register, GoogleNew, Doing, InFlight, ProfileInv
<1>2. row \in AccountRow /\ row.email = r.email
  BY <1>1 DEF ProfileRequestOK, AccountRow, NewAccount
<1>3. /\ account[u] = Null /\ account' = [account EXCEPT ![u] = row]
      /\ changedTo' = [changedTo EXCEPT ![u] = r.email] /\ End(h)
  BY <1>1 DEF Register, GoogleNew, Doing, WriteAccount
<1> HIDE DEF row
<1> QED  BY <1>1, <1>2, <1>3, WriteEmailKeeps

LEMMA GoogleLinkKeeps ==
  ASSUME ProfileInv, NEW h \in Handlers, GoogleLink(h)
  PROVE  ProfileInv'
<1> DEFINE r == request[h]
           u == r.user
           filled(seen, new) == IF seen = Null THEN new ELSE seen
           row == [account[u] EXCEPT !.sub = filled(r.seen.sub, r.sub),
                                     !.email = filled(r.seen.email, r.email)]
           e == filled(changedTo[u], r.email)
<1>1. h \in InFlight /\ r.op = "googleLink" /\ ProfileRequestOK(r)
  BY DEF GoogleLink, Doing, InFlight, ProfileInv
<1>2. /\ u \in Known /\ u \in AccountIds /\ r.on = {u} /\ account[u] \in AccountRow
      /\ r.seen \in AccountRow /\ r.sub \in Subs /\ r.email \in Emails \cup {Null}
      /\ u \notin overlapped => r.seen.email = account[u].email
  BY <1>1 DEF ProfileRequestOK, Known, ProfileInv
<1>3. row \in AccountRow /\ row.email = filled(r.seen.email, r.email)
  BY <1>2 DEF AccountRow
<1>4. row.email = e \/ u \in overlapped
  BY <1>2, <1>3 DEF ProfileInv, ProfileKept
<1>5. /\ account' = [account EXCEPT ![u] = row] /\ changedTo' = [changedTo EXCEPT ![u] = e]
      /\ End(h)
  BY DEF GoogleLink, WriteAccount
<1> HIDE DEF row, e, u
<1> QED  BY <1>1, <1>2, <1>3, <1>4, <1>5, WriteEmailKeeps

LEMMA UpdateMeKeeps ==
  ASSUME ProfileInv, NEW h \in Handlers, UpdateMe(h)
  PROVE  ProfileInv'
<1> DEFINE r == request[h]
           u == r.user
           row == [account[u] EXCEPT !.email = r.email]
<1>1. h \in InFlight /\ r.op = "updateMe" /\ ProfileRequestOK(r)
  BY DEF UpdateMe, Doing, InFlight, ProfileInv
<1>2. /\ u \in AccountIds /\ r.on = {u} /\ account[u] \in AccountRow
      /\ r.email \in Emails \cup {Null}
  BY <1>1 DEF ProfileRequestOK, Known, ProfileInv
<1>3. row \in AccountRow /\ row.email = r.email
  BY <1>2 DEF AccountRow
<1>4. /\ account' = [account EXCEPT ![u] = row] /\ changedTo' = [changedTo EXCEPT ![u] = r.email]
      /\ End(h)
  BY DEF UpdateMe, WriteAccount
<1> HIDE DEF row, u
<1> QED  BY <1>1, <1>2, <1>3, <1>4, WriteEmailKeeps

\* Reading the avatar, deleting its file and writing the row.
LEMMA AvatarStepKeepsProfile ==
  ASSUME ProfileInv, NEW h \in Handlers, ReadPrevious(h) \/ DeletePrevious(h) \/ WriteAvatar(h)
  PROVE  ProfileInv'
<1> DEFINE r == request[h]
           u == r.user
<1>1. /\ h \in InFlight /\ Uploading(r) /\ ProfileRequestOK(r)
      /\ DeletePrevious(h) => r.op = "avatarRead"
  BY DEF ReadPrevious, DeletePrevious, WriteAvatar, Doing, InFlight, ProfileInv, Uploading
<1>2. u \in Known /\ u \in AccountIds /\ r.on = {u} /\ r.file \in Files /\ account[u] \in AccountRow
  BY <1>1 DEF ProfileRequestOK, Known, ProfileInv
<1>3. CASE ReadPrevious(h)
  <2> DEFINE q == [op |-> "avatarRead", on |-> r.on, user |-> u, file |-> r.file,
                   previous |-> account[u].avatar]
  <2>1. GoOn(h, q) /\ UNCHANGED <<account, changedTo>>
    BY <1>3 DEF ReadPrevious, accountVars
  <2>2. ProfileRequestOK(q) /\ q.on = r.on
    BY <1>2 DEF ProfileRequestOK, Uploading, HasRead, AccountRow
  <2> HIDE DEF q
  <2> QED  BY <1>1, <2>1, <2>2, GoOnProfileKeeps DEF Known, ProfileInv
<1>4. CASE DeletePrevious(h)
  <2> DEFINE q == [op |-> "avatarCleared", on |-> {u}, user |-> u, file |-> r.file,
                   previous |-> r.previous]
  <2>1. r = [op |-> "avatarRead", on |-> {u}, user |-> u, file |-> r.file, previous |-> r.previous]
    BY <1>1, <1>4 DEF ProfileRequestOK, HasRead
  <2>2. [r EXCEPT !.op = "avatarCleared"] = q
    BY <2>1
  <2>3. GoOn(h, q) /\ UNCHANGED <<account, changedTo>>
    BY <1>4, <2>2 DEF DeletePrevious
  <2>4. ProfileRequestOK(q) /\ q.on = r.on
    BY <1>1, <1>2, <1>4 DEF ProfileRequestOK, Uploading, HasRead
  <2> HIDE DEF q
  <2> QED  BY <1>1, <2>3, <2>4, GoOnProfileKeeps DEF Known, ProfileInv
<1>5. CASE WriteAvatar(h)
  <2> DEFINE row == [account[u] EXCEPT !.avatar = r.file]
  <2>1. account' = [account EXCEPT ![u] = row] /\ changedTo' = changedTo /\ GoOn(h, Null)
    BY <1>5 DEF WriteAvatar, End
  <2>2. row \in AccountRow /\ row.email = account[u].email
    BY <1>2 DEF AccountRow
  <2> HIDE DEF row
  <2>3. account' \in [AccountIds -> AccountRow \cup {Null}]
    BY <2>1, <2>2 DEF ProfileInv
  <2>4. Known' = Known /\ \A v \in Known : account'[v].email = account[v].email
    BY <1>2, <2>1, <2>2, AccountAssumption DEF ProfileInv, Known
  <2> QED  BY <1>1, <2>1, <2>3, <2>4, GoOnProfileKeeps
<1> QED  BY <1>3, <1>4, <1>5

LEMMA ProfileStepKeeps == ProfileInv /\ [AccountsNext]_<<requestVars, accountVars>> => ProfileInv'
<1> SUFFICES ASSUME ProfileInv, [AccountsNext]_<<requestVars, accountVars>> PROVE ProfileInv'
  OBVIOUS
<1>1. ASSUME NEW h \in Handlers, NEW e \in Emails \cup {Null},
             \/ BeginRegister(h, e)
             \/ \E u \in AccountIds : BeginUpdateMe(h, u, e)
      PROVE  ProfileInv'
  <2>1. CASE BeginRegister(h, e)
    <3> DEFINE r == [op |-> "register", on |-> {}, email |-> e]
    <3>1. ProfileRequestOK(r)
      BY DEF ProfileRequestOK, Uploading, HasRead
    <3> QED  BY <2>1, <3>1, BeginProfileKeeps DEF BeginRegister, accountVars
  <2>2. ASSUME NEW u \in AccountIds, BeginUpdateMe(h, u, e)
        PROVE  ProfileInv'
    <3> DEFINE r == [op |-> "updateMe", on |-> {u}, user |-> u, email |-> e]
    <3>1. ProfileRequestOK(r)
      BY <2>2 DEF ProfileRequestOK, Uploading, HasRead, BeginUpdateMe
    <3> QED  BY <2>2, <3>1, BeginProfileKeeps DEF BeginUpdateMe, accountVars
  <2> QED  BY <1>1, <2>1, <2>2
<1>2. ASSUME NEW h \in Handlers, NEW s \in Subs, NEW e \in Emails \cup {Null}, BeginGoogle(h, s, e)
      PROVE  ProfileInv'
  <2> DEFINE a == [op |-> "googleNew", on |-> {}, sub |-> s, email |-> e]
             b(u) == [op |-> "googleLink", on |-> {u}, user |-> u, sub |-> s, email |-> e,
                      seen |-> account[u]]
  <2>1. ProfileRequestOK(a)
    BY DEF ProfileRequestOK, Uploading, HasRead
  <2>2. ASSUME NEW u \in Known
        PROVE  ProfileRequestOK(b(u))
    <3>1. account[u] \in AccountRow
      BY DEF Known, ProfileInv
    <3> QED  BY <3>1 DEF ProfileRequestOK, Uploading, HasRead
  <2>3. CASE Begin(h, a) /\ UNCHANGED accountVars
    BY <2>1, <2>3, BeginProfileKeeps DEF accountVars
  <2>4. ASSUME NEW u \in Known, Begin(h, b(u)), UNCHANGED accountVars
        PROVE  ProfileInv'
    BY <2>2, <2>4, BeginProfileKeeps DEF accountVars
  <2> QED  BY <1>2, <2>3, <2>4 DEF BeginGoogle
<1>3. ASSUME NEW h \in Handlers, NEW u \in AccountIds, NEW f \in Files, SaveAvatar(h, u, f)
      PROVE  ProfileInv'
  <2> DEFINE r == [op |-> "avatarSaved", on |-> {u}, user |-> u, file |-> f]
  <2>1. ProfileRequestOK(r)
    BY <1>3 DEF ProfileRequestOK, Uploading, HasRead, SaveAvatar
  <2> QED  BY <1>3, <2>1, BeginProfileKeeps DEF SaveAvatar
<1>4. ASSUME NEW h \in Handlers, NEW u \in AccountIds, NEW d \in Devices, BeginRemoveDevice(h, u, d)
      PROVE  ProfileInv'
  <2> DEFINE r == [op |-> "removeDevice", on |-> {d}, user |-> u, device |-> d]
  <2>1. ProfileRequestOK(r)
    BY DEF ProfileRequestOK, Uploading, HasRead
  <2> QED  BY <1>4, <2>1, BeginProfileKeeps DEF BeginRemoveDevice, accountVars
<1>5. ASSUME UNCHANGED <<request, account, changedTo>>, overlapped \subseteq overlapped'
      PROVE  ProfileInv'
  <2>1. InFlight' = InFlight /\ Known' = Known
    BY <1>5 DEF InFlight, Known
  <2>2. \A q : ProfileRequestOK(q) => ProfileRequestOK(q)'
    BY <1>5, <2>1 DEF ProfileRequestOK, Uploading, HasRead
  <2>3. ProfileKept'
    BY <1>5, <2>1 DEF ProfileInv, ProfileKept
  <2> QED  BY <1>5, <2>1, <2>2, <2>3 DEF ProfileInv
<1>6. ASSUME NEW h \in Handlers, RemoveDevice(h) \/ AbandonAccount(h)
      PROVE  ProfileInv'
  BY <1>6, GoOnProfileKeeps
     DEF RemoveDevice, AbandonAccount, Abandon, End, Doing, InFlight, Known, ProfileInv
<1>7. ASSUME \/ \E u \in AccountIds, d \in Devices : RegisterDevice(u, d)
             \/ UNCHANGED <<requestVars, accountVars>>
      PROVE  ProfileInv'
  BY <1>5, <1>7 DEF RegisterDevice, requestVars, accountVars
<1> QED
  BY <1>1, <1>2, <1>3, <1>4, <1>6, <1>7, NewAccountKeeps, GoogleLinkKeeps, UpdateMeKeeps,
     AvatarStepKeepsProfile
     DEF AccountsNext, IdentityNext, ProfileNext

-----------------------------------------------------------------------------
(* Avatars: uploads.service.ts.                                            *)

Uploads == {h \in InFlight : Uploading(request[h])}
Readers == {h \in InFlight : HasRead(request[h])}

\* The file of an upload is on disk, and nothing else names it; an account and
\* the uploads for it do not name a file of another account.
AvatarInv ==
  /\ \A g \in Uploads :
       /\ request[g].file \in files
       /\ \A u \in Known : account[u].avatar # request[g].file
       /\ \A f \in Uploads \ {g} : request[f].file # request[g].file
       /\ \A f \in Readers : request[f].previous # request[g].file
  /\ \A u, v \in Known : u # v /\ account[u].avatar # Null => account[u].avatar # account[v].avatar
  /\ \A g \in Readers : \A v \in Known \ {request[g].user} :
       request[g].previous # Null => account[v].avatar # request[g].previous
  /\ AvatarServed

\* The uploads are what they were or fewer, and so are the files named.
LEMMA AvatarsSame ==
  ASSUME ProfileInv, AvatarInv, files' = files,
         Uploads' \subseteq Uploads, Readers' \subseteq Readers,
         \A g \in Uploads' : request'[g] = request[g],
         \A u \in Known' : IF u \in Known THEN account'[u].avatar = account[u].avatar
                          ELSE account'[u].avatar = Null,
         halfway \subseteq halfway',
         \A g \in Uploads \ Uploads' : request[g].op = "avatarCleared" => request[g].user \in halfway'
  PROVE  AvatarInv'
<1>1. \A g \in Readers : g \in Uploads
  BY DEF Uploads, Readers, Uploading, HasRead
<1>1p. \A g \in Readers' : g \in Uploads' /\ g \in Readers /\ request'[g] = request[g]
  BY DEF Uploads, Readers, Uploading, HasRead
<1>2. \A g \in Uploads : request[g].file \in Files /\ request[g].file # Null
  BY AccountAssumption DEF ProfileInv, ProfileRequestOK, Uploads
<1>3. ASSUME NEW g \in Uploads'
      PROVE  /\ request'[g].file \in files'
             /\ \A u \in Known' : account'[u].avatar # request'[g].file
             /\ \A f \in Uploads' \ {g} : request'[f].file # request'[g].file
             /\ \A f \in Readers' : request'[f].previous # request'[g].file
  <2>1. g \in Uploads /\ request'[g] = request[g] /\ request[g].file # Null
    BY <1>2, <1>3
  <2>2. /\ request[g].file \in files
        /\ \A u \in Known : account[u].avatar # request[g].file
        /\ \A f \in Uploads \ {g} : request[f].file # request[g].file
        /\ \A f \in Readers : request[f].previous # request[g].file
    BY <2>1 DEF AvatarInv
  <2> QED  BY <1>1p, <2>1, <2>2
<1>4. \A u, v \in Known' : u # v /\ account'[u].avatar # Null => account'[u].avatar # account'[v].avatar
  <2>1. \A u, v \in Known : u # v /\ account[u].avatar # Null => account[u].avatar # account[v].avatar
    BY DEF AvatarInv
  <2> QED  BY <2>1
<1>5. \A g \in Readers' : \A v \in Known' \ {request'[g].user} :
        request'[g].previous # Null => account'[v].avatar # request'[g].previous
  <2>1. \A g \in Readers : \A v \in Known \ {request[g].user} :
          request[g].previous # Null => account[v].avatar # request[g].previous
    BY DEF AvatarInv
  <2> QED  BY <1>1p, <2>1
<1>6. AvatarServed'
  <2> SUFFICES ASSUME NEW u \in Known', account'[u].avatar \notin files \cup {Null}, u \notin halfway'
               PROVE  \E h \in InFlight' : Doing(h, "avatarCleared")' /\ request'[h].user = u
    BY DEF AvatarServed
  <2>1. u \in Known /\ account[u].avatar \notin files \cup {Null} /\ u \notin halfway
    OBVIOUS
  <2>2. PICK h \in InFlight : Doing(h, "avatarCleared") /\ request[h].user = u
    BY <2>1 DEF AvatarInv, AvatarServed
  <2>3. h \in Uploads
    BY <2>2 DEF Uploads, Uploading, Doing
  <2>4. h \in Uploads'
    BY <2>2, <2>3 DEF Doing
  <2> QED  BY <2>2, <2>4 DEF Doing, Uploads
<1> QED  BY <1>3, <1>4, <1>5, <1>6 DEF AvatarInv

LEMMA SaveAvatarKeeps ==
  ASSUME ProfileInv, AvatarInv, NEW h \in Handlers, NEW u \in AccountIds, NEW f \in Files,
         SaveAvatar(h, u, f)
  PROVE  AvatarInv'
<1> DEFINE r == [op |-> "avatarSaved", on |-> {u}, user |-> u, file |-> f]
<1>1. /\ h \notin InFlight /\ request' = [request EXCEPT ![h] = r] /\ files' = files \cup {f}
      /\ account' = account /\ halfway' = halfway /\ Known' = Known
      /\ f \notin files /\ \A v \in Known : account[v].avatar # f
  BY DEF SaveAvatar, Begin, InFlight, Known, Fresh
<1>2. request'[h] = r /\ \A g \in Handlers \ {h} : request'[g] = request[g]
  BY <1>1 DEF ProfileInv
<1>4. r.op = "avatarSaved" /\ r.file = f
  OBVIOUS
<1> HIDE DEF r
<1>5. /\ \A g \in Uploads' : g = h \/ (g \in Uploads /\ g # h /\ request'[g] = request[g])
      /\ \A g \in Readers' : g \in Readers /\ g # h /\ request'[g] = request[g]
  BY <1>1, <1>2, <1>4 DEF Uploads, Readers, InFlight, HasRead
<1>6. \A g \in Readers : g \in Uploads /\ request[g].previous # f
  <2> SUFFICES ASSUME NEW g \in Readers PROVE g \in Uploads /\ request[g].previous # f
    OBVIOUS
  <2>1. g \in Uploads /\ g \in InFlight
    BY DEF Uploads, Readers, Uploading, HasRead
  <2>2. request[g] = [op |-> request[g].op, on |-> {request[g].user}, user |-> request[g].user,
                      file |-> request[g].file, previous |-> request[g].previous]
    BY DEF ProfileInv, ProfileRequestOK, Readers
  <2>3. {"file", "previous"} \subseteq DOMAIN request[g]
    BY <2>2
  <2> QED  BY <2>1, <2>3 DEF SaveAvatar, Fresh
<1>7. ASSUME NEW g \in Uploads'
      PROVE  /\ request'[g].file \in files'
             /\ \A v \in Known' : account'[v].avatar # request'[g].file
             /\ \A e \in Uploads' \ {g} : request'[e].file # request'[g].file
             /\ \A e \in Readers' : request'[e].previous # request'[g].file
  <2>1. \A e \in Uploads : request[e].file \in files /\ request[e].file # f
    BY <1>1 DEF AvatarInv
  <2>2. CASE g = h
    BY <1>1, <1>2, <1>4, <1>5, <1>6, <2>1, <2>2
  <2>3. CASE g # h
    <3>1. /\ g \in Uploads /\ request'[g] = request[g]
          /\ \A v \in Known : account[v].avatar # request[g].file
          /\ \A e \in Uploads \ {g} : request[e].file # request[g].file
          /\ \A e \in Readers : request[e].previous # request[g].file
      BY <1>5, <1>7, <2>3 DEF AvatarInv
    <3> QED  BY <1>1, <1>2, <1>4, <1>5, <2>1, <3>1
  <2> QED  BY <2>2, <2>3
<1>8. \A g \in Readers' : \A v \in Known' \ {request'[g].user} :
        request'[g].previous # Null => account'[v].avatar # request'[g].previous
  <2>1. \A g \in Readers : \A v \in Known \ {request[g].user} :
          request[g].previous # Null => account[v].avatar # request[g].previous
    BY DEF AvatarInv
  <2> QED  BY <1>1, <1>5, <2>1
<1>9. AvatarServed'
  <2>1. AvatarServed
    BY DEF AvatarInv
  <2>2. \A g \in InFlight : g # h /\ g \in Handlers /\ request'[g] = request[g] /\ g \in InFlight'
    BY <1>1, <1>2 DEF InFlight
  <2> QED  BY <1>1, <2>1, <2>2 DEF AvatarServed, Doing
<1> QED  BY <1>1, <1>7, <1>8, <1>9 DEF AvatarInv

LEMMA ReadPreviousKeeps ==
  ASSUME ProfileInv, AvatarInv, NEW h \in Handlers, ReadPrevious(h)
  PROVE  AvatarInv'
<1> DEFINE r == request[h]
           u == r.user
           q == [op |-> "avatarRead", on |-> r.on, user |-> u, file |-> r.file,
                 previous |-> account[u].avatar]
<1>1. /\ h \in InFlight /\ r.op = "avatarSaved" /\ h \in Uploads
      /\ request' = [request EXCEPT ![h] = q]
      /\ UNCHANGED <<account, files, halfway>> /\ Known' = Known /\ u \in Known
  BY DEF ReadPrevious, Doing, GoOn, InFlight, Uploads, Uploading, Known, accountVars, ProfileInv,
         ProfileRequestOK
<1>2. request'[h] = q /\ \A g \in Handlers \ {h} : request'[g] = request[g]
  BY <1>1 DEF ProfileInv
<1>3. q.file = r.file /\ q.user = u /\ q.previous = account[u].avatar /\ q.op = "avatarRead"
  OBVIOUS
<1> HIDE DEF q
<1>4. /\ \A g \in Uploads' : g \in Uploads /\ request'[g].file = request[g].file
      /\ \A g \in Readers' : g = h \/ (g \in Readers /\ request'[g] = request[g])
  BY <1>1, <1>2, <1>3 DEF Uploads, Readers, InFlight
<1>5. ASSUME NEW g \in Uploads'
      PROVE  /\ request'[g].file \in files'
             /\ \A v \in Known' : account'[v].avatar # request'[g].file
             /\ \A e \in Uploads' \ {g} : request'[e].file # request'[g].file
             /\ \A e \in Readers' : request'[e].previous # request'[g].file
  <2>1. /\ request[g].file \in files
        /\ \A v \in Known : account[v].avatar # request[g].file
        /\ \A e \in Uploads \ {g} : request[e].file # request[g].file
        /\ \A e \in Readers : request[e].previous # request[g].file
    BY <1>4, <1>5 DEF AvatarInv
  <2> QED  BY <1>1, <1>2, <1>3, <1>4, <2>1
<1>6. \A g \in Readers' : \A v \in Known' \ {request'[g].user} :
        request'[g].previous # Null => account'[v].avatar # request'[g].previous
  <2>1. \A g \in Readers : \A v \in Known \ {request[g].user} :
          request[g].previous # Null => account[v].avatar # request[g].previous
    BY DEF AvatarInv
  <2>2. \A v \in Known \ {u} : account[u].avatar # Null => account[u].avatar # account[v].avatar
    BY <1>1 DEF AvatarInv
  <2> QED  BY <1>1, <1>2, <1>3, <1>4, <2>1, <2>2
<1>7. AvatarServed'
  <2>1. AvatarServed
    BY DEF AvatarInv
  <2>2. \A g \in InFlight : Doing(g, "avatarCleared") =>
          g # h /\ g \in Handlers /\ request'[g] = request[g] /\ g \in InFlight'
    BY <1>1, <1>2 DEF InFlight, Doing
  <2> QED  BY <1>1, <2>1, <2>2 DEF AvatarServed, Doing
<1> QED  BY <1>1, <1>5, <1>6, <1>7 DEF AvatarInv

LEMMA DeletePreviousKeeps ==
  ASSUME ProfileInv, AvatarInv, NEW h \in Handlers, DeletePrevious(h)
  PROVE  AvatarInv'
<1> DEFINE r == request[h]
           u == r.user
           q == [r EXCEPT !.op = "avatarCleared"]
<1>1. /\ h \in InFlight /\ r.op = "avatarRead" /\ h \in Uploads /\ h \in Readers
      /\ request' = [request EXCEPT ![h] = q]
      /\ files' \in {files, files \ {r.previous}}
      /\ UNCHANGED <<account, halfway>> /\ Known' = Known
  BY DEF DeletePrevious, Doing, GoOn, InFlight, Uploads, Uploading, Readers, HasRead, Known
<1>2. request'[h] = q /\ \A g \in Handlers \ {h} : request'[g] = request[g]
  BY <1>1 DEF ProfileInv
<1>3. q.file = r.file /\ q.user = u /\ q.previous = r.previous /\ q.op = "avatarCleared"
  <2>1. r = [op |-> r.op, on |-> {u}, user |-> u, file |-> r.file, previous |-> r.previous]
    BY <1>1 DEF ProfileInv, ProfileRequestOK, Readers
  <2> QED  BY <2>1
<1> HIDE DEF q
<1>4. /\ \A g \in Uploads' : g \in Uploads /\ request'[g].file = request[g].file
      /\ \A g \in Readers' : /\ g \in Readers /\ request'[g].previous = request[g].previous
                              /\ request'[g].user = request[g].user
  BY <1>1, <1>2, <1>3 DEF Uploads, Readers, InFlight
<1>5. ASSUME NEW g \in Uploads'
      PROVE  /\ request'[g].file \in files'
             /\ \A v \in Known' : account'[v].avatar # request'[g].file
             /\ \A e \in Uploads' \ {g} : request'[e].file # request'[g].file
             /\ \A e \in Readers' : request'[e].previous # request'[g].file
  <2>1. /\ request[g].file \in files
        /\ \A v \in Known : account[v].avatar # request[g].file
        /\ \A e \in Uploads \ {g} : request[e].file # request[g].file
        /\ \A e \in Readers : request[e].previous # request[g].file
    BY <1>4, <1>5 DEF AvatarInv
  <2> QED  BY <1>1, <1>4, <2>1
<1>6. \A g \in Readers : \A v \in Known \ {request[g].user} :
        request[g].previous # Null => account[v].avatar # request[g].previous
  BY DEF AvatarInv
<1>7. AvatarServed'
  <2> SUFFICES ASSUME NEW v \in Known, account[v].avatar \notin files' \cup {Null}, v \notin halfway
               PROVE  \E g \in InFlight' : Doing(g, "avatarCleared")' /\ request'[g].user = v
    BY <1>1 DEF AvatarServed
  <2>1. q # Null
    <3>1. q = [op |-> "avatarCleared", on |-> {u}, user |-> u, file |-> r.file, previous |-> r.previous]
      <4>1. r = [op |-> r.op, on |-> {u}, user |-> u, file |-> r.file, previous |-> r.previous]
        BY <1>1 DEF ProfileInv, ProfileRequestOK, Readers
      <4> QED  BY <4>1 DEF q
    <3>2. u \in AccountIds /\ r.file \in Files /\ r.previous \in Files \cup {Null}
      BY <1>1 DEF ProfileInv, ProfileRequestOK, Readers, Uploads, Known
    <3> QED  BY <3>1, <3>2, AccountAssumption DEF AvatarCleared
  <2>2. CASE v = u
    BY <1>1, <1>2, <1>3, <2>1, <2>2 DEF Doing, InFlight
  <2>3. CASE v # u
    <3>1. account[v].avatar \notin files \cup {Null}
      BY <1>1, <1>6, <2>3
    <3>2. PICK g \in InFlight : Doing(g, "avatarCleared") /\ request[g].user = v
      BY <3>1 DEF AvatarInv, AvatarServed
    <3>3. g \in Handlers \ {h} /\ request'[g] = request[g]
      BY <1>1, <1>2, <3>2 DEF Doing, InFlight
    <3> QED  BY <3>2, <3>3 DEF Doing, InFlight
  <2> QED  BY <2>2, <2>3
<1> QED  BY <1>1, <1>4, <1>5, <1>6, <1>7 DEF AvatarInv

LEMMA WriteAvatarKeeps ==
  ASSUME ProfileInv, AvatarInv, NEW h \in Handlers, WriteAvatar(h)
  PROVE  AvatarInv'
<1> DEFINE r == request[h]
           u == r.user
           row == [account[u] EXCEPT !.avatar = r.file]
<1>1. /\ h \in InFlight /\ r.op = "avatarCleared" /\ h \in Uploads /\ h \in Readers
      /\ request' = [request EXCEPT ![h] = Null]
      /\ account' = [account EXCEPT ![u] = row]
      /\ files' = files /\ halfway' = halfway \ {u}
  BY DEF WriteAvatar, Doing, End, GoOn, InFlight, Uploads, Uploading, Readers, HasRead
<1>2. u \in Known /\ u \in AccountIds /\ account[u] \in AccountRow /\ r.file \in Files
  BY <1>1 DEF ProfileInv, ProfileRequestOK, Readers, Uploads, Known
<1>3. row \in AccountRow /\ row.avatar = r.file
  BY <1>2 DEF AccountRow
<1> HIDE DEF row
<1>4. /\ Known' = Known /\ account'[u].avatar = r.file
      /\ \A v \in Known \ {u} : account'[v] = account[v]
  BY <1>1, <1>2, <1>3, AccountAssumption DEF ProfileInv, Known
<1>5. /\ \A g \in Uploads' : g \in Uploads /\ g # h /\ request'[g] = request[g]
      /\ \A g \in Readers' : g \in Readers /\ g # h /\ request'[g] = request[g]
  BY <1>1 DEF Uploads, Readers, InFlight, ProfileInv
<1>6. /\ r.file \in files
      /\ \A v \in Known : account[v].avatar # r.file
      /\ \A e \in Uploads \ {h} : request[e].file # r.file
      /\ \A e \in Readers : request[e].previous # r.file
  BY <1>1 DEF AvatarInv
<1>7. ASSUME NEW g \in Uploads'
      PROVE  /\ request'[g].file \in files'
             /\ \A v \in Known' : account'[v].avatar # request'[g].file
             /\ \A e \in Uploads' \ {g} : request'[e].file # request'[g].file
             /\ \A e \in Readers' : request'[e].previous # request'[g].file
  <2>1. /\ request[g].file \in files
        /\ \A v \in Known : account[v].avatar # request[g].file
        /\ \A e \in Uploads \ {g} : request[e].file # request[g].file
        /\ \A e \in Readers : request[e].previous # request[g].file
    BY <1>5, <1>7 DEF AvatarInv
  <2>2. g \in Uploads \ {h} /\ request'[g] = request[g]
    BY <1>5, <1>7
  <2>3. \A v \in Known' : account'[v].avatar # request'[g].file
    <3> SUFFICES ASSUME NEW v \in Known PROVE account'[v].avatar # request[g].file
      BY <1>4, <2>2
    <3>1. CASE v = u
      BY <1>4, <1>6, <2>2, <3>1
    <3>2. CASE v # u
      BY <1>4, <2>1, <3>2
    <3> QED  BY <3>1, <3>2
  <2> QED  BY <1>1, <1>5, <2>1, <2>2, <2>3
<1>8. \A v, w \in Known' : v # w /\ account'[v].avatar # Null => account'[v].avatar # account'[w].avatar
  <2>1. \A v, w \in Known : v # w /\ account[v].avatar # Null => account[v].avatar # account[w].avatar
    BY DEF AvatarInv
  <2> QED  BY <1>4, <1>6, <2>1
<1>9. \A g \in Readers' : \A v \in Known' \ {request'[g].user} :
        request'[g].previous # Null => account'[v].avatar # request'[g].previous
  <2>1. \A g \in Readers : \A v \in Known \ {request[g].user} :
          request[g].previous # Null => account[v].avatar # request[g].previous
    BY DEF AvatarInv
  <2> QED  BY <1>4, <1>5, <1>6, <2>1
<1>10. AvatarServed'
  <2> SUFFICES ASSUME NEW v \in Known, account'[v].avatar \notin files \cup {Null}, v \notin halfway'
               PROVE  \E g \in InFlight' : Doing(g, "avatarCleared")' /\ request'[g].user = v
    BY <1>1, <1>4 DEF AvatarServed
  <2>1. v # u /\ account[v].avatar \notin files \cup {Null} /\ v \notin halfway
    BY <1>1, <1>4, <1>6
  <2>2. PICK g \in InFlight : Doing(g, "avatarCleared") /\ request[g].user = v
    BY <2>1 DEF AvatarInv, AvatarServed
  <2>3. g \in Handlers \ {h} /\ request'[g] = request[g]
    BY <1>1, <2>1, <2>2 DEF ProfileInv, InFlight
  <2> QED  BY <2>2, <2>3 DEF Doing, InFlight
<1> QED  BY <1>7, <1>8, <1>9, <1>10 DEF AvatarInv

\* Steps that neither make nor name a file.
LEMMA OtherAccountStepKeeps ==
  ASSUME ProfileInv, AvatarInv, UNCHANGED <<files, halfway>>,
         NEW h \in Handlers, NEW r, request' = [request EXCEPT ![h] = r],
         r = Null \/ ~Uploading(r), request[h] = Null \/ ~Uploading(request[h]),
         \A u \in Known' : IF u \in Known THEN account'[u].avatar = account[u].avatar
                          ELSE account'[u].avatar = Null
  PROVE  AvatarInv'
<1>1. request'[h] = r /\ \A g \in Handlers \ {h} : request'[g] = request[g]
  BY DEF ProfileInv
<1>2. /\ Uploads' \subseteq Uploads /\ Readers' \subseteq Readers
      /\ \A g \in Uploads' : request'[g] = request[g]
      /\ Uploads \subseteq Uploads'
  BY <1>1 DEF Uploads, Readers, InFlight, Uploading, HasRead
<1> QED  BY <1>2, AvatarsSame

LEMMA AvatarStepKeeps ==
  ProfileInv /\ AvatarInv /\ [AccountsNext]_<<requestVars, accountVars>> => AvatarInv'
<1> SUFFICES ASSUME ProfileInv, AvatarInv, [AccountsNext]_<<requestVars, accountVars>>
             PROVE  AvatarInv'
  OBVIOUS
<1>1. ASSUME NEW h \in Handlers, NEW e \in Emails \cup {Null},
             \/ BeginRegister(h, e)
             \/ \E u \in AccountIds : BeginUpdateMe(h, u, e)
             \/ \E s \in Subs : BeginGoogle(h, s, e)
             \/ \E u \in AccountIds, d \in Devices : BeginRemoveDevice(h, u, d)
      PROVE  AvatarInv'
  <2>1. PICK r : r.op \in {"register", "updateMe", "googleNew", "googleLink", "removeDevice"}
                 /\ Begin(h, r) /\ UNCHANGED accountVars
    <3>1. CASE BeginRegister(h, e)
      BY <3>1 DEF BeginRegister
    <3>2. ASSUME NEW u \in AccountIds, BeginUpdateMe(h, u, e)
          PROVE  \E r : r.op = "updateMe" /\ Begin(h, r) /\ UNCHANGED accountVars
      BY <3>2 DEF BeginUpdateMe
    <3>3. ASSUME NEW s \in Subs, BeginGoogle(h, s, e)
          PROVE  \E r : r.op \in {"googleNew", "googleLink"} /\ Begin(h, r) /\ UNCHANGED accountVars
      BY <3>3 DEF BeginGoogle
    <3>4. ASSUME NEW u \in AccountIds, NEW d \in Devices, BeginRemoveDevice(h, u, d)
          PROVE  \E r : r.op = "removeDevice" /\ Begin(h, r) /\ UNCHANGED accountVars
      BY <3>4 DEF BeginRemoveDevice
    <3> QED  BY <1>1, <3>1, <3>2, <3>3, <3>4
  <2>2. ~Uploading(r) /\ request[h] = Null /\ request' = [request EXCEPT ![h] = r]
    BY <2>1 DEF Uploading, Begin
  <2>3. UNCHANGED <<account, files, halfway>> /\ Known' = Known
    BY <2>1 DEF accountVars, Known
  <2> QED  BY <2>2, <2>3, OtherAccountStepKeeps
<1>2. ASSUME NEW h \in Handlers, NEW u \in AccountIds, Register(h, u) \/ GoogleNew(h, u)
      PROVE  AvatarInv'
  <2>1. /\ account[u] = Null /\ UNCHANGED <<files, halfway>>
        /\ request' = [request EXCEPT ![h] = Null] /\ ~Uploading(request[h])
        /\ \E e, s : account' = [account EXCEPT ![u] = NewAccount(e, s)]
    BY <1>2 DEF Register, GoogleNew, WriteAccount, Doing, End, GoOn, Uploading
  <2>2. /\ \A v \in Known : v # u /\ account'[v] = account[v]
        /\ account'[u].avatar = Null
        /\ Known' \subseteq Known \cup {u}
    BY <2>1 DEF ProfileInv, Known, NewAccount
  <2>3. \A v \in Known' : IF v \in Known THEN account'[v].avatar = account[v].avatar
                          ELSE account'[v].avatar = Null
    BY <2>2
  <2> QED  BY <2>1, <2>3, OtherAccountStepKeeps
<1>3. ASSUME NEW h \in Handlers, GoogleLink(h) \/ UpdateMe(h)
      PROVE  AvatarInv'
  <2>1. /\ UNCHANGED <<files, halfway>> /\ h \in InFlight
        /\ request' = [request EXCEPT ![h] = Null] /\ ~Uploading(request[h])
        /\ request[h].op \in {"googleLink", "updateMe"}
    BY <1>3 DEF GoogleLink, UpdateMe, Doing, End, GoOn, Uploading, InFlight
  <2> DEFINE u == request[h].user
  <2>2. u \in Known /\ u \in AccountIds /\ account[u] \in AccountRow
    BY <2>1 DEF ProfileInv, ProfileRequestOK, Known
  <2>3. PICK row : account' = [account EXCEPT ![u] = row] /\ row.avatar = account[u].avatar
    <3>1. CASE GoogleLink(h)
      <4> DEFINE r == request[h]
                 s == IF r.seen.sub = Null THEN r.sub ELSE r.seen.sub
                 e == IF r.seen.email = Null THEN r.email ELSE r.seen.email
                 row == [account[u] EXCEPT !.sub = s, !.email = e]
      <4>1. account' = [account EXCEPT ![u] = row]
        BY <3>1 DEF GoogleLink, WriteAccount
      <4>2. row.avatar = account[u].avatar
        BY <2>2 DEF AccountRow
      <4> HIDE DEF row
      <4> QED  BY <4>1, <4>2
    <3>2. CASE UpdateMe(h)
      <4>1. PICK e : account' = [account EXCEPT ![u] = [account[u] EXCEPT !.email = e]]
        BY <3>2 DEF UpdateMe, WriteAccount
      <4> QED  BY <2>2, <4>1 DEF AccountRow
    <3> QED  BY <1>3, <3>1, <3>2
  <2>4. \A v \in Known' : v \in Known /\ account'[v].avatar = account[v].avatar
    BY <2>2, <2>3 DEF ProfileInv, Known
  <2> QED  BY <2>1, <2>4, OtherAccountStepKeeps
<1>4. ASSUME NEW h \in Handlers, RemoveDevice(h)
      PROVE  AvatarInv'
  <2>1. /\ UNCHANGED <<account, files, halfway>> /\ Known' = Known
        /\ request' = [request EXCEPT ![h] = Null] /\ ~Uploading(request[h])
    BY <1>4 DEF RemoveDevice, Doing, End, GoOn, Uploading, Known
  <2> QED  BY <2>1, OtherAccountStepKeeps
<1>5. ASSUME NEW h \in Handlers, AbandonAccount(h)
      PROVE  AvatarInv'
  <2>1. /\ UNCHANGED <<account, files>> /\ Known' = Known /\ request[h] # Null
        /\ request'[h] = Null /\ \A g \in Handlers \ {h} : request'[g] = request[g]
        /\ halfway \subseteq halfway'
        /\ request[h].op = "avatarCleared" => request[h].user \in halfway'
    BY <1>5 DEF AbandonAccount, Abandon, Doing, End, GoOn, Known, ProfileInv
  <2>2. /\ Uploads' = Uploads \ {h} /\ Readers' \subseteq Readers
        /\ \A g \in Uploads' : request'[g] = request[g]
    BY <2>1 DEF Uploads, Readers, InFlight
  <2> QED  BY <2>1, <2>2, AvatarsSame
<1>6. ASSUME \/ \E u \in AccountIds, d \in Devices : RegisterDevice(u, d)
             \/ UNCHANGED <<requestVars, accountVars>>
      PROVE  AvatarInv'
  <2>1. UNCHANGED <<request, account, files, halfway>>
    BY <1>6 DEF RegisterDevice, requestVars, accountVars
  <2>2. Known' = Known /\ Uploads' = Uploads /\ Readers' = Readers
    BY <2>1 DEF Known, Uploads, Readers, InFlight
  <2> QED  BY <2>1, <2>2, AvatarsSame
<1> QED
  BY <1>1, <1>2, <1>3, <1>4, <1>5, <1>6, SaveAvatarKeeps, ReadPreviousKeeps, DeletePreviousKeeps,
     WriteAvatarKeeps
     DEF AccountsNext, IdentityNext, ProfileNext

\* What customers put on their profile is there: an account keeps the e-mail its
\* owner last gave it unless two requests write it at once, and shows an avatar
\* that is on disk however its uploads overlap.
THEOREM ProfileAlwaysServed == AccountsSpec => []ProfileServed
<1>1. AccountsInit /\ RequestsInit => ProfileInv /\ AvatarInv
  BY DEF AccountsInit, RequestsInit, ProfileInv, AvatarInv, ProfileKept, AvatarServed, Known, InFlight,
         Uploads, Readers
<1>2. ProfileInv /\ AvatarInv => ProfileServed
  BY DEF ProfileInv, AvatarInv, ProfileServed
<1> QED  BY <1>1, <1>2, ProfileStepKeeps, AvatarStepKeeps, PTL DEF AccountsSpec

-----------------------------------------------------------------------------
(* Devices and pushes: notifications.service.ts, users.service.ts.         *)

DeviceOf(u) == [user : {u}, live : BOOLEAN]

\* What a request has read of a device still holds, unless the device is
\* registered again meanwhile.
PushRequestOK(r) ==
  /\ r.op = "notify" => r = [op |-> "notify", on |-> {}, todo |-> r.todo]
  /\ r.op = "removeDevice" =>
       /\ r.device \in Devices /\ r.on = {r.device}
       /\ r.device \notin overlapped => registered[r.device] \in {Null, r.user}
  /\ r.op = "push" =>
       /\ r = [op |-> "push", on |-> r.on, todo |-> r.todo, user |-> r.user, left |-> r.left,
               invalid |-> r.invalid]
       /\ r.left \cup r.invalid \subseteq r.on /\ r.on \subseteq Devices
       /\ \A d \in r.left \ overlapped : device[d] \in DeviceOf(r.user)
       /\ \A d \in r.invalid \ overlapped : registered[d] = Null

PushesReached == \A x \in pushed : x.owner = x.to \/ x.device \in overlapped

PushInv ==
  /\ DOMAIN request = Handlers /\ DOMAIN device = Devices /\ DOMAIN registered = Devices
  /\ \A h \in InFlight : PushRequestOK(request[h])
  /\ DeviceReached /\ PushesReached

\* A device that a request works on may be switched off or forgotten.
LEMMA RequestStaysOK ==
  ASSUME NEW q, PushRequestOK(q), overlapped \subseteq overlapped',
         \A d \in Devices : d \in q.on /\ d \notin overlapped' =>
           /\ registered'[d] = registered[d] \/ registered'[d] = Null
           /\ device'[d] = device[d] \/ device'[d] = [device[d] EXCEPT !.live = FALSE]
  PROVE  PushRequestOK(q)'
<1>1. ASSUME q.op = "removeDevice"
      PROVE  q.device \notin overlapped' => registered'[q.device] \in {Null, q.user}
  BY <1>1 DEF PushRequestOK
<1>2. ASSUME q.op = "push", NEW d \in q.left \ overlapped'
      PROVE  device'[d] \in DeviceOf(q.user)
  <2>1. d \in Devices /\ d \in q.on /\ device[d] \in DeviceOf(q.user)
    BY <1>2 DEF PushRequestOK
  <2>2. [device[d] EXCEPT !.live = FALSE] \in DeviceOf(q.user)
    BY <2>1 DEF DeviceOf
  <2> QED  BY <1>2, <2>1, <2>2
<1>3. ASSUME q.op = "push", NEW d \in q.invalid \ overlapped'
      PROVE  registered'[d] = Null
  <2>1. d \in Devices /\ d \in q.on /\ registered[d] = Null
    BY <1>3 DEF PushRequestOK
  <2> QED  BY <1>3, <2>1
<1> QED  BY <1>1, <1>2, <1>3 DEF PushRequestOK

\* A request begins, goes on or ends, and no device changes.
LEMMA PushRequestsKeep ==
  ASSUME PushInv, NEW h \in Handlers, NEW r, request' = [request EXCEPT ![h] = r],
         overlapped \subseteq overlapped', UNCHANGED <<device, registered>>,
         r = Null \/ PushRequestOK(r),
         \A x \in pushed' \ pushed : x.owner = x.to \/ x.device \in overlapped
  PROVE  PushInv'
<1>1. request'[h] = r /\ DOMAIN request' = Handlers /\ \A g \in Handlers \ {h} : request'[g] = request[g]
  BY DEF PushInv
<1>2. \A q : PushRequestOK(q) => PushRequestOK(q)'
  BY RequestStaysOK
<1>3. (\A g \in InFlight : PushRequestOK(request[g]))'
  BY <1>1, <1>2 DEF PushInv, InFlight
<1>4. DeviceReached'
  <2>1. DeviceReached
    BY DEF PushInv
  <2> QED  BY <2>1 DEF DeviceReached
<1>5. PushesReached'
  <2>1. PushesReached
    BY DEF PushInv
  <2> QED  BY <2>1 DEF PushesReached
<1> QED  BY <1>1, <1>3, <1>4, <1>5 DEF PushInv

LEMMA RegisterDeviceKeeps ==
  ASSUME PushInv, NEW u \in AccountIds, NEW d \in Devices, RegisterDevice(u, d), pushed' = pushed
  PROVE  PushInv'
<1>1. /\ request' = request /\ overlapped \subseteq overlapped'
      /\ InFlight' = InFlight
      /\ \A h \in InFlight : d \in request[h].on => d \in overlapped'
  BY DEF RegisterDevice, InFlight
<1>2. /\ DOMAIN device' = Devices /\ DOMAIN registered' = Devices
      /\ device'[d] = [user |-> u, live |-> TRUE] /\ registered'[d] = u
      /\ \A e \in Devices \ {d} : device'[e] = device[e] /\ registered'[e] = registered[e]
  BY DEF RegisterDevice, PushInv
<1>3. (\A h \in InFlight : PushRequestOK(request[h]))'
  <2> SUFFICES ASSUME NEW h \in InFlight, NEW q, q = request[h]
               PROVE  PushRequestOK(q)'
    BY <1>1
  <2>1. PushRequestOK(q)
    BY DEF PushInv
  <2>2. \A e \in Devices : e \in q.on /\ e \notin overlapped' =>
          registered'[e] = registered[e] /\ device'[e] = device[e]
    BY <1>1, <1>2
  <2> QED  BY <1>1, <2>1, <2>2, RequestStaysOK
<1>4. DeviceReached'
  <2>1. DeviceReached
    BY DEF PushInv
  <2> QED  BY <1>1, <1>2, <2>1 DEF DeviceReached
<1>5. PushesReached'
  BY <1>1 DEF PushInv, PushesReached
<1> QED  BY <1>1, <1>2, <1>3, <1>4, <1>5 DEF PushInv

\* Devices are switched off or forgotten, by a request that ends or goes on.
LEMMA SwitchOffKeeps ==
  ASSUME PushInv, NEW h \in Handlers, NEW r, request' = [request EXCEPT ![h] = r],
         overlapped' = overlapped, DOMAIN device' = Devices, DOMAIN registered' = Devices,
         r = Null \/ PushRequestOK(r)',
         \A d \in Devices :
           /\ registered'[d] = registered[d] \/ registered'[d] = Null
           /\ \/ device'[d] = device[d]
              \/ /\ device'[d] = [device[d] EXCEPT !.live = FALSE]
                 /\ registered'[d] = Null \/ d \in overlapped,
         \A x \in pushed' \ pushed : x.owner = x.to \/ x.device \in overlapped
  PROVE  PushInv'
<1>1. request'[h] = r /\ DOMAIN request' = Handlers /\ \A g \in Handlers \ {h} : request'[g] = request[g]
  BY DEF PushInv
<1>2. \A q : PushRequestOK(q) => PushRequestOK(q)'
  BY RequestStaysOK
<1>3. (\A g \in InFlight : PushRequestOK(request[g]))'
  BY <1>1, <1>2 DEF PushInv, InFlight
<1>4. DeviceReached'
  <2>1. DeviceReached
    BY DEF PushInv
  <2> QED  BY <2>1 DEF DeviceReached
<1>5. PushesReached'
  <2>1. PushesReached
    BY DEF PushInv
  <2> QED  BY <2>1 DEF PushesReached
<1> QED  BY <1>1, <1>3, <1>4, <1>5 DEF PushInv

LEMMA RemoveDeviceKeeps ==
  ASSUME PushInv, NEW h \in Handlers, RemoveDevice(h), pushed' = pushed
  PROVE  PushInv'
<1> DEFINE r == request[h]
           d == r.device
<1>1. h \in InFlight /\ r.op = "removeDevice" /\ PushRequestOK(r)
  BY DEF RemoveDevice, Doing, InFlight, PushInv
<1>2. d \in Devices /\ (d \notin overlapped => registered[d] \in {Null, r.user})
  BY <1>1 DEF PushRequestOK
<1>3. /\ request' = [request EXCEPT ![h] = Null] /\ overlapped' = overlapped
      /\ device' = [device EXCEPT ![d] = [device[d] EXCEPT !.live = FALSE]]
      /\ registered' = [registered EXCEPT ![d] = IF registered[d] = r.user THEN Null ELSE registered[d]]
  BY DEF RemoveDevice, End, GoOn
<1>4. /\ DOMAIN device' = Devices /\ DOMAIN registered' = Devices
      /\ device'[d] = [device[d] EXCEPT !.live = FALSE]
      /\ registered'[d] = IF registered[d] = r.user THEN Null ELSE registered[d]
      /\ \A e \in Devices \ {d} : device'[e] = device[e] /\ registered'[e] = registered[e]
  BY <1>2, <1>3 DEF PushInv
<1> HIDE DEF d
<1>5. \A e \in Devices :
        /\ registered'[e] = registered[e] \/ registered'[e] = Null
        /\ \/ device'[e] = device[e]
           \/ /\ device'[e] = [device[e] EXCEPT !.live = FALSE]
              /\ registered'[e] = Null \/ e \in overlapped
  BY <1>2, <1>4
<1> QED  BY <1>3, <1>4, <1>5, SwitchOffKeeps

LEMMA SendPushKeeps ==
  ASSUME PushInv, NEW h \in Handlers, NEW d \in Devices, SendPush(h, d)
  PROVE  PushInv'
<1> PICK r : r = request[h]
  OBVIOUS
<1> DEFINE a == [op |-> "push", on |-> r.on, todo |-> r.todo, user |-> r.user,
                 left |-> r.left \ {d}, invalid |-> r.invalid]
           b == [op |-> "push", on |-> r.on, todo |-> r.todo, user |-> r.user,
                 left |-> r.left \ {d}, invalid |-> r.invalid \cup {d}]
           x == [device |-> d, to |-> r.user, owner |-> device[d].user]
<1>1. h \in InFlight /\ r.op = "push" /\ d \in r.left /\ PushRequestOK(r)
  BY DEF SendPush, Doing, InFlight, PushInv
<1>2. /\ r = [op |-> "push", on |-> r.on, todo |-> r.todo, user |-> r.user, left |-> r.left,
              invalid |-> r.invalid]
      /\ r.left \cup r.invalid \subseteq r.on /\ r.on \subseteq Devices
      /\ \A e \in r.left \ overlapped : device[e] \in DeviceOf(r.user)
      /\ \A e \in r.invalid \ overlapped : registered[e] = Null
  BY <1>1 DEF PushRequestOK
<1>3. [r EXCEPT !.left = @ \ {d}] = a /\ [r EXCEPT !.left = @ \ {d}, !.invalid = @ \cup {d}] = b
  <2> PICK on, todo, user, left, invalid :
        r = [op |-> "push", on |-> on, todo |-> todo, user |-> user, left |-> left, invalid |-> invalid]
    BY <1>2
  <2>1. /\ r.on = on /\ r.todo = todo /\ r.user = user /\ r.left = left /\ r.invalid = invalid
    OBVIOUS
  <2>2. [r EXCEPT !.left = @ \ {d}] = a
    BY <2>1
  <2>3. [r EXCEPT !.left = @ \ {d}, !.invalid = @ \cup {d}] = b
    <3> DEFINE c == [r EXCEPT !.left = left \ {d}]
    <3>1. c = [op |-> "push", on |-> on, todo |-> todo, user |-> user, left |-> left \ {d},
               invalid |-> invalid]
      OBVIOUS
    <3>2. [c EXCEPT !.invalid = invalid \cup {d}] = b
      <4> PICK i : i = invalid \cup {d}
        OBVIOUS
      <4>1. b = [op |-> "push", on |-> on, todo |-> todo, user |-> user, left |-> left \ {d},
                 invalid |-> i]
        BY <2>1
      <4>2. [c EXCEPT !.invalid = i] =
               [op |-> "push", on |-> on, todo |-> todo, user |-> user, left |-> left \ {d},
                invalid |-> i]
        <5> HIDE DEF c, b, a
        <5> QED  BY ONLY <3>1
      <4> QED  BY <4>1, <4>2
    <3>3. [r EXCEPT !.left = @ \ {d}, !.invalid = @ \cup {d}] = [c EXCEPT !.invalid = invalid \cup {d}]
      BY <2>1
    <3> QED  BY <3>2, <3>3
  <2> QED  BY <2>2, <2>3
<1>4. PushRequestOK(a)
  BY <1>2 DEF PushRequestOK
<1>5. x.owner = x.to \/ x.device \in overlapped
  BY <1>1, <1>2 DEF DeviceOf
<1>6. CASE GoOn(h, a) /\ pushed' \in {pushed, pushed \cup {x}} /\ UNCHANGED <<device, registered>>
  <2>1. request' = [request EXCEPT ![h] = a] /\ overlapped' = overlapped
    BY <1>6 DEF GoOn
  <2>2. \A y \in pushed' \ pushed : y.owner = y.to \/ y.device \in overlapped
    BY <1>5, <1>6
  <2> HIDE DEF a, b, x
  <2> QED  BY <1>4, <1>6, <2>1, <2>2, PushRequestsKeep
<1>7. CASE GoOn(h, b) /\ UNCHANGED <<device, pushed>> /\ registered' = [registered EXCEPT ![d] = Null]
  <2>1. request' = [request EXCEPT ![h] = b] /\ overlapped' = overlapped
    BY <1>7 DEF GoOn
  <2>2. /\ DOMAIN registered' = Devices /\ DOMAIN device' = Devices
        /\ registered'[d] = Null /\ \A e \in Devices \ {d} : registered'[e] = registered[e]
    BY <1>7 DEF PushInv
  <2>3. PushRequestOK(b)'
    <3>1. \A e \in b.left \ overlapped : device'[e] \in DeviceOf(b.user)
      BY <1>2, <1>7
    <3>2. \A e \in b.invalid \ overlapped : registered'[e] = Null
      BY <1>2, <2>2
    <3>3. b.left \cup b.invalid \subseteq b.on /\ b.on \subseteq Devices
      BY <1>1, <1>2
    <3> QED  BY <2>1, <3>1, <3>2, <3>3 DEF PushRequestOK
  <2>4. \A e \in Devices :
          /\ registered'[e] = registered[e] \/ registered'[e] = Null
          /\ device'[e] = device[e]
    BY <1>7, <2>2
  <2> HIDE DEF a, b, x
  <2> QED  BY <1>7, <2>1, <2>2, <2>3, <2>4, SwitchOffKeeps
<1>8. \/ GoOn(h, a) /\ pushed' \in {pushed, pushed \cup {x}} /\ UNCHANGED <<device, registered>>
      \/ GoOn(h, b) /\ UNCHANGED <<device, pushed>> /\ registered' = [registered EXCEPT ![d] = Null]
  BY <1>3 DEF SendPush
<1> QED  BY <1>6, <1>7, <1>8

LEMMA RetireInvalidKeeps ==
  ASSUME PushInv, NEW h \in Handlers, RetireInvalid(h)
  PROVE  PushInv'
<1> PICK r : r = request[h]
  OBVIOUS
<1> DEFINE q == [op |-> "notify", on |-> {}, todo |-> r.todo]
<1>1. h \in InFlight /\ r.op = "push" /\ PushRequestOK(r)
  BY DEF RetireInvalid, Doing, InFlight, PushInv
<1>2. /\ request' = [request EXCEPT ![h] = q] /\ overlapped' = overlapped
      /\ UNCHANGED <<registered, pushed>>
      /\ device' = [d \in Devices |-> IF d \in r.invalid THEN [device[d] EXCEPT !.live = FALSE]
                                      ELSE device[d]]
  BY DEF RetireInvalid, GoOn
<1>3. \A d \in Devices :
        \/ device'[d] = device[d]
        \/ device'[d] = [device[d] EXCEPT !.live = FALSE] /\ (registered'[d] = Null \/ d \in overlapped)
  BY <1>1, <1>2 DEF PushRequestOK
<1>4. PushRequestOK(q)'
  BY DEF PushRequestOK
<1> HIDE DEF q
<1> QED  BY <1>2, <1>3, <1>4, SwitchOffKeeps DEF PushInv

LEMMA PushStepKeeps == PushInv /\ [PushesNext]_<<requestVars, pushVars>> => PushInv'
<1> SUFFICES ASSUME PushInv, [PushesNext]_<<requestVars, pushVars>> PROVE PushInv'
  OBVIOUS
<1>1. ASSUME NEW h \in Handlers, NEW us, BeginNotify(h, us)
      PROVE  PushInv'
  <2> DEFINE r == [op |-> "notify", on |-> {}, todo |-> us]
  <2>1. PushRequestOK(r)
    BY DEF PushRequestOK
  <2>2. request' = [request EXCEPT ![h] = r] /\ overlapped \subseteq overlapped' /\ UNCHANGED pushVars
    BY <1>1 DEF BeginNotify, Begin
  <2> HIDE DEF r
  <2> QED  BY <2>1, <2>2, PushRequestsKeep DEF pushVars, accountVars
<1>2. ASSUME NEW h \in Handlers, NEW u \in AccountIds, ReadTokens(h, u)
      PROVE  PushInv'
  <2> DEFINE r == request[h]
             mine == {d \in Devices : device[d] = [user |-> u, live |-> TRUE]}
             a == [op |-> "push", on |-> mine, todo |-> r.todo \ {u}, user |-> u, left |-> mine,
                   invalid |-> {}]
             b == [op |-> "notify", on |-> {}, todo |-> r.todo \ {u}]
  <2>1. h \in InFlight /\ r.op = "notify" /\ PushRequestOK(r)
    BY <1>2 DEF ReadTokens, Doing, InFlight, PushInv
  <2>2. r = [op |-> "notify", on |-> {}, todo |-> r.todo]
    BY <2>1 DEF PushRequestOK
  <2>3. [r EXCEPT !.todo = @ \ {u}] = b
    BY <2>2
  <2>4. PushRequestOK(a) /\ PushRequestOK(b)
    <3>1. \A d \in mine : d \in Devices /\ device[d] \in DeviceOf(u)
      <4>1. [user |-> u, live |-> TRUE] \in DeviceOf(u)
        BY DEF DeviceOf
      <4>2. \A d \in mine : d \in Devices /\ device[d] = [user |-> u, live |-> TRUE]
        OBVIOUS
      <4> QED  BY <4>1, <4>2
    <3>2. PushRequestOK(b)
      BY DEF PushRequestOK
    <3> HIDE DEF mine
    <3>3. a.left = mine /\ a.on = mine /\ a.invalid = {} /\ a.user = u /\ a.op = "push"
      OBVIOUS
    <3> QED  BY <3>1, <3>2, <3>3 DEF PushRequestOK
  <2>5. /\ request' = [request EXCEPT ![h] = a] \/ request' = [request EXCEPT ![h] = b]
        /\ overlapped' = overlapped /\ UNCHANGED <<device, registered, pushed>>
    BY <1>2, <2>3 DEF ReadTokens, GoOn, pushVars, accountVars
  <2> HIDE DEF a, b
  <2> QED  BY <2>4, <2>5, PushRequestsKeep
<1>3. ASSUME NEW h \in Handlers,
             EndNotify(h) \/ (AbandonAccount(h) /\ UNCHANGED pushed)
      PROVE  PushInv'
  <2>1. /\ request' = [request EXCEPT ![h] = Null] /\ overlapped' = overlapped
        /\ UNCHANGED <<device, registered, pushed>>
    BY <1>3 DEF EndNotify, AbandonAccount, Abandon, End, GoOn, pushVars, accountVars
  <2> QED  BY <2>1, PushRequestsKeep
<1>4. ASSUME NEW h \in Handlers, NEW u \in AccountIds, NEW d \in Devices, BeginRemoveDevice(h, u, d),
             UNCHANGED pushed
      PROVE  PushInv'
  <2> DEFINE r == [op |-> "removeDevice", on |-> {d}, user |-> u, device |-> d]
  <2>1. registered[d] \in {Null, u} \/ d \in overlapped
    <3>1. device[d] = [user |-> u, live |-> TRUE]
      BY <1>4 DEF BeginRemoveDevice
    <3>2. registered[d] # Null /\ d \notin overlapped => device[d] = [user |-> registered[d], live |-> TRUE]
      BY DEF PushInv, DeviceReached
    <3> QED  BY <3>1, <3>2
  <2>2. PushRequestOK(r)
    BY <2>1 DEF PushRequestOK
  <2>3. request' = [request EXCEPT ![h] = r] /\ overlapped \subseteq overlapped' /\ UNCHANGED <<device, registered>>
    BY <1>4 DEF BeginRemoveDevice, Begin, accountVars
  <2> HIDE DEF r
  <2> QED  BY <1>4, <2>2, <2>3, PushRequestsKeep
<1>5. CASE UNCHANGED <<requestVars, pushVars>>
  <2>1. UNCHANGED <<request, overlapped, device, registered, pushed>>
    BY <1>5 DEF requestVars, pushVars, accountVars
  <2> QED  BY <2>1 DEF PushInv, InFlight, PushRequestOK, DeviceReached, PushesReached
<1> QED
  BY <1>1, <1>2, <1>3, <1>4, <1>5, RegisterDeviceKeeps, RemoveDeviceKeeps, SendPushKeeps,
     RetireInvalidKeeps
     DEF PushesNext

\* A push shows on a device of the customer it is for, and a registered device
\* stays reached whatever Firebase answered for it before, unless the device is
\* registered again while a request that read it is on its way.
THEOREM DevicesAlwaysServed == PushesSpec => []DevicesServed
<1>1. PushesInit /\ RequestsInit => PushInv
  BY DEF PushesInit, RequestsInit, PushInv, DeviceReached, PushesReached, InFlight
<1>2. PushInv => DevicesServed
  BY DEF PushInv, PushesReached, DevicesServed
<1> QED  BY <1>1, <1>2, PushStepKeeps, PTL DEF PushesSpec

-----------------------------------------------------------------------------
(* Searches: search.service.ts.                                            *)

\* The shoppers who have a term, or have been counted for it and will have it.
CountedFor(t) ==
  {u \in Shoppers :
     \/ <<u, t>> \in history
     \/ \E h \in InFlight : request[h].op = "search" /\ request[h].row = <<u, t>>}

SearchInv ==
  /\ popular \in [Terms -> Nat]
  /\ DOMAIN request = Handlers
  /\ \A t \in Terms : IsFiniteSet(CountedFor(t)) /\ Cardinality(CountedFor(t)) <= popular[t]

\* A step after which no term is newly to be had.
LEMMA NoneCounted ==
  ASSUME SearchInv, popular' = popular, DOMAIN request' = Handlers,
         \A t \in Terms : CountedFor(t)' \subseteq CountedFor(t)
  PROVE  SearchInv'
<1> SUFFICES ASSUME NEW t \in Terms
             PROVE  IsFiniteSet(CountedFor(t)') /\ Cardinality(CountedFor(t)') <= popular[t]
  BY DEF SearchInv
<1>1. /\ IsFiniteSet(CountedFor(t)) /\ Cardinality(CountedFor(t)) <= popular[t]
      /\ popular[t] \in Nat /\ CountedFor(t)' \subseteq CountedFor(t)
  BY DEF SearchInv
<1>2. /\ IsFiniteSet(CountedFor(t)') /\ Cardinality(CountedFor(t)') <= Cardinality(CountedFor(t))
      /\ Cardinality(CountedFor(t)) \in Nat /\ Cardinality(CountedFor(t)') \in Nat
  BY <1>1, FS_Subset, FS_CardinalityType
<1> QED  BY <1>1, <1>2

\* The requests are what they were, but for those that ended or are no search.
LEMMA RequestsNotCounted ==
  ASSUME SearchInv, popular' = popular, history' \subseteq history,
         NEW h \in Handlers, DOMAIN request' = Handlers,
         \A g \in Handlers \ {h} : request'[g] = request[g],
         request'[h] = Null \/ request'[h].op # "search"
  PROVE  SearchInv'
<1>1. \A t \in Terms : CountedFor(t)' \subseteq CountedFor(t)
  BY DEF CountedFor, InFlight
<1> QED  BY <1>1, NoneCounted

LEMMA CountSearchKeeps ==
  ASSUME SearchInv, NEW h \in Handlers, NEW u \in Shoppers \cup {Null}, NEW t \in Terms,
         CountSearch(h, u, t)
  PROVE  SearchInv'
<1>1. /\ popular' = [popular EXCEPT ![t] = popular[t] + 1] /\ history' = history
      /\ popular \in [Terms -> Nat]
  BY DEF CountSearch, SearchInv
<1>2. /\ DOMAIN request' = Handlers
      /\ \A s \in Terms : CountedFor(s)' \subseteq CountedFor(s) \cup (IF s = t THEN {u} ELSE {})
  <2>1. CASE u = Null
    BY <1>1, <2>1 DEF CountSearch, requestVars, SearchInv, CountedFor, InFlight
  <2>2. CASE u # Null
    <3> DEFINE r == [op |-> "search", on |-> {}, row |-> <<u, t>>]
    <3>1. request' = [request EXCEPT ![h] = r] /\ r.row = <<u, t>>
      BY <2>2 DEF CountSearch, Begin
    <3> HIDE DEF r
    <3>2. DOMAIN request' = Handlers /\ request'[h] = r /\ \A g \in Handlers \ {h} : request'[g] = request[g]
      BY <3>1 DEF SearchInv
    <3>3. ASSUME NEW s \in Terms, NEW v \in CountedFor(s)'
          PROVE  v \in CountedFor(s) \/ (s = t /\ v = u)
      <4>1. CASE <<v, s>> \in history
        BY <3>3, <4>1 DEF CountedFor
      <4>2. CASE <<v, s>> \notin history
        <5>1. PICK g \in InFlight' : request'[g].op = "search" /\ request'[g].row = <<v, s>>
          BY <1>1, <3>3, <4>2 DEF CountedFor
        <5>2. CASE g = h
          BY <3>1, <3>2, <5>1, <5>2
        <5>3. CASE g # h
          BY <3>2, <3>3, <5>1, <5>3 DEF CountedFor, InFlight
        <5> QED  BY <5>2, <5>3
      <4> QED  BY <4>1, <4>2
    <3> QED  BY <3>2, <3>3
  <2> QED  BY <2>1, <2>2
<1>3. ASSUME NEW s \in Terms
      PROVE  IsFiniteSet(CountedFor(s)') /\ Cardinality(CountedFor(s)') <= popular'[s]
  <2> DEFINE S == CountedFor(s)
             T == CountedFor(s)'
  <2>1. IsFiniteSet(S) /\ Cardinality(S) <= popular[s] /\ Cardinality(S) \in Nat /\ popular[s] \in Nat
    BY <1>3, FS_CardinalityType DEF SearchInv
  <2>2. popular'[s] = IF s = t THEN popular[s] + 1 ELSE popular[s]
    BY <1>1, <1>3
  <2>3. CASE s # t
    <3>1. T \subseteq S
      BY <1>2, <1>3, <2>3
    <3>2. IsFiniteSet(T) /\ Cardinality(T) <= Cardinality(S) /\ Cardinality(T) \in Nat
      BY <2>1, <3>1, FS_Subset, FS_CardinalityType
    <3> QED  BY <2>1, <2>2, <2>3, <3>2
  <2>4. CASE s = t
    <3>1. T \subseteq S \cup {u}
      BY <1>2, <1>3, <2>4
    <3>2. IsFiniteSet(S \cup {u}) /\ Cardinality(S \cup {u}) <= Cardinality(S) + 1
      <4>1. Cardinality(S \cup {u}) = IF u \in S THEN Cardinality(S) ELSE Cardinality(S) + 1
        BY <2>1, FS_AddElement
      <4>2. IsFiniteSet(S \cup {u})
        BY <2>1, FS_AddElement
      <4> QED  BY <2>1, <4>1, <4>2
    <3>3. /\ IsFiniteSet(T) /\ Cardinality(T) <= Cardinality(S \cup {u})
          /\ Cardinality(T) \in Nat /\ Cardinality(S \cup {u}) \in Nat
      BY <3>1, <3>2, FS_Subset, FS_CardinalityType
    <3> QED  BY <2>1, <2>2, <2>4, <3>2, <3>3
  <2> QED  BY <2>3, <2>4
<1> QED  BY <1>1, <1>2, <1>3 DEF SearchInv

LEMMA KeepSearchKeeps ==
  ASSUME SearchInv, NEW h \in Handlers, KeepSearch(h)
  PROVE  SearchInv'
<1>1. /\ h \in InFlight /\ request[h].op = "search" /\ DOMAIN request' = Handlers
      /\ history' = history \cup {request[h].row} /\ popular' = popular
      /\ \A g \in Handlers \ {h} : request'[g] = request[g]
      /\ request'[h] = Null
  BY DEF KeepSearch, Doing, End, GoOn, InFlight, SearchInv
<1>2. \A t \in Terms : CountedFor(t)' \subseteq CountedFor(t)
  BY <1>1 DEF CountedFor, InFlight
<1> QED  BY <1>1, <1>2, NoneCounted

LEMMA ListsStepKeeps == SearchInv /\ [ListsNext]_<<requestVars, listVars>> => SearchInv'
<1> SUFFICES ASSUME SearchInv, [ListsNext]_<<requestVars, listVars>> PROVE SearchInv'
  OBVIOUS
<1>1. ASSUME NEW h \in Handlers, NEW x \in Pairs, BeginAddWish(h, x) \/ BeginRemoveWish(h, x)
      PROVE  SearchInv'
  <2> DEFINE a == [op |-> "addWish", on |-> {x}, pair |-> x]
             b == [op |-> "removeWish", on |-> {x}, pair |-> x, row |-> wish[x]]
  <2>1. a.op # "search" /\ b.op # "search"
    OBVIOUS
  <2>2. /\ UNCHANGED <<popular, history>>
        /\ request' = [request EXCEPT ![h] = a] \/ request' = [request EXCEPT ![h] = b]
    BY <1>1 DEF BeginAddWish, BeginRemoveWish, Begin, listVars
  <2> HIDE DEF a, b
  <2> QED  BY <2>1, <2>2, RequestsNotCounted DEF SearchInv
<1>2. ASSUME NEW h \in Handlers, AddWish(h) \/ RemoveWish(h) \/ (Abandon(h) /\ UNCHANGED listVars)
      PROVE  SearchInv'
  <2>1. UNCHANGED <<popular, history>> /\ request' = [request EXCEPT ![h] = Null]
    BY <1>2 DEF AddWish, RemoveWish, Abandon, End, GoOn, listVars
  <2> QED  BY <2>1, RequestsNotCounted DEF SearchInv
<1>3. ASSUME UNCHANGED <<request, popular>>, history' \subseteq history
      PROVE  SearchInv'
  <2>1. \A t \in Terms : CountedFor(t)' \subseteq CountedFor(t)
    BY <1>3 DEF CountedFor, InFlight
  <2> QED  BY <1>3, <2>1, NoneCounted DEF SearchInv
<1>4. ASSUME \/ \E p \in Wares : ToggleShown(p)
             \/ \E u \in Shoppers : ClearRecent(u)
             \/ \E x \in history : DeleteRecent(x)
             \/ UNCHANGED <<requestVars, listVars>>
      PROVE  SearchInv'
  <2>1. UNCHANGED <<request, popular>> /\ history' \subseteq history
    BY <1>4 DEF ToggleShown, ClearRecent, DeleteRecent, requestVars, listVars
  <2> QED  BY <1>3, <2>1
<1> QED  BY <1>1, <1>2, <1>4, CountSearchKeeps, KeepSearchKeeps DEF ListsNext

\* No term is in the searches of more shoppers than it has been counted for:
\* SearchService.record counts first, and a request lost between the count and
\* the shopper's row leaves a count too many, never one too few.
THEOREM SearchesAlwaysCounted == ListsSpec => []SearchesCounted
<1>1. ListsInit /\ RequestsInit => SearchInv
  <2> SUFFICES ASSUME ListsInit, RequestsInit PROVE SearchInv
    OBVIOUS
  <2>1. \A t \in Terms : CountedFor(t) = {}
    BY DEF ListsInit, RequestsInit, CountedFor, InFlight
  <2>2. IsFiniteSet({}) /\ Cardinality({}) = 0
    BY FS_EmptySet
  <2>3. \A t \in Terms : popular[t] = 0
    BY DEF ListsInit
  <2>4. popular \in [Terms -> Nat] /\ DOMAIN request = Handlers
    BY DEF ListsInit, RequestsInit
  <2> QED  BY <2>1, <2>2, <2>3, <2>4 DEF SearchInv
<1>2. SearchInv => SearchesCounted
  <2> SUFFICES ASSUME SearchInv, NEW t \in Terms
               PROVE  Cardinality({u \in Shoppers : <<u, t>> \in history}) <= popular[t]
    BY DEF SearchesCounted
  <2> DEFINE S == CountedFor(t)
             T == {u \in Shoppers : <<u, t>> \in history}
  <2>1. IsFiniteSet(S) /\ Cardinality(S) <= popular[t] /\ popular[t] \in Nat /\ T \subseteq S
    BY DEF SearchInv, CountedFor
  <2>2. Cardinality(T) <= Cardinality(S) /\ Cardinality(T) \in Nat /\ Cardinality(S) \in Nat
    BY <2>1, FS_Subset, FS_CardinalityType
  <2> HIDE DEF S
  <2> QED  BY <2>1, <2>2
<1> QED  BY <1>1, <1>2, ListsStepKeeps, PTL DEF ListsSpec
=============================================================================
