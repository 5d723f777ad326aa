------------------------------- MODULE Sessions -------------------------------
(* Refresh tokens and password resets: auth.service.ts, with the account    *)
(* status that admin-customers.service.ts writes. That a token or a reset   *)
(* token expires only refuses it: it is a request that is not made.         *)
EXTENDS Requests

CONSTANTS
  Users,
  Tokens,        \* the refresh tokens that may ever be issued
  MaxPasswords   \* bound on the password resets of an account

AccountStatus == {"ACTIVE", "SUSPENDED"}
TokenRow == [user : Users, revoked : BOOLEAN, next : Tokens \cup {Null}]

ASSUME SessionAssumption == Null \notin TokenRow /\ Users \cap Tokens = {}

VARIABLES
  status,      \* user -> AccountStatus
  password,    \* user -> version of the password hash
  resetToken,  \* user -> number of the reset token that works, or Null
  resets,      \* user -> reset tokens issued so far
  token,       \* refresh token -> its row, or Null
  opened,      \* history: token -> [root, password]: the login its session
               \* began with, and the password that login gave
  late         \* history: roots of the sessions that were issued a token by a
               \* request that a password reset overtook

sessionVars == <<status, password, resetToken, resets, token, opened, late>>

SessionsInit ==
  /\ status = [u \in Users |-> "ACTIVE"]
  /\ password = [u \in Users |-> 0]
  /\ resetToken = [u \in Users |-> Null]
  /\ resets = [u \in Users |-> 0]
  /\ token = [t \in Tokens |-> Null]
  /\ opened = [t \in Tokens |-> Null]
  /\ late = {}

Live(t) == token[t] # Null /\ ~token[t].revoked
NewRow(u) == [user |-> u, revoked |-> FALSE, next |-> Null]

\* `row` with every live token of u revoked (updateMany).
AllRevoked(row, u) ==
  [t \in Tokens |-> IF row[t] # Null /\ row[t].user = u
                    THEN [row[t] EXCEPT !.revoked = TRUE] ELSE row[t]]

Straddles(r) == password[r.user] # r.password

-----------------------------------------------------------------------------
(* Logging in, with a password or with Google: the check and, once the hash *)
(* has been compared, the new row.                                          *)
BeginLogin(h, u) ==
  /\ status[u] = "ACTIVE"
  /\ Begin(h, [op |-> "login", on |-> {}, user |-> u, password |-> password[u]])
  /\ UNCHANGED sessionVars

IssueLogin(h, n) ==
  LET r == request[h] IN
  /\ Doing(h, "login")
  /\ token[n] = Null
  /\ token' = [token EXCEPT ![n] = NewRow(r.user)]
  /\ opened' = [opened EXCEPT ![n] = [root |-> n, password |-> r.password]]
  /\ late' = IF Straddles(r) THEN late \cup {n} ELSE late
  /\ End(h)
  /\ UNCHANGED <<status, password, resetToken, resets>>

(* Refreshing: a token found revoked has been used before, and every token  *)
(* of the user goes; a live one of an active user is to be rotated.         *)
BeginRefresh(h, t) ==
  LET u == token[t].user IN
  /\ token[t] # Null
  /\ \/ /\ token[t].revoked
        /\ Begin(h, [op |-> "revokeAll", on |-> {t}, user |-> u])
     \/ /\ Live(t)
        /\ status[u] = "ACTIVE"
        /\ Begin(h, [op |-> "rotate", on |-> {t}, user |-> u, token |-> t,
                     password |-> password[u]])
  /\ UNCHANGED sessionVars

\* Faulty: rotation that leaves the old token live.
RotateKeepingOld(h, n) ==
  LET r == request[h] IN
  /\ Doing(h, "rotate")
  /\ token[n] = Null
  /\ token' = [token EXCEPT ![n] = NewRow(r.user), ![r.token].next = n]
  /\ opened' = [opened EXCEPT ![n] = opened[r.token]]
  /\ late' = late
  /\ End(h)
  /\ UNCHANGED <<status, password, resetToken, resets>>

\* The transaction: the successor, and the old row by id, whatever it holds.
Rotate(h, n) ==
  LET r == request[h] IN
  /\ Doing(h, "rotate")
  /\ token[n] = Null
  /\ token' = [token EXCEPT ![n] = NewRow(r.user),
                            ![r.token].revoked = TRUE,
                            ![r.token].next = n]
  /\ opened' = [opened EXCEPT ![n] = opened[r.token]]
  /\ late' = IF Straddles(r) THEN late \cup {opened[r.token].root} ELSE late
  /\ End(h)
  /\ UNCHANGED <<status, password, resetToken, resets>>

RevokeAll(h) ==
  /\ Doing(h, "revokeAll")
  /\ token' = AllRevoked(token, request[h].user)
  /\ End(h)
  /\ UNCHANGED <<status, password, resetToken, resets, opened, late>>

BeginLogout(h, t) ==
  /\ Live(t)
  /\ Begin(h, [op |-> "logout", on |-> {t}, token |-> t])
  /\ UNCHANGED sessionVars

Logout(h) ==
  /\ Doing(h, "logout")
  /\ token' = [token EXCEPT ![request[h].token].revoked = TRUE]
  /\ End(h)
  /\ UNCHANGED <<status, password, resetToken, resets, opened, late>>

-----------------------------------------------------------------------------
(* Resetting the password. *)
ForgotPassword(u) ==
  /\ status[u] = "ACTIVE"
  /\ resets[u] < MaxPasswords
  /\ resets' = [resets EXCEPT ![u] = @ + 1]
  /\ resetToken' = [resetToken EXCEPT ![u] = resets[u] + 1]
  /\ UNCHANGED <<requestVars, status, password, token, opened, late>>

BeginReset(h, u) ==
  /\ resetToken[u] # Null
  /\ Begin(h, [op |-> "reset", on |-> {u}, user |-> u])
  /\ UNCHANGED sessionVars

\* Faulty: a reset that leaves the sessions open.
ResetKeepingSessions(h) ==
  LET u == request[h].user IN
  /\ Doing(h, "reset")
  /\ password' = [password EXCEPT ![u] = @ + 1]
  /\ resetToken' = [resetToken EXCEPT ![u] = Null]
  /\ End(h)
  /\ UNCHANGED <<status, token, resets, opened, late>>

ResetPassword(h) ==
  LET u == request[h].user IN
  /\ Doing(h, "reset")
  /\ password' = [password EXCEPT ![u] = @ + 1]
  /\ resetToken' = [resetToken EXCEPT ![u] = Null]
  /\ token' = AllRevoked(token, u)
  /\ End(h)
  /\ UNCHANGED <<status, resets, opened, late>>

-----------------------------------------------------------------------------
(* Staff suspend an account and take it back. *)
UpdateStatus(u, s) ==
  /\ status' = [status EXCEPT ![u] = s]
  /\ UNCHANGED <<requestVars, password, resetToken, resets, token, opened, late>>

SessionsNext ==
  \/ \E h \in Handlers :
       \/ \E u \in Users : BeginLogin(h, u) \/ BeginReset(h, u)
       \/ \E t \in Tokens : BeginRefresh(h, t) \/ BeginLogout(h, t)
       \/ \E n \in Tokens : IssueLogin(h, n) \/ Rotate(h, n)
       \/ RevokeAll(h) \/ Logout(h) \/ ResetPassword(h)
       \/ Abandon(h) /\ UNCHANGED sessionVars
  \/ \E u \in Users :
       ForgotPassword(u) \/ \E s \in AccountStatus : UpdateStatus(u, s)

SessionsSpec == SessionsInit /\ RequestsInit /\ [][SessionsNext]_<<requestVars, sessionVars>>

-----------------------------------------------------------------------------
(* Properties. *)

Root(t) == opened[t].root

\* A session has one live refresh token at the most, whatever other sessions,
\* resets and suspensions do, as long as none of its tokens is in two requests
\* at once (AuthService.refresh looks at a token outside the transaction that
\* replaces it).
OneLivePerSession ==
  \A t, v \in Tokens :
    /\ Live(t) /\ Live(v) /\ Root(t) = Root(v)
    /\ \A x \in overlapped \cap Tokens : Root(x) # Root(t)
    => t = v

\* A password reset ends every session opened with an earlier password, but
\* one that a request in flight gave a new token after it (AuthService.
\* resetPassword revokes the tokens there are).
ResetsEndSessions ==
  \A t \in Tokens :
    Live(t) => \/ opened[t].password = password[token[t].user]
               \/ Root(t) \in late
=============================================================================
