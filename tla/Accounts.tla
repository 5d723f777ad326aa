------------------------------- MODULE Accounts -------------------------------
(* Who an account is, and what hangs on it: registration, Google sign-in,   *)
(* profile, avatar and push devices (auth.service.ts, users.service.ts).    *)
EXTENDS Requests

CONSTANTS
  AccountIds,  \* the accounts that may ever be created
  Emails,    \* e-mail addresses (a phone number is treated alike)
  Subs,      \* Google accounts
  Devices,   \* push tokens
  Files      \* the avatar files that may ever be uploaded

AccountRow == [email : Emails \cup {Null}, sub : Subs \cup {Null}, avatar : Files \cup {Null}]

AvatarCleared == [op : {"avatarCleared"}, on : SUBSET AccountIds, user : AccountIds,
                  file : Files, previous : Files \cup {Null}]

ASSUME AccountAssumption == Null \notin AccountRow \cup AvatarCleared \cup Files

VARIABLES
  account,     \* user -> row [email, sub, avatar], or Null
  device,      \* push token -> [user, live], or Null
  files,       \* the files on disk
  changedTo,   \* history: user -> the e-mail its owner last asked for
  registered,  \* history: push token -> who last registered it, or Null
  halfway      \* history: users whose last avatar request was lost in the middle

accountVars == <<account, device, files, changedTo, registered, halfway>>

AccountsInit ==
  /\ account = [u \in AccountIds |-> Null]
  /\ device = [d \in Devices |-> Null]
  /\ files = {}
  /\ changedTo = [u \in AccountIds |-> Null]
  /\ registered = [d \in Devices |-> Null]
  /\ halfway = {}

Known == {u \in AccountIds : account[u] # Null}

\* The unique keys on e-mail and Google subject, which compare no nulls.
Unique(rows) ==
  \A u, v \in AccountIds :
    rows[u] # Null /\ rows[v] # Null /\ u # v
    => /\ rows[u].email # Null => rows[u].email # rows[v].email
       /\ rows[u].sub # Null => rows[u].sub # rows[v].sub

\* A write of one row, refused by the keys when another has the values.
WriteAccount(u, row) ==
  /\ Unique([account EXCEPT ![u] = row])
  /\ account' = [account EXCEPT ![u] = row]

NewAccount(e, s) == [email |-> e, sub |-> s, avatar |-> Null]

-----------------------------------------------------------------------------
(* Registering, and signing in with Google. *)
BeginRegister(h, e) ==
  /\ \A u \in Known : account[u].email # e
  /\ Begin(h, [op |-> "register", on |-> {}, email |-> e])
  /\ UNCHANGED accountVars

Register(h, u) ==
  LET e == request[h].email IN
  /\ Doing(h, "register")
  /\ account[u] = Null
  /\ WriteAccount(u, NewAccount(e, Null))
  /\ changedTo' = [changedTo EXCEPT ![u] = e]
  /\ End(h)
  /\ UNCHANGED <<device, files, registered, halfway>>

\* The account with the Google subject or with its e-mail, either of them if
\* there are two; none means a new one.
BeginGoogle(h, s, e) ==
  LET match == {u \in Known : account[u].sub = s \/ (e # Null /\ account[u].email = e)} IN
  /\ \/ /\ match = {}
        /\ Begin(h, [op |-> "googleNew", on |-> {}, sub |-> s, email |-> e])
     \/ \E u \in match :
          Begin(h, [op |-> "googleLink", on |-> {u}, user |-> u, sub |-> s,
                    email |-> e, seen |-> account[u]])
  /\ UNCHANGED accountVars

GoogleNew(h, u) ==
  LET r == request[h] IN
  /\ Doing(h, "googleNew")
  /\ account[u] = Null
  /\ WriteAccount(u, NewAccount(r.email, r.sub))
  /\ changedTo' = [changedTo EXCEPT ![u] = r.email]
  /\ End(h)
  /\ UNCHANGED <<device, files, registered, halfway>>

\* Faulty: Google's e-mail over the one the account has.
GoogleOverwrite(h) ==
  LET r == request[h] IN
  /\ Doing(h, "googleLink")
  /\ WriteAccount(r.user, [account[r.user] EXCEPT !.sub = r.sub, !.email = r.email])
  /\ changedTo' = [changedTo EXCEPT ![r.user] = IF @ = Null THEN r.email ELSE @]
  /\ End(h)
  /\ UNCHANGED <<device, files, registered, halfway>>

\* What was read is written back, and filled in where it was empty.
GoogleLink(h) ==
  LET r == request[h]
      filled(seen, new) == IF seen = Null THEN new ELSE seen IN
  /\ Doing(h, "googleLink")
  /\ WriteAccount(r.user, [account[r.user] EXCEPT
                             !.sub = filled(r.seen.sub, r.sub),
                             !.email = filled(r.seen.email, r.email)])
  /\ changedTo' = [changedTo EXCEPT ![r.user] = filled(@, r.email)]
  /\ End(h)
  /\ UNCHANGED <<device, files, registered, halfway>>

-----------------------------------------------------------------------------
(* The profile, the avatar, the devices. *)
BeginUpdateMe(h, u, e) ==
  /\ u \in Known
  /\ e # Null => \A v \in Known \ {u} : account[v].email # e
  /\ Begin(h, [op |-> "updateMe", on |-> {u}, user |-> u, email |-> e])
  /\ UNCHANGED accountVars

UpdateMe(h) ==
  LET r == request[h] IN
  /\ Doing(h, "updateMe")
  /\ WriteAccount(r.user, [account[r.user] EXCEPT !.email = r.email])
  /\ changedTo' = [changedTo EXCEPT ![r.user] = r.email]
  /\ End(h)
  /\ UNCHANGED <<device, files, registered, halfway>>

\* File names are random: one that anything still names is not made again.
Fresh(f) ==
  /\ f \notin files
  /\ \A u \in Known : account[u].avatar # f
  /\ \A h \in InFlight :
       {"file", "previous"} \subseteq DOMAIN request[h]
       => f \notin {request[h].file, request[h].previous}

\* The file is saved before the row is read.
SaveAvatar(h, u, f) ==
  /\ u \in Known
  /\ Fresh(f)
  /\ files' = files \cup {f}
  /\ Begin(h, [op |-> "avatarSaved", on |-> {u}, user |-> u, file |-> f])
  /\ UNCHANGED <<account, device, changedTo, registered, halfway>>

\* setAvatar reads the row, deletes the file it names, or fails to and goes on,
ReadPrevious(h) ==
  LET r == request[h] IN
  /\ Doing(h, "avatarSaved")
  /\ GoOn(h, [op |-> "avatarRead", on |-> r.on, user |-> r.user, file |-> r.file,
              previous |-> account[r.user].avatar])
  /\ UNCHANGED accountVars

\* Faulty: the new file is deleted in place of the previous one.
DeleteSaved(h) ==
  LET r == request[h] IN
  /\ Doing(h, "avatarRead")
  /\ files' = files \ {r.file}
  /\ GoOn(h, [r EXCEPT !.op = "avatarCleared"])
  /\ UNCHANGED <<account, device, changedTo, registered, halfway>>

DeletePrevious(h) ==
  LET r == request[h] IN
  /\ Doing(h, "avatarRead")
  /\ files' \in {files, files \ {r.previous}}
  /\ GoOn(h, [r EXCEPT !.op = "avatarCleared"])
  /\ UNCHANGED <<account, device, changedTo, registered, halfway>>

\* and then writes the row.
WriteAvatar(h) ==
  LET r == request[h] IN
  /\ Doing(h, "avatarCleared")
  /\ account' = [account EXCEPT ![r.user].avatar = r.file]
  /\ halfway' = halfway \ {r.user}
  /\ End(h)
  /\ UNCHANGED <<device, files, changedTo, registered>>

\* Faulty: a registration that leaves the device with the account that has it.
RegisterKeepingUser(u, d) ==
  /\ u \in Known
  /\ device' = [device EXCEPT ![d] = IF @ = Null THEN [user |-> u, live |-> TRUE]
                                    ELSE [@ EXCEPT !.live = TRUE]]
  /\ registered' = [registered EXCEPT ![d] = u]
  /\ UNCHANGED <<request, overlapped, account, files, changedTo, halfway>>

\* One upsert by the push token: the device goes to whoever registers it.
RegisterDevice(u, d) ==
  /\ u \in Known
  /\ device' = [device EXCEPT ![d] = [user |-> u, live |-> TRUE]]
  /\ registered' = [registered EXCEPT ![d] = u]
  /\ overlapped' = overlapped \cup ({d} \cap UNION {request[h].on : h \in InFlight})
  /\ UNCHANGED <<request, account, files, changedTo, halfway>>

BeginRemoveDevice(h, u, d) ==
  /\ device[d] = [user |-> u, live |-> TRUE]
  /\ Begin(h, [op |-> "removeDevice", on |-> {d}, user |-> u, device |-> d])
  /\ UNCHANGED accountVars

RemoveDevice(h) ==
  LET r == request[h] IN
  /\ Doing(h, "removeDevice")
  /\ device' = [device EXCEPT ![r.device].live = FALSE]
  /\ registered' = [registered EXCEPT ![r.device] = IF @ = r.user THEN Null ELSE @]
  /\ End(h)
  /\ UNCHANGED <<account, files, changedTo, halfway>>

AbandonAccount(h) ==
  /\ Abandon(h)
  /\ halfway' = IF Doing(h, "avatarCleared") THEN halfway \cup {request[h].user}
                ELSE halfway
  /\ UNCHANGED <<account, device, files, changedTo, registered>>

IdentityNext ==
  \E h \in Handlers :
    \/ \E e \in Emails : BeginRegister(h, e)
    \/ \E s \in Subs : \E e \in Emails \cup {Null} : BeginGoogle(h, s, e)
    \/ \E u \in AccountIds :
         \/ Register(h, u) \/ GoogleNew(h, u)
         \/ \E e \in Emails \cup {Null} : BeginUpdateMe(h, u, e)
    \/ GoogleLink(h) \/ UpdateMe(h) \/ AbandonAccount(h)

ProfileNext ==
  \E h \in Handlers :
    \/ \E e \in Emails : BeginRegister(h, e)
    \/ \E u \in AccountIds :
         \/ Register(h, u)
         \/ \E f \in Files : SaveAvatar(h, u, f)
         \/ \E d \in Devices : RegisterDevice(u, d) \/ BeginRemoveDevice(h, u, d)
    \/ ReadPrevious(h) \/ DeletePrevious(h) \/ WriteAvatar(h) \/ RemoveDevice(h)
    \/ AbandonAccount(h)

AccountsNext == IdentityNext \/ ProfileNext

AccountsSpec == AccountsInit /\ RequestsInit /\ [][AccountsNext]_<<requestVars, accountVars>>

-----------------------------------------------------------------------------
(* Properties. *)

\* An account keeps the e-mail its owner last gave it, unless two requests
\* write it at once (AuthService.google writes back the e-mail it read).
ProfileKept ==
  \A u \in Known : account[u].email = changedTo[u] \/ u \in overlapped

\* The avatar an account shows is on disk, however its uploads overlap: unless
\* one is about to write the row, or was lost before it could and none has
\* written it since.
AvatarServed ==
  \A u \in Known :
    \/ account[u].avatar \in files \cup {Null}
    \/ u \in halfway
    \/ \E h \in InFlight : Doing(h, "avatarCleared") /\ request[h].user = u

\* What a customer has put on the profile is there.
ProfileServed == ProfileKept /\ AvatarServed

\* A device is reached under the account that registered it last, unless an
\* account's removal of it overlaps with that registration.
DeviceReached ==
  \A d \in Devices :
    registered[d] # Null
    => device[d] = [user |-> registered[d], live |-> TRUE] \/ d \in overlapped
=============================================================================
