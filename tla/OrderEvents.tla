------------------------------ MODULE OrderEvents ------------------------------
(* What happens beside an order: its number, counted in Redis, and what     *)
(* its customer and the staff are told of it (orders.service.ts with        *)
(* notifications.service.ts and admin-realtime.service.ts). The jobs that   *)
(* tell them start after a commit, nobody awaits them, and they are lost    *)
(* with the process.                                                        *)
EXTENDS Requests, Sequences, SequencesExt

CONSTANTS
  Tracked,      \* orders
  MaxVersions,  \* bound: how often an order is written
  MaxNumber     \* bound: how many numbers are drawn in a day

VARIABLES
  version,  \* order -> how often it has been written; 0: not placed
  counter,  \* the day's counter in Redis
  numbers,  \* the numbers that orders have
  jobs,     \* what is yet to be told: [order, kind, version], Null: to be read
  told,     \* order -> the versions its customer was notified of, in order
  board,    \* order -> the version the staff's dashboards last received
  missed,   \* history: the jobs that failed or were lost, as they started
  late,     \* history: orders whose dashboards received an older row later
  forgot    \* history: Redis has lost the counter

eventVars == <<version, counter, numbers, jobs, told, board, missed, late, forgot>>

ASSUME EventAssumption == Null \notin Nat

EventsInit ==
  /\ version = [o \in Tracked |-> 0]
  /\ counter = 0 /\ numbers = {} /\ forgot = FALSE
  /\ jobs = {} /\ missed = {} /\ late = {}
  /\ told = [o \in Tracked |-> << >>]
  /\ board = [o \in Tracked |-> 0]

\* Faulty: the dashboards told what the handler had read.
AnnounceRead(o) ==
  LET v == version[o] + 1 IN
  /\ version' = [version EXCEPT ![o] = v]
  /\ jobs' = jobs \cup {[order |-> o, kind |-> "notify", of |-> v, version |-> v],
                        [order |-> o, kind |-> "emit", of |-> v, version |-> version[o]]}

\* The notification carries the status that was written; the dashboards get
\* the row as it is when the job reads it.
Announce(o) ==
  LET v == version[o] + 1 IN
  /\ version' = [version EXCEPT ![o] = v]
  /\ jobs' = jobs \cup {[order |-> o, kind |-> "notify", of |-> v, version |-> v],
                        [order |-> o, kind |-> "emit", of |-> v, version |-> Null]}

\* Faulty: a number one beyond the last order's.
NextNumberOfOrders(h) ==
  /\ counter < MaxNumber
  /\ counter' = Cardinality(numbers) + 1
  /\ Begin(h, [op |-> "number", on |-> {}, number |-> Cardinality(numbers) + 1])
  /\ UNCHANGED <<version, numbers, jobs, told, board, missed, late, forgot>>

NextOrderNumber(h) ==
  /\ counter < MaxNumber
  /\ counter' = counter + 1
  /\ Begin(h, [op |-> "number", on |-> {}, number |-> counter + 1])
  /\ UNCHANGED <<version, numbers, jobs, told, board, missed, late, forgot>>

PlaceNumbered(h, o) ==
  /\ Doing(h, "number")
  /\ version[o] = 0
  /\ request[h].number \notin numbers
  /\ numbers' = numbers \cup {request[h].number}
  /\ Announce(o)
  /\ End(h)
  /\ UNCHANGED <<counter, told, board, missed, late, forgot>>

\* The number of an order is unique; and what else may refuse it comes after
\* the number was drawn.
RefuseNumbered(h) ==
  /\ Doing(h, "number")
  /\ End(h)
  /\ UNCHANGED eventVars

ChangeOrder(o) ==
  /\ version[o] \in 1..(MaxVersions - 1)
  /\ Announce(o)
  /\ UNCHANGED <<requestVars, counter, numbers, told, board, missed, late, forgot>>

Done(j) == jobs' = jobs \ {j}
BesideJobs == UNCHANGED <<requestVars, version, counter, numbers, forgot>>

\* A row for the customer; what the push does is not waited for.
NotifyOrderStatus(j) ==
  /\ j.kind = "notify"
  /\ told' = [told EXCEPT ![j.order] = Append(@, j.version)]
  /\ Done(j)
  /\ BesideJobs /\ UNCHANGED <<board, missed, late>>

LoadAdminListRow(j) ==
  /\ j.kind = "emit" /\ j.version = Null
  /\ jobs' = (jobs \ {j}) \cup {[j EXCEPT !.version = version[j.order]]}
  /\ BesideJobs /\ UNCHANGED <<told, board, missed, late>>

EmitAdminOrder(j) ==
  /\ j.kind = "emit" /\ j.version # Null
  /\ board' = [board EXCEPT ![j.order] = j.version]
  /\ late' = IF j.version < board[j.order] THEN late \cup {j.order} ELSE late
  /\ Done(j)
  /\ BesideJobs /\ UNCHANGED <<told, missed>>

\* A warning is logged.
JobFails(j) ==
  /\ Done(j)
  /\ missed' = missed \cup {<<j.order, j.kind, j.of>>}
  /\ BesideJobs /\ UNCHANGED <<told, board, late>>

Crash ==
  /\ jobs' = {}
  /\ missed' = missed \cup {<<j.order, j.kind, j.of>> : j \in jobs}
  /\ request' = [h \in Handlers |-> Null]
  /\ UNCHANGED <<overlapped, version, counter, numbers, told, board, late, forgot>>

RedisLosesCounter ==
  /\ counter' = 0
  /\ forgot' = TRUE
  /\ UNCHANGED <<requestVars, version, numbers, jobs, told, board, missed, late>>

EventsNext ==
  \/ \E h \in Handlers :
       NextOrderNumber(h) \/ RefuseNumbered(h) \/ \E o \in Tracked : PlaceNumbered(h, o)
  \/ \E o \in Tracked : ChangeOrder(o)
  \/ \E j \in jobs :
       NotifyOrderStatus(j) \/ LoadAdminListRow(j) \/ EmitAdminOrder(j) \/ JobFails(j)
  \/ Crash \/ RedisLosesCounter

EventsSpec == EventsInit /\ RequestsInit /\ [][EventsNext]_<<requestVars, eventVars>>

-----------------------------------------------------------------------------
(* Properties. *)

Pending(o, kind) == {j \in jobs : j.order = o /\ j.kind = kind}

\* The customer is told of every change of an order exactly once, in whatever
\* order, unless the job was lost; and of none that was not committed.
\* The dashboards show the order as it is, unless a job is yet to tell them,
\* one was lost, or two crossed: each reads the row after the commit.
ToldAsCommitted ==
  \A o \in Tracked :
    /\ \A v \in 1..version[o] :
         Cardinality({n \in DOMAIN told[o] : told[o][n] = v})
           + Cardinality({j \in Pending(o, "notify") : j.of = v})
           + Cardinality({x \in missed : x = <<o, "notify", v>>}) = 1
    /\ ToSet(told[o]) \subseteq 1..version[o]
    /\ \/ board[o] = version[o]
       \/ Pending(o, "emit") # {} \/ o \in late
       \/ \E v \in 1..version[o] : <<o, "emit", v>> \in missed

\* A number that was drawn is free, and no two requests hold the same, as
\* long as Redis keeps the counter.
NumbersFresh ==
  LET drawing == {h \in InFlight : request[h].op = "number"} IN
  forgot \/ \A h \in drawing :
    /\ request[h].number \notin numbers
    /\ \A g \in drawing \ {h} : request[g].number # request[h].number
=============================================================================
