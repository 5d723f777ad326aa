------------------------------- MODULE Reviews -------------------------------
(* Reviews of what was bought and the rating of a product                   *)
(* (reviews.service.ts). A request reads the review, and its transaction    *)
(* writes the row, aggregates the public reviews of the product, as it sees *)
(* them, and writes the product's rating. A review is known by its order    *)
(* item, which has one at the most; what it says is told by its rating.     *)
EXTENDS Requests, Functions

CONSTANTS
  Purchases,  \* order items of completed orders
  Reviewed,   \* products
  Stars       \* ratings

ReviewOps == {"create", "update", "delete", "restore", "approve", "reject", "hide", "show"}
ReviewRow ==
  [rating : Stars, status : {"PENDING", "APPROVED", "REJECTED"}, visible : BOOLEAN,
   deleted : BOOLEAN, vetted : BOOLEAN]
Rating == [count : Nat, sum : Int]
ReviewRequest ==
  [op : ReviewOps \cup {"commit"}, on : SUBSET Purchases, product : Reviewed,
   stars : Stars \cup {Null}, first : BOOLEAN, recomputes : BOOLEAN, alone : BOOLEAN,
   row : ReviewRow \cup {Null}, result : Rating \cup {Null}]

ASSUME ReviewAssumption ==
  /\ IsFiniteSet(Purchases) /\ IsFiniteSet(Stars) /\ Stars \subseteq Int
  /\ Null \notin ReviewRow \cup ReviewRequest \cup Rating

VARIABLES
  review,   \* order item -> row or Null; `vetted` (history): as it was approved
  bought,   \* order item -> product
  rating,   \* product -> [count, sum], as stored
  blurred   \* history: products whose last rating came of overlapping requests

reviewVars == <<review, bought, rating, blurred>>

ReviewsInit ==
  /\ review = [i \in Purchases |-> Null]
  /\ bought \in [Purchases -> Reviewed]
  /\ rating = [p \in Reviewed |-> [count |-> 0, sum |-> 0]]
  /\ blurred = {}

Written(r) == r # Null /\ ~r.deleted
Public(r) == Written(r) /\ r.status = "APPROVED" /\ r.visible

\* recomputeProductRating over `rows`.
Aggregate(rows, p) ==
  LET shown == {i \in Purchases : bought[i] = p /\ Public(rows[i])} IN
  [count |-> Cardinality(shown), sum |-> SumFunctionOnSet([i \in shown |-> rows[i].rating], shown)]

\* What each operation asks of the review that it read, and
Allowed(op, r) ==
  CASE op = "create" -> ~Written(r)
    [] op = "restore" -> r # Null /\ r.deleted
    [] op = "show" -> Written(r) /\ r.status = "APPROVED"
    [] op = "approve" -> Written(r) /\ ~Public(r)
    [] op \in {"update", "delete", "reject", "hide"} -> Written(r)

\* Faulty: an edit that leaves an approved review approved.
WaitingIfRejected(r) == IF r.status = "REJECTED" THEN [r EXCEPT !.status = "PENDING"] ELSE r

Waiting(r) == [r EXCEPT !.status = "PENDING", !.visible = FALSE]
Unread(r) == [r EXCEPT !.vetted = FALSE]

\* what it makes of the row that it writes: `stars` are those it brings, or
\* those that the one who approves has read.
Edited(op, r, stars) ==
  CASE op = "create" -> [rating |-> stars, status |-> "PENDING", visible |-> FALSE,
                         deleted |-> FALSE, vetted |-> FALSE]
    [] op = "update" -> [Unread(Waiting(r)) EXCEPT !.rating = stars]
    [] op = "restore" -> [Unread(Waiting(r)) EXCEPT !.deleted = FALSE]
    [] op = "delete" -> [r EXCEPT !.deleted = TRUE, !.visible = FALSE]
    [] op = "approve" -> [r EXCEPT !.status = "APPROVED", !.visible = TRUE, !.vetted = r.rating = stars]
    [] op = "reject" -> [Unread(r) EXCEPT !.status = "REJECTED", !.visible = FALSE]
    [] op = "hide" -> [r EXCEPT !.visible = FALSE]
    [] op = "show" -> [r EXCEPT !.visible = TRUE]

\* Faulty: no recount for a review that a customer deletes or edits.
RecomputesForStaff(op, r) ==
  CASE op \in {"create", "update", "delete"} -> FALSE
    [] OTHER -> TRUE

\* A new review waits for moderation and counts for nothing yet; an edit
\* matters to the rating if the review was public.
Recomputes(op, r) ==
  CASE op = "create" -> r # Null
    [] op = "update" -> Public(r)
    [] OTHER -> TRUE

BeginReview(h, op, i, stars) ==
  LET near == {g \in InFlight : request[g].product = bought[i]} IN
  /\ request[h] = Null
  /\ Allowed(op, review[i])
  /\ request' = [g \in Handlers |->
       IF g = h THEN [op |-> op, on |-> {i}, product |-> bought[i], stars |-> stars,
                      first |-> review[i] = Null, recomputes |-> Recomputes(op, review[i]),
                      alone |-> near = {}, row |-> Null, result |-> Null]
       ELSE IF g \in near THEN [request[g] EXCEPT !.alone = FALSE] ELSE request[g]]
  /\ overlapped' = overlapped \cup UNION {{i} \cap request[g].on : g \in InFlight}
  /\ UNCHANGED reviewVars

\* The row is written, held until the commit, and counted with what others
\* have committed. A second insert for an order item breaks its unique key.
WriteReview(h, i) ==
  LET r == request[h]
      row == Edited(r.op, review[i], r.stars) IN
  /\ request[h] # Null /\ r.on = {i} /\ r.row = Null
  /\ \A g \in InFlight : i \in request[g].on => request[g].row = Null
  /\ r.first => review[i] = Null
  /\ GoOn(h, [r EXCEPT !.op = "commit", !.stars = Null, !.first = FALSE, !.row = row,
                       !.result = IF r.recomputes
                                  THEN Aggregate([review EXCEPT ![i] = row], r.product)
                                  ELSE rating[r.product]])
  /\ UNCHANGED reviewVars

CommitReview(h, i) ==
  LET r == request[h] IN
  /\ request[h] # Null /\ r.on = {i} /\ r.row # Null
  /\ review' = [review EXCEPT ![i] = r.row]
  /\ rating' = IF r.recomputes THEN [rating EXCEPT ![r.product] = r.result] ELSE rating
  /\ blurred' = IF r.alone THEN (IF r.recomputes THEN blurred \ {r.product} ELSE blurred)
                ELSE blurred \cup {r.product}
  /\ End(h)
  /\ UNCHANGED bought

ReviewsNext(items, given) ==
  \E h \in Handlers :
    \/ \E i \in items :
         \/ \E op \in {"create", "update"}, stars \in given : BeginReview(h, op, i, stars)
         \/ Written(review[i]) /\ BeginReview(h, "approve", i, review[i].rating)
         \/ \E op \in {"delete", "reject", "hide", "show", "restore"} :
              BeginReview(h, op, i, Null)
         \/ WriteReview(h, i) \/ CommitReview(h, i)
    \/ (Abandon(h) /\ UNCHANGED reviewVars)

ReviewsSpec ==
  /\ ReviewsInit /\ RequestsInit
  /\ [][ReviewsNext(Purchases, Stars)]_<<requestVars, reviewVars>>

\* publicStats: how many public reviews give each rating.
Histogram(p) ==
  [s \in Stars |->
     Cardinality({i \in Purchases : bought[i] = p /\ Public(review[i]) /\ review[i].rating = s})]

-----------------------------------------------------------------------------
(* Properties. *)

\* A product's rating and its count are those of its public reviews, and its
\* histogram adds up to the count, unless requests on its reviews overlapped
\* when they were computed: under READ COMMITTED neither counts what the
\* other has not committed. The next one that is alone puts it right.
RatingExact ==
  \A p \in Reviewed \ blurred :
    /\ rating[p] = Aggregate(review, p)
    /\ SumFunctionOnSet(Histogram(p), Stars) = rating[p].count

\* "Approved reviews return to moderation after customer edits": what the
\* public reads is what staff approved, unless two requests on the review
\* overlap.
OnlyVetted ==
  \A i \in Purchases \ overlapped :
    Public(review[i]) => review[i].vetted
=============================================================================
