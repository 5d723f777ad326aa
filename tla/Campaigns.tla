------------------------------ MODULE Campaigns ------------------------------
(* Campaigns (campaigns.service.ts): their terms, which are read, checked   *)
(* and written; the tracking of impressions and clicks, whose transactions  *)
(* take the rows of the campaigns one at a time; and the order in which the *)
(* ones that match a visitor are shown.                                     *)
EXTENDS Requests, FiniteSetsExt, SequencesExt

LOCAL Relations == INSTANCE Relation

CONSTANT CampaignIds

ASSUME CampaignAssumption == IsFiniteSet(CampaignIds)

VARIABLES
  campaign,  \* campaign -> row or Null
  events     \* campaign -> event rows, by type

campaignVars == <<campaign, events>>

EventType == {"IMPRESSION", "CLICK"}
None == [t \in EventType |-> 0]

CampaignsInit ==
  /\ campaign = [c \in CampaignIds |-> Null]
  /\ events = [c \in CampaignIds |-> None]

LiveCampaigns == {c \in CampaignIds : campaign[c] # Null /\ ~campaign[c].deleted}

-----------------------------------------------------------------------------
(* Terms: dates, cart amounts, how often, and where a click leads. *)

Pinned == {"OFFER", "CATEGORY", "PRODUCT", "COUPON"}

\* Faulty: destinations kept as they were given.
NormalizeNothing(d) == d

\* What the type of destination does not ask for is dropped.
NormalizeDestination(d) ==
  [type |-> d.type,
   id |-> IF d.type \in Pinned THEN d.id ELSE Null,
   url |-> IF d.type = "EXTERNAL_URL" THEN d.url ELSE Null,
   route |-> IF d.type = "INTERNAL_ROUTE" THEN d.route ELSE Null]
Destination(terms) == [f \in {"type", "id", "url", "route"} |-> terms[f]]

\* ... and what it asks for is there.
Complete(d) ==
  /\ d.type \in Pinned => d.id # Null
  /\ d.type = "EXTERNAL_URL" => d.url # Null
  /\ d.type = "INTERNAL_ROUTE" => d.route # Null

Sound(terms) ==
  /\ terms.from < terms.to
  /\ terms.often = "DISMISS_HOURS" => terms.hours # Null
  /\ terms.minCart # Null /\ terms.maxCart # Null => terms.minCart <= terms.maxCart

NewRow(terms) ==
  Over(NormalizeDestination(Destination(terms)), Over([counts |-> None, deleted |-> FALSE], terms))

CreateCampaign(c, terms) ==
  /\ campaign[c] = Null
  /\ Sound(terms) /\ Complete(Destination(terms))
  /\ campaign' = [campaign EXCEPT ![c] = NewRow(terms)]
  /\ UNCHANGED <<requestVars, events>>

BeginUpdateCampaign(h, c, change) ==
  LET merged == Over(change, campaign[c])
      led == NormalizeDestination(Destination(merged)) IN
  /\ c \in LiveCampaigns
  /\ Sound(merged) /\ Complete(led)
  /\ Begin(h, [op |-> "terms", on |-> {c}, campaign |-> c,
               write |-> IF DOMAIN change \cap DOMAIN led # {} THEN Over(led, change) ELSE change])
  /\ UNCHANGED campaignVars

-----------------------------------------------------------------------------
(* Tracking. A bulk request has added its event rows and takes the rows of  *)
(* the campaigns in the order that the client gave: impressions, then       *)
(* clicks. What it did is seen when it commits.                             *)

\* A row somebody has updated is his until his transaction ends.
Holder(c) == {g \in InFlight : request[g].op = "bulk" /\ c \in request[g].held}
Free(c) == Holder(c) = {}
Next1(h) == Head(request[h].todo)

\* A campaign of an unknown id fails the request on its foreign key.
BeginBulk(h, impressions, clicks) ==
  LET rows(ids, type) == [n \in DOMAIN ids |-> [campaign |-> ids[n], type |-> type]] IN
  /\ impressions \o clicks # << >>
  /\ \A c \in ToSet(impressions \o clicks) : campaign[c] # Null
  /\ Begin(h, [op |-> "bulk", on |-> {}, held |-> {}, counted |-> {},
               added |-> rows(impressions, "IMPRESSION") \o rows(clicks, "CLICK"),
               todo |-> rows(impressions, "IMPRESSION") \o rows(clicks, "CLICK")])
  /\ UNCHANGED campaignVars

\* Faulty: the counters written as soon as they are counted.
CountNextAtOnce(h) ==
  LET r == request[h] IN
  /\ Doing(h, "bulk") /\ r.todo # << >>
  /\ GoOn(h, [r EXCEPT !.todo = Tail(@)])
  /\ campaign' = [campaign EXCEPT ![Next1(h).campaign].counts[Next1(h).type] = @ + 1]
  /\ UNCHANGED events

\* Faulty: a row that updateMany did not find is tried again.
CountNextUntilFound(h) ==
  LET r == request[h] IN
  /\ Doing(h, "bulk") /\ r.todo # << >>
  /\ Holder(Next1(h).campaign) \subseteq {h}
  /\ GoOn(h, IF Next1(h).campaign \notin LiveCampaigns THEN r ELSE
       [r EXCEPT !.todo = Tail(@),
                 !.held = @ \cup {Next1(h).campaign},
                 !.counted = @ \cup {Next1(h)}])
  /\ UNCHANGED campaignVars

\* updateMany leaves a deleted campaign alone.
CountNext(h) ==
  LET r == request[h] IN
  /\ Doing(h, "bulk") /\ r.todo # << >>
  /\ Holder(Next1(h).campaign) \subseteq {h}
  /\ GoOn(h, [r EXCEPT
       !.todo = Tail(@),
       !.held = IF Next1(h).campaign \in LiveCampaigns THEN @ \cup {Next1(h).campaign} ELSE @,
       !.counted = IF Next1(h).campaign \in LiveCampaigns THEN @ \cup {Next1(h)} ELSE @])
  /\ UNCHANGED campaignVars

Tally(rows, c, type) == Cardinality({x \in rows : x.campaign = c /\ x.type = type})

CommitBulk(h) ==
  LET r == request[h] IN
  /\ Doing(h, "bulk") /\ r.todo = << >>
  /\ events' = [c \in CampaignIds |->
       [t \in EventType |-> events[c][t] + Tally(ToSet(r.added), c, t)]]
  /\ campaign' = [c \in CampaignIds |-> IF c \notin r.held THEN campaign[c] ELSE
       [campaign[c] EXCEPT !.counts = [t \in EventType |-> @[t] + Tally(r.counted, c, t)]]]
  /\ End(h)

\* The detector rolls back a transaction of a cycle of waiters.
WaitsFor == [h, g \in Handlers |->
  /\ Doing(h, "bulk") /\ request[h].todo # << >>
  /\ g \in Holder(Next1(h).campaign) \ {h}]

WaitsForItself(h) == Relations!TransitiveClosure(WaitsFor, Handlers)[h, h]

Deadlocked(h) ==
  /\ WaitsForItself(h)
  /\ End(h)
  /\ UNCHANGED campaignVars

\* One event: its row and the counter, in one transaction on one row.
BeginTrack(h, c, type) ==
  /\ c \in LiveCampaigns
  /\ Begin(h, [op |-> "track", on |-> {}, campaign |-> c, type |-> type])
  /\ UNCHANGED campaignVars

TrackEvent(h) ==
  LET r == request[h] IN
  /\ Doing(h, "track") /\ Free(r.campaign)
  /\ events' = [events EXCEPT ![r.campaign][r.type] = @ + 1]
  /\ campaign' = [campaign EXCEPT ![r.campaign].counts[r.type] = @ + 1]
  /\ End(h)

WriteTerms(h) ==
  LET r == request[h] IN
  /\ Doing(h, "terms") /\ Free(r.campaign)
  /\ campaign' = [campaign EXCEPT ![r.campaign] = Over(r.write, @)]
  /\ End(h)
  /\ UNCHANGED events

DeleteCampaign(c) ==
  /\ c \in LiveCampaigns /\ Free(c)
  /\ campaign' = [campaign EXCEPT ![c].deleted = TRUE]
  /\ UNCHANGED <<requestVars, events>>

CampaignsNext(terms, changes, bulks, tracked) ==
  \/ \E c \in CampaignIds :
       \/ \E t \in terms : CreateCampaign(c, t)
       \/ DeleteCampaign(c)
       \/ \E h \in Handlers :
            \/ \E change \in changes : BeginUpdateCampaign(h, c, change)
            \/ \E type \in EventType : c \in tracked /\ BeginTrack(h, c, type)
  \/ \E h \in Handlers :
       \/ \E b \in bulks :
            /\ ToSet(b.shown \o b.clicked) \subseteq tracked
            /\ BeginBulk(h, b.shown, b.clicked)
       \/ CountNext(h) \/ CommitBulk(h) \/ Deadlocked(h) \/ TrackEvent(h) \/ WriteTerms(h)
       \/ (Abandon(h) /\ UNCHANGED campaignVars)

CampaignsSpec(terms, changes, bulks) ==
  /\ CampaignsInit /\ RequestsInit
  /\ [][CampaignsNext(terms, changes, bulks, CampaignIds)]_<<requestVars, campaignVars>>

-----------------------------------------------------------------------------
(* What is shown: of the campaigns that match, in the order of the rotation.*)

\* `q` is the visitor: signed in or not, what he looks at, his cart's amount,
\* and where the campaigns are to be shown. `cap` bounds the events of a type.
Matches(row, q) ==
  /\ \A t \in EventType : row.cap[t] # Null => row.counts[t] < row.cap[t]
  /\ row.audience = "GUEST_ONLY" => ~q.signedIn
  /\ row.audience = "LOGGED_IN_ONLY" => q.signedIn
  /\ row.targets # {} => q.at \in row.targets
  /\ row.minCart # Null \/ row.maxCart # Null => q.amount # Null
  /\ row.minCart # Null => q.amount >= row.minCart
  /\ row.maxCart # Null => q.amount <= row.maxCart

Matching(day, q) ==
  {c \in LiveCampaigns : /\ campaign[c].active
                         /\ campaign[c].from <= day /\ day <= campaign[c].to
                         /\ q.placement # Null => q.placement \in campaign[c].placements
                         /\ Matches(campaign[c], q)}

\* Any campaign that rotates decides for all of them.
RotationMode(found) ==
  LET other == SelectSeq(found, LAMBDA c : campaign[c].mode # "PRIORITY") IN
  campaign[Head(IF other = << >> THEN found ELSE other)].mode

Swap(s, i, j) == [s EXCEPT ![i] = s[j], ![j] = s[i]]

\* Faulty: the shuffle that swaps with any position.
PicksAny(n) == [1..n -> 1..n]

\* shuffle: from the last position to the first, each changes places with one
\* of 1..k; pick[k] is the one.
Picks(n) == {f \in [1..n -> 1..n] : \A k \in 1..n : f[k] <= k}
Shuffle(found, pick) ==
  LET n == Len(found)
      swapped[m \in 0..n] ==  \* after m swaps
        IF m = 0 THEN found ELSE Swap(swapped[m - 1], n + 1 - m, pick[n + 1 - m]) IN
  swapped[n]

\* weightedShuffle: the tickets are drawn from the weights; half a ticket
\* stands for what lies between two whole numbers. Who comes first:
Share(c) == Max({1, campaign[c].weight})
Shares(s) == SumFunction([n \in DOMAIN s |-> Share(s[n])])
Drawn(found, ticket) ==
  found[Min({n \in DOMAIN found : 2 * Shares(SubSeq(found, 1, n)) >= 2 * ticket + 1})]

-----------------------------------------------------------------------------
(* Properties. *)

\* A campaign's counters are the number of its event rows as long as it is
\* not deleted: whatever overlaps, deadlocks or is lost, the row of an event
\* and the counter are written by one transaction (a bulk request still adds
\* the row, and counts nothing, for a campaign that is deleted).
EventsCounted ==
  \A c \in LiveCampaigns : campaign[c].counts = events[c]

\* Every request that tracks is answered, though two of them may take the
\* campaigns in opposite orders.
TrackEnds ==
  \A h \in Handlers : Doing(h, "bulk") ~> ~Doing(h, "bulk")

\* A campaign starts before it ends and its other pairs of terms agree,
\* unless two updates of it overlap; it leads exactly where its type says
\* even then, for update writes all four fields of the destination or none.
CampaignWhole ==
  \A c \in LiveCampaigns :
    LET row == campaign[c] IN
    /\ c \notin overlapped => Sound(row)
    /\ row.id # Null <=> row.type \in Pinned
    /\ row.url # Null <=> row.type = "EXTERNAL_URL"
    /\ row.route # Null <=> row.type = "INTERNAL_ROUTE"

\* Whoever matches a visitor has his share of the rotation: a shuffle gives
\* every order from exactly one choice of picks, and a draw gives a campaign
\* as many tickets as its weight, or one.
RotationFair ==
  \A q \in [signedIn : BOOLEAN, at : {Null}, amount : {Null, 1}, placement : {Null, "HOME"}] :
    LET found == SetToSeq(Matching(1, q)) IN
    found # << >> =>
      /\ RotationMode(found) = "RANDOM" =>
           /\ {Shuffle(found, p) : p \in Picks(Len(found))} = SetToSeqs(ToSet(found))
           /\ Cardinality(Picks(Len(found))) = Cardinality(SetToSeqs(ToSet(found)))
      /\ RotationMode(found) = "WEIGHT" =>
           \A c \in ToSet(found) :
             Cardinality({k \in 0..(Shares(found) - 1) : Drawn(found, k) = c}) = Share(c)
=============================================================================
