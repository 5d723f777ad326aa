---------------------------- MODULE ServicesProofs ----------------------------
(***************************************************************************)
(* What is proved of the other services: campaigns and offers, which staff *)
(* edit side by side; reviews and ratings; the numbers of orders and what  *)
(* is told of them; the amounts of an order; the reports on orders; the    *)
(* scripts. Each for any number of rows and of requests at once.           *)
(***************************************************************************)
EXTENDS Promotions, OrderEvents, Reviews, Totals, Reports, Scripts, Sums, SequenceTheorems

-----------------------------------------------------------------------------
(* The counters of the campaigns, for any terms, changes and bulk requests: *)
(* campaigns.service.ts.                                                    *)

Event == [campaign : CampaignIds, type : EventType]
Bulk == [op : {"bulk"}, on : {{}}, held : SUBSET CampaignIds, counted : SUBSET Event,
         added : Seq(Event), todo : Seq(Event)]
Existing == {c \in CampaignIds : campaign[c] # Null}

\* What a change of terms may not name: the counters and the mark of deletion.
Reserved == {"counts", "deleted"}

BulkOK(r) ==
  /\ r \in Bulk
  /\ \A x \in ToSet(r.added) : x.campaign \in Existing
  /\ \A x \in r.counted : x.campaign \in r.held /\ x \in ToSet(r.added)
  /\ r.held \subseteq Existing
  /\ \A x \in ToSet(r.todo) : x \in ToSet(r.added)
  /\ \A x \in ToSet(r.added) : x.campaign \in LiveCampaigns => x \in r.counted \/ x \in ToSet(r.todo)

TrackOK(r) == r.campaign \in Existing /\ r.type \in EventType
TermsOK(r) == r.campaign \in Existing /\ DOMAIN r.write \cap Reserved = {}

RequestOK(r) ==
  /\ r.op = "bulk" => BulkOK(r)
  /\ r.op = "track" => TrackOK(r)
  /\ r.op = "terms" => TermsOK(r)

RowOK(row) == Reserved \subseteq DOMAIN row /\ row = [f \in DOMAIN row |-> row[f]]

ShapeOK ==
  /\ DOMAIN request = Handlers
  /\ DOMAIN campaign = CampaignIds
  /\ events \in [CampaignIds -> [EventType -> Nat]]
  /\ \A c \in CampaignIds : campaign[c] = Null => events[c] = None
  /\ \A c \in Existing : RowOK(campaign[c])
  /\ \A h \in InFlight : RequestOK(request[h])

IInv == ShapeOK /\ EventsCounted

-----------------------------------------------------------------------------
(* Sequences and tallies.                                                   *)
LEMMA ToSetFacts ==
  ASSUME NEW S, NEW s \in Seq(S)
  PROVE  /\ ToSet(s) \subseteq S
         /\ IsFiniteSet(ToSet(s))
         /\ s = << >> => ToSet(s) = {}
         /\ s # << >> => /\ Head(s) \in ToSet(s)
                         /\ Tail(s) \in Seq(S)
                         /\ ToSet(Tail(s)) \subseteq ToSet(s)
                         /\ \A x \in ToSet(s) : x = Head(s) \/ x \in ToSet(Tail(s))
<1>1. DOMAIN s = 1..Len(s) /\ Len(s) \in Nat /\ s \in [1..Len(s) -> S]
  OBVIOUS
<1>2. ToSet(s) \subseteq S
  BY <1>1 DEF ToSet
<1>3. IsFiniteSet(ToSet(s))
  <2>1. s \in Surjection(1..Len(s), ToSet(s))
    BY <1>1 DEF Surjection, ToSet
  <2>2. IsFiniteSet(1..Len(s))
    BY <1>1, FS_Interval
  <2> QED  BY <2>1, <2>2, FS_Surjection
<1>4. s = << >> => ToSet(s) = {}
  BY DEF ToSet
<1>5. ASSUME s # << >>
      PROVE  /\ Head(s) \in ToSet(s) /\ Tail(s) \in Seq(S)
             /\ ToSet(Tail(s)) \subseteq ToSet(s)
             /\ \A x \in ToSet(s) : x = Head(s) \/ x \in ToSet(Tail(s))
  <2>1. Len(s) >= 1 /\ Head(s) = s[1] /\ Tail(s) \in Seq(S) /\ Len(Tail(s)) = Len(s) - 1
        /\ \A i \in 1..(Len(s) - 1) : Tail(s)[i] = s[i + 1]
    BY <1>1, <1>5
  <2>2. DOMAIN Tail(s) = 1..(Len(s) - 1)
    BY <2>1
  <2>3. ASSUME NEW i \in 1..Len(s), i # 1
        PROVE  s[i] \in ToSet(Tail(s))
    <3>1. (i - 1) \in 1..(Len(s) - 1) /\ s[i] = Tail(s)[i - 1]
      BY <1>1, <2>1, <2>3
    <3> QED  BY <2>2, <3>1 DEF ToSet
  <2>4. \A i \in 1..(Len(s) - 1) : i + 1 \in 1..Len(s)
    BY <1>1
  <2> QED  BY <1>1, <2>1, <2>2, <2>3, <2>4 DEF ToSet
<1> QED  BY <1>2, <1>3, <1>4, <1>5

LEMMA TallyFacts ==
  ASSUME NEW A, NEW B, NEW c, NEW type, IsFiniteSet(A)
  PROVE  /\ Tally(A, c, type) \in Nat
         /\ (\A x \in A : x.campaign # c) => Tally(A, c, type) = 0
         /\ (\A x : x.campaign = c => (x \in A <=> x \in B)) => Tally(A, c, type) = Tally(B, c, type)
<1> DEFINE of(X) == {x \in X : x.campaign = c /\ x.type = type}
<1>1. of(A) \in SUBSET A
  OBVIOUS
<1>2. IsFiniteSet(of(A))
  BY <1>1, FS_Subset
<1>3. Cardinality(of(A)) \in Nat
  BY <1>2, FS_CardinalityType
<1>4. ASSUME \A x \in A : x.campaign # c PROVE Cardinality(of(A)) = 0
  <2>1. of(A) = {}
    BY <1>4
  <2> QED  BY <2>1, FS_EmptySet
<1>5. ASSUME \A x : x.campaign = c => (x \in A <=> x \in B) PROVE of(A) = of(B)
  BY <1>5
<1> QED  BY <1>3, <1>4, <1>5 DEF Tally

-----------------------------------------------------------------------------
(* The steps that leave the rows of the campaigns alone.                    *)
LEMMA RequestsKeep ==
  ASSUME IInv, NEW h \in Handlers, UNCHANGED campaignVars, DOMAIN request' = Handlers,
         \A g \in Handlers \ {h} : request'[g] = request[g],
         request'[h] = Null \/ RequestOK(request'[h])
  PROVE  IInv'
<1>1. UNCHANGED <<campaign, events>>
  BY DEF campaignVars
<1>2. /\ Existing' = Existing /\ LiveCampaigns' = LiveCampaigns
      /\ \A r : RequestOK(r)' = RequestOK(r)
  BY <1>1 DEF Existing, LiveCampaigns, RequestOK, BulkOK, TrackOK, TermsOK
<1>3. ShapeOK'
  BY <1>1, <1>2 DEF IInv, ShapeOK, InFlight
<1>4. EventsCounted'
  BY <1>1, <1>2 DEF IInv, EventsCounted
<1> QED  BY <1>3, <1>4 DEF IInv

LEMMA BeginKeeps ==
  ASSUME IInv, NEW h \in Handlers, NEW r, Begin(h, r), RequestOK(r), UNCHANGED campaignVars
  PROVE  IInv'
BY RequestsKeep DEF Begin, IInv, ShapeOK

LEMMA GoOnKeeps ==
  ASSUME IInv, NEW h \in Handlers, NEW r, GoOn(h, r), r = Null \/ RequestOK(r),
         UNCHANGED campaignVars
  PROVE  IInv'
BY RequestsKeep DEF GoOn, IInv, ShapeOK

LEMMA BeginBulkKeeps ==
  ASSUME IInv, NEW h \in Handlers, NEW shown \in Seq(CampaignIds), NEW clicked \in Seq(CampaignIds),
         BeginBulk(h, shown, clicked)
  PROVE  IInv'
<1> DEFINE rows(ids, type) == [n \in DOMAIN ids |-> [campaign |-> ids[n], type |-> type]]
           added == rows(shown, "IMPRESSION") \o rows(clicked, "CLICK")
           r == [op |-> "bulk", on |-> {}, held |-> {}, counted |-> {}, added |-> added, todo |-> added]
<1>1. ASSUME NEW ids \in Seq(CampaignIds), NEW type \in EventType
      PROVE  rows(ids, type) \in Seq(Event)
  <2>1. DOMAIN ids = 1..Len(ids) /\ Len(ids) \in Nat /\ ids \in [1..Len(ids) -> CampaignIds]
    OBVIOUS
  <2>2. rows(ids, type) \in [1..Len(ids) -> Event]
    BY <2>1 DEF Event
  <2> QED  BY <2>1, <2>2
<1>2. /\ rows(shown, "IMPRESSION") \in Seq(Event) /\ rows(clicked, "CLICK") \in Seq(Event)
      /\ added \in Seq(Event)
  <2>1. rows(shown, "IMPRESSION") \in Seq(Event) /\ rows(clicked, "CLICK") \in Seq(Event)
    BY <1>1 DEF EventType
  <2> HIDE DEF rows
  <2> QED  BY <2>1
<1>3. \A c \in ToSet(shown \o clicked) : campaign[c] # Null
  BY DEF BeginBulk
<1>4. \A x \in ToSet(added) : x.campaign \in ToSet(shown \o clicked)
  <2>1. /\ DOMAIN shown = 1..Len(shown) /\ DOMAIN clicked = 1..Len(clicked)
        /\ Len(shown) \in Nat /\ Len(clicked) \in Nat
        /\ Len(rows(shown, "IMPRESSION")) = Len(shown) /\ Len(rows(clicked, "CLICK")) = Len(clicked)
    BY <1>2
  <2>2. /\ Len(added) = Len(shown) + Len(clicked)
        /\ Len(shown \o clicked) = Len(shown) + Len(clicked)
        /\ DOMAIN added = 1..Len(added)
        /\ DOMAIN (shown \o clicked) = 1..Len(added)
    BY <1>2, <2>1
  <2>3. ASSUME NEW i \in 1..Len(added)
        PROVE  added[i].campaign = (shown \o clicked)[i]
    <3>1. CASE i <= Len(shown)
      <4>1. added[i] = rows(shown, "IMPRESSION")[i] /\ (shown \o clicked)[i] = shown[i]
        BY <1>2, <2>1, <2>2, <3>1
      <4> QED  BY <2>1, <2>2, <3>1, <4>1
    <3>2. CASE i > Len(shown)
      <4>1. /\ i - Len(shown) \in 1..Len(clicked)
            /\ added[i] = rows(clicked, "CLICK")[i - Len(shown)]
            /\ (shown \o clicked)[i] = clicked[i - Len(shown)]
        BY <1>2, <2>1, <2>2, <3>2
      <4> QED  BY <2>1, <2>2, <3>2, <4>1
    <3> QED  BY <2>1, <2>2, <3>1, <3>2
  <2> HIDE DEF added
  <2> QED  BY <2>2, <2>3 DEF ToSet
<1>5. r.op = "bulk" /\ BulkOK(r)
  <2>1. r \in Bulk
    BY <1>2 DEF Bulk
  <2> HIDE DEF added
  <2>2. ToSet(added) \subseteq Event
    BY <1>2, ToSetFacts
  <2>3. \A x \in ToSet(added) : x.campaign \in Existing
    BY <1>3, <1>4, <2>2 DEF Existing, Event
  <2> QED  BY <2>1, <2>3 DEF BulkOK
<1>6. Begin(h, r) /\ UNCHANGED campaignVars
  BY DEF BeginBulk
<1> HIDE DEF r
<1> QED  BY <1>5, <1>6, BeginKeeps DEF RequestOK

LEMMA CountNextKeeps ==
  ASSUME IInv, NEW h \in Handlers, CountNext(h)
  PROVE  IInv'
<1> DEFINE r == request[h]
           x == Head(r.todo)
           live == x.campaign \in LiveCampaigns
           q == [r EXCEPT !.todo = Tail(@),
                          !.held = IF live THEN @ \cup {x.campaign} ELSE @,
                          !.counted = IF live THEN @ \cup {x} ELSE @]
<1>1. r.op = "bulk" /\ BulkOK(r) /\ r \in Bulk /\ r.todo # << >>
  BY DEF CountNext, Doing, IInv, ShapeOK, InFlight, RequestOK, BulkOK
<1>2. /\ r.todo \in Seq(Event) /\ r.added \in Seq(Event) /\ r.held \subseteq CampaignIds
      /\ r.counted \subseteq Event
  BY <1>1 DEF Bulk
<1>3. /\ x \in ToSet(r.todo) /\ Tail(r.todo) \in Seq(Event) /\ ToSet(Tail(r.todo)) \subseteq ToSet(r.todo)
      /\ \A y \in ToSet(r.todo) : y = x \/ y \in ToSet(Tail(r.todo))
      /\ x \in Event
  BY <1>1, <1>2, ToSetFacts
<1>4. x.campaign \in CampaignIds /\ x.campaign \in Existing
  BY <1>1, <1>3 DEF Event, BulkOK
<1>5. /\ q \in Bulk
      /\ q.op = "bulk" /\ q.todo = Tail(r.todo) /\ q.added = r.added
      /\ q.held = IF live THEN r.held \cup {x.campaign} ELSE r.held
      /\ q.counted = IF live THEN r.counted \cup {x} ELSE r.counted
  BY <1>1, <1>2, <1>3, <1>4 DEF Bulk
<1>6. GoOn(h, q) /\ UNCHANGED campaignVars
  BY DEF CountNext, Next1
<1> HIDE DEF q
<1>7. BulkOK(q)
  BY <1>1, <1>3, <1>4, <1>5 DEF BulkOK
<1> QED  BY <1>5, <1>6, <1>7, GoOnKeeps DEF RequestOK

-----------------------------------------------------------------------------
(* The steps that write the rows.                                           *)

\* A campaign that was there stays, and one that was deleted stays so.
RowsStay ==
  /\ DOMAIN campaign' = CampaignIds
  /\ \A c \in Existing : campaign'[c] # Null
  /\ \A c \in Existing : c \in LiveCampaigns' => c \in LiveCampaigns

\* A request is answered, or none is.
RequestsEnd ==
  /\ DOMAIN request' = Handlers
  /\ \A g \in Handlers : request'[g] \in {Null, request[g]}

\* A row is told from none.
NullIsNoRow == \A row : RowOK(row) => row # Null

LEMMA RequestsStayOK ==
  ASSUME ShapeOK, RowsStay, NEW r, RequestOK(r)
  PROVE  RequestOK(r)'
<1>1. Existing \subseteq Existing'
  BY DEF Existing, RowsStay
<1>2. ASSUME TrackOK(r) PROVE TrackOK(r)'
  BY <1>1, <1>2 DEF TrackOK
<1>3. ASSUME TermsOK(r) PROVE TermsOK(r)'
  BY <1>1, <1>3 DEF TermsOK
<1>4. ASSUME BulkOK(r) PROVE BulkOK(r)'
  BY <1>1, <1>4 DEF BulkOK, RowsStay
<1> QED  BY <1>2, <1>3, <1>4 DEF RequestOK

\* A row with a field replaced, or joined with a change of its terms.
LEMMA RowFacts ==
  ASSUME NEW row, RowOK(row)
  PROVE  /\ \A n : /\ RowOK([row EXCEPT !.counts = n])
                   /\ [row EXCEPT !.counts = n].counts = n
                   /\ [row EXCEPT !.counts = n].deleted = row.deleted
         /\ \A w : DOMAIN w \cap Reserved = {} =>
              /\ RowOK(Over(w, row))
              /\ Over(w, row).counts = row.counts
              /\ Over(w, row).deleted = row.deleted
<1>1. ASSUME NEW n
      PROVE  /\ RowOK([row EXCEPT !.counts = n])
             /\ [row EXCEPT !.counts = n].counts = n
             /\ [row EXCEPT !.counts = n].deleted = row.deleted
  BY DEF RowOK, Reserved
<1>2. ASSUME NEW w, DOMAIN w \cap Reserved = {}
      PROVE  /\ RowOK(Over(w, row))
             /\ Over(w, row).counts = row.counts
             /\ Over(w, row).deleted = row.deleted
  BY <1>2 DEF RowOK, Reserved, Over
<1> QED  BY <1>1, <1>2

LEMMA StepOfRows ==
  ASSUME IInv, RowsStay, RequestsEnd,
         events' \in [CampaignIds -> [EventType -> Nat]],
         \A c \in CampaignIds : campaign'[c] = Null => events'[c] = None,
         \A c \in CampaignIds : campaign'[c] # Null => RowOK(campaign'[c]),
         \A c \in CampaignIds : campaign'[c] # Null /\ ~campaign'[c].deleted
            => campaign'[c].counts = events'[c]
  PROVE  IInv'
<1>1. /\ DOMAIN request' = Handlers
      /\ \A g \in Handlers : request'[g] \in {Null, request[g]}
  BY DEF RequestsEnd
<1>2. ASSUME NEW r, NEW g \in Handlers, r # Null, r = request'[g]
      PROVE  RequestOK(r)'
  <2>1. RequestOK(r)
    BY <1>1, <1>2 DEF IInv, ShapeOK, InFlight
  <2> QED  BY <2>1, RequestsStayOK DEF IInv
<1>3. \A g \in InFlight' : RequestOK(request[g])'
  BY <1>2 DEF InFlight
<1>4. ShapeOK'
  BY <1>1, <1>3 DEF ShapeOK, RowsStay, Existing
<1>5. EventsCounted'
  BY DEF EventsCounted, LiveCampaigns
<1> QED  BY <1>4, <1>5 DEF IInv

LEMMA EndIsEnd ==
  ASSUME IInv
  PROVE  /\ \A h \in Handlers : End(h) => RequestsEnd
         /\ UNCHANGED requestVars => RequestsEnd
BY DEF End, GoOn, RequestsEnd, IInv, ShapeOK, requestVars

LEMMA CommitBulkKeeps ==
  ASSUME IInv, NullIsNoRow, NEW h \in Handlers, CommitBulk(h)
  PROVE  IInv'
<1> DEFINE r == request[h]
           plus(c) == [campaign[c] EXCEPT !.counts = [t \in EventType |-> @[t] + Tally(r.counted, c, t)]]
<1>1. BulkOK(r) /\ r \in Bulk /\ r.todo = << >>
  BY DEF CommitBulk, Doing, IInv, ShapeOK, InFlight, RequestOK, BulkOK
<1>2. /\ IsFiniteSet(ToSet(r.added)) /\ ToSet(r.added) \subseteq Event
      /\ ToSet(r.todo) = {}
  BY <1>1, ToSetFacts DEF Bulk
<1>3. IsFiniteSet(r.counted)
  BY <1>1, <1>2, FS_Subset DEF BulkOK
<1>4. /\ events' = [c \in CampaignIds |->
           [t \in EventType |-> events[c][t] + Tally(ToSet(r.added), c, t)]]
      /\ campaign' = [c \in CampaignIds |-> IF c \notin r.held THEN campaign[c] ELSE plus(c)]
      /\ End(h)
  BY DEF CommitBulk
<1>5. ASSUME NEW c \in r.held
      PROVE  /\ c \in Existing /\ RowOK(campaign[c])
             /\ RowOK(plus(c)) /\ plus(c).deleted = campaign[c].deleted /\ plus(c) # Null
             /\ plus(c).counts = [t \in EventType |-> campaign[c].counts[t] + Tally(r.counted, c, t)]
  <2>1. c \in Existing /\ RowOK(campaign[c])
    BY <1>1 DEF BulkOK, IInv, ShapeOK
  <2>2. /\ RowOK(plus(c)) /\ plus(c).deleted = campaign[c].deleted
        /\ plus(c).counts = [t \in EventType |-> campaign[c].counts[t] + Tally(r.counted, c, t)]
    BY <2>1, RowFacts
  <2> HIDE DEF plus
  <2> QED  BY <2>1, <2>2 DEF NullIsNoRow
<1> HIDE DEF plus
<1>6. RowsStay
  BY <1>4, <1>5 DEF RowsStay, Existing, LiveCampaigns
<1>7. \A c \in CampaignIds, t \in EventType : Tally(ToSet(r.added), c, t) \in Nat
  BY <1>2, TallyFacts
<1>8. events' \in [CampaignIds -> [EventType -> Nat]]
  BY <1>4, <1>7 DEF IInv, ShapeOK
<1>9. ASSUME NEW c \in CampaignIds, campaign'[c] = Null
      PROVE  events'[c] = None
  <2>1. c \notin r.held /\ campaign[c] = Null /\ events[c] = None
    BY <1>4, <1>5, <1>9 DEF IInv, ShapeOK
  <2>2. \A x \in ToSet(r.added) : x.campaign # c
    BY <1>1, <2>1 DEF BulkOK, Existing
  <2>3. \A t \in EventType : Tally(ToSet(r.added), c, t) = 0
    BY <1>2, <2>2, TallyFacts
  <2> QED  BY <1>4, <2>1, <2>3 DEF None
<1>10. ASSUME NEW c \in CampaignIds, campaign'[c] # Null
       PROVE  RowOK(campaign'[c])
  BY <1>4, <1>5, <1>10 DEF IInv, ShapeOK, Existing
<1>11. ASSUME NEW c \in CampaignIds, campaign'[c] # Null, ~campaign'[c].deleted
       PROVE  campaign'[c].counts = events'[c]
  <2>1. c \in LiveCampaigns /\ campaign[c].counts = events[c] /\ events[c] \in [EventType -> Nat]
    BY <1>4, <1>5, <1>11 DEF LiveCampaigns, Existing, IInv, ShapeOK, EventsCounted
  <2>2. \A x : x.campaign = c => (x \in ToSet(r.added) <=> x \in r.counted)
    BY <1>1, <1>2, <2>1 DEF BulkOK
  <2>3. CASE c \in r.held
    <3>1. \A t \in EventType : Tally(r.counted, c, t) = Tally(ToSet(r.added), c, t)
      BY <1>2, <2>2, TallyFacts
    <3> QED  BY <1>4, <1>5, <2>1, <2>3, <3>1
  <2>4. CASE c \notin r.held
    <3>1. \A x \in ToSet(r.added) : x.campaign # c
      BY <1>1, <2>2, <2>4 DEF BulkOK
    <3>2. \A t \in EventType : Tally(ToSet(r.added), c, t) = 0
      BY <1>2, <3>1, TallyFacts
    <3> QED  BY <1>4, <2>1, <2>4, <3>2
  <2> QED  BY <2>3, <2>4
<1> QED  BY <1>4, <1>6, <1>8, <1>9, <1>10, <1>11, EndIsEnd, StepOfRows

LEMMA TrackEventKeeps ==
  ASSUME IInv, NullIsNoRow, NEW h \in Handlers, TrackEvent(h)
  PROVE  IInv'
<1> DEFINE c == request[h].campaign
           type == request[h].type
           counts == [campaign[c].counts EXCEPT ![type] = campaign[c].counts[type] + 1]
           row == [campaign[c] EXCEPT !.counts = counts]
<1>1. c \in Existing /\ c \in CampaignIds /\ type \in EventType /\ RowOK(campaign[c])
  BY DEF TrackEvent, Doing, IInv, ShapeOK, InFlight, RequestOK, TrackOK, Existing
<1>2. /\ events' = [events EXCEPT ![c] = [events[c] EXCEPT ![type] = events[c][type] + 1]]
      /\ campaign' = [campaign EXCEPT ![c] = row]
      /\ End(h)
  BY DEF TrackEvent
<1>3. /\ RowOK(row) /\ row # Null /\ row.deleted = campaign[c].deleted
      /\ row.counts = counts
  BY <1>1, RowFacts DEF NullIsNoRow
<1> HIDE DEF row, c, type
<1>4. RowsStay
  BY <1>1, <1>2, <1>3 DEF RowsStay, Existing, LiveCampaigns, IInv, ShapeOK
<1>5. events' \in [CampaignIds -> [EventType -> Nat]]
  BY <1>1, <1>2 DEF IInv, ShapeOK
<1>6. \A k \in CampaignIds : campaign'[k] = Null => events'[k] = None
  BY <1>1, <1>2, <1>3 DEF IInv, ShapeOK
<1>7. \A k \in CampaignIds : campaign'[k] # Null => RowOK(campaign'[k])
  BY <1>1, <1>2, <1>3 DEF IInv, ShapeOK, Existing
<1>8. \A k \in CampaignIds : campaign'[k] # Null /\ ~campaign'[k].deleted
         => campaign'[k].counts = events'[k]
  BY <1>1, <1>2, <1>3 DEF IInv, ShapeOK, Existing, LiveCampaigns, EventsCounted
<1> QED  BY <1>2, <1>4, <1>5, <1>6, <1>7, <1>8, EndIsEnd, StepOfRows

\* A row is replaced by one with the same counters, deleted or not.
LEMMA RowReplacedKeeps ==
  ASSUME IInv, NullIsNoRow, RequestsEnd, NEW c \in Existing, NEW row,
         RowOK(row), row.counts = campaign[c].counts,
         row.deleted = campaign[c].deleted \/ row.deleted,
         campaign' = [campaign EXCEPT ![c] = row], UNCHANGED events
  PROVE  IInv'
<1>1. c \in CampaignIds /\ row # Null
  BY DEF Existing, NullIsNoRow
<1>2. RowsStay
  BY <1>1 DEF RowsStay, Existing, LiveCampaigns, IInv, ShapeOK
<1>3. \A k \in CampaignIds : campaign'[k] = Null => events'[k] = None
  BY <1>1 DEF IInv, ShapeOK
<1>4. \A k \in CampaignIds : campaign'[k] # Null => RowOK(campaign'[k])
  BY <1>1 DEF IInv, ShapeOK, Existing
<1>5. \A k \in CampaignIds : campaign'[k] # Null /\ ~campaign'[k].deleted
         => campaign'[k].counts = events'[k]
  BY <1>1 DEF IInv, ShapeOK, Existing, LiveCampaigns, EventsCounted
<1>6. events' \in [CampaignIds -> [EventType -> Nat]]
  BY DEF IInv, ShapeOK
<1> QED  BY <1>2, <1>3, <1>4, <1>5, <1>6, StepOfRows

LEMMA WriteTermsKeeps ==
  ASSUME IInv, NullIsNoRow, NEW h \in Handlers, WriteTerms(h)
  PROVE  IInv'
<1> DEFINE c == request[h].campaign
           row == Over(request[h].write, campaign[c])
<1>1. c \in Existing /\ RowOK(campaign[c]) /\ DOMAIN request[h].write \cap Reserved = {}
  BY DEF WriteTerms, Doing, IInv, ShapeOK, InFlight, RequestOK, TermsOK
<1>2. campaign' = [campaign EXCEPT ![c] = row] /\ End(h) /\ UNCHANGED events
  BY DEF WriteTerms
<1>3. RowOK(row) /\ row.counts = campaign[c].counts /\ row.deleted = campaign[c].deleted
  BY <1>1, RowFacts
<1> HIDE DEF row, c
<1> QED  BY <1>1, <1>2, <1>3, EndIsEnd, RowReplacedKeeps

LEMMA DeleteCampaignKeeps ==
  ASSUME IInv, NullIsNoRow, NEW c \in CampaignIds, DeleteCampaign(c)
  PROVE  IInv'
<1> DEFINE row == [campaign[c] EXCEPT !.deleted = TRUE]
<1>1. c \in Existing /\ RowOK(campaign[c])
  BY DEF DeleteCampaign, LiveCampaigns, Existing, IInv, ShapeOK
<1>2. campaign' = [campaign EXCEPT ![c] = row] /\ RequestsEnd /\ UNCHANGED events
  BY EndIsEnd DEF DeleteCampaign
<1>3. RowOK(row) /\ row.counts = campaign[c].counts /\ row.deleted
  BY <1>1 DEF RowOK, Reserved
<1> HIDE DEF row
<1> QED  BY <1>1, <1>2, <1>3, RowReplacedKeeps

LEMMA NewRowFacts ==
  ASSUME NEW given
  PROVE  RowOK(NewRow(given)) /\ NewRow(given).counts = None
BY DEF NewRow, Over, RowOK, Reserved, NormalizeDestination

LEMMA CreateCampaignKeeps ==
  ASSUME IInv, NullIsNoRow, NEW c \in CampaignIds, NEW given, CreateCampaign(c, given)
  PROVE  IInv'
<1> DEFINE row == NewRow(given)
<1>1. RowOK(row) /\ row.counts = None /\ row # Null
  BY NewRowFacts DEF NullIsNoRow
<1> HIDE DEF row
<1>2. /\ campaign' = [campaign EXCEPT ![c] = row] /\ RequestsEnd /\ UNCHANGED events
      /\ campaign[c] = Null
  BY EndIsEnd DEF CreateCampaign, row
<1>3. RowsStay
  BY <1>1, <1>2 DEF RowsStay, Existing, LiveCampaigns, IInv, ShapeOK
<1>4. \A k \in CampaignIds : campaign'[k] = Null => events'[k] = None
  BY <1>1, <1>2 DEF IInv, ShapeOK
<1>5. \A k \in CampaignIds : campaign'[k] # Null => RowOK(campaign'[k])
  BY <1>1, <1>2 DEF IInv, ShapeOK, Existing
<1>6. \A k \in CampaignIds : campaign'[k] # Null /\ ~campaign'[k].deleted
         => campaign'[k].counts = events'[k]
  BY <1>1, <1>2 DEF IInv, ShapeOK, Existing, LiveCampaigns, EventsCounted
<1>7. events' \in [CampaignIds -> [EventType -> Nat]]
  BY <1>2 DEF IInv, ShapeOK
<1> QED  BY <1>2, <1>3, <1>4, <1>5, <1>6, <1>7, StepOfRows

-----------------------------------------------------------------------------
(* The specification: any terms, any changes that name no column of         *)
(* Reserved, and any bulk requests over the campaigns.                      *)
BulksOK(bulks) == \A b \in bulks : b.shown \in Seq(CampaignIds) /\ b.clicked \in Seq(CampaignIds)
ChangesOK(changes) == \A change \in changes : DOMAIN change \cap Reserved = {}

LEMMA BeginTermsKeeps ==
  ASSUME IInv, NEW h \in Handlers, NEW c \in CampaignIds, NEW change,
         DOMAIN change \cap Reserved = {}, BeginUpdateCampaign(h, c, change)
  PROVE  IInv'
<1> DEFINE led == NormalizeDestination(Destination(Over(change, campaign[c])))
           write == IF DOMAIN change \cap DOMAIN led # {} THEN Over(led, change) ELSE change
           r == [op |-> "terms", on |-> {c}, campaign |-> c, write |-> write]
<1>1. DOMAIN write \cap Reserved = {}
  BY DEF NormalizeDestination, Over, Reserved
<1>2. c \in Existing /\ Begin(h, r) /\ UNCHANGED campaignVars
  BY DEF BeginUpdateCampaign, LiveCampaigns, Existing
<1> HIDE DEF write
<1>3. RequestOK(r)
  BY <1>1, <1>2 DEF RequestOK, TermsOK
<1> HIDE DEF r
<1> QED  BY <1>2, <1>3, BeginKeeps

LEMMA BeginTrackKeeps ==
  ASSUME IInv, NEW h \in Handlers, NEW c \in CampaignIds, NEW type \in EventType,
         BeginTrack(h, c, type)
  PROVE  IInv'
<1> DEFINE r == [op |-> "track", on |-> {}, campaign |-> c, type |-> type]
<1>1. RequestOK(r) /\ Begin(h, r) /\ UNCHANGED campaignVars
  BY DEF BeginTrack, RequestOK, TrackOK, LiveCampaigns, Existing
<1> HIDE DEF r
<1> QED  BY <1>1, BeginKeeps

LEMMA EndKeeps ==
  ASSUME IInv, NEW h \in Handlers, End(h), UNCHANGED campaignVars
  PROVE  IInv'
BY GoOnKeeps DEF End

\* Every step keeps the invariant.
LEMMA StepKeeps ==
  ASSUME IInv, NullIsNoRow, NEW given, NEW changes, NEW bulks, ChangesOK(changes), BulksOK(bulks),
         [CampaignsNext(given, changes, bulks, CampaignIds)]_<<requestVars, campaignVars>>
  PROVE  IInv'
<1>1. CASE UNCHANGED <<requestVars, campaignVars>>
  BY <1>1 DEF IInv, ShapeOK, EventsCounted, LiveCampaigns, Existing, InFlight, RequestOK, BulkOK,
              TrackOK, TermsOK, requestVars, campaignVars
<1>2. ASSUME NEW c \in CampaignIds, NEW t \in given, CreateCampaign(c, t) PROVE IInv'
  BY <1>2, CreateCampaignKeeps
<1>3. ASSUME NEW c \in CampaignIds, DeleteCampaign(c) PROVE IInv'
  BY <1>3, DeleteCampaignKeeps
<1>4. ASSUME NEW c \in CampaignIds, NEW h \in Handlers, NEW change \in changes,
             BeginUpdateCampaign(h, c, change)
      PROVE  IInv'
  BY <1>4, BeginTermsKeeps DEF ChangesOK
<1>5. ASSUME NEW c \in CampaignIds, NEW h \in Handlers, NEW type \in EventType, BeginTrack(h, c, type)
      PROVE  IInv'
  BY <1>5, BeginTrackKeeps
<1>6. ASSUME NEW h \in Handlers, NEW b \in bulks, BeginBulk(h, b.shown, b.clicked) PROVE IInv'
  BY <1>6, BeginBulkKeeps DEF BulksOK
<1>7. ASSUME NEW h \in Handlers, CountNext(h) PROVE IInv'
  BY <1>7, CountNextKeeps
<1>8. ASSUME NEW h \in Handlers, CommitBulk(h) PROVE IInv'
  BY <1>8, CommitBulkKeeps
<1>9. ASSUME NEW h \in Handlers, Deadlocked(h) \/ (Abandon(h) /\ UNCHANGED campaignVars) PROVE IInv'
  BY <1>9, EndKeeps DEF Deadlocked, Abandon
<1>10. ASSUME NEW h \in Handlers, TrackEvent(h) PROVE IInv'
  BY <1>10, TrackEventKeeps
<1>11. ASSUME NEW h \in Handlers, WriteTerms(h) PROVE IInv'
  BY <1>11, WriteTermsKeeps
<1> QED  BY <1>1, <1>2, <1>3, <1>4, <1>5, <1>6, <1>7, <1>8, <1>9, <1>10, <1>11 DEF CampaignsNext

\* A campaign's counters are the number of its event rows as long as it is
\* not deleted, for any number of campaigns, of requests at once and of
\* events in a request, and whatever its terms are: a bulk request that has
\* counted a campaign holds its row until it commits both.
THEOREM EventsMatch ==
  ASSUME NullIsNoRow, NEW given, NEW changes, NEW bulks, ChangesOK(changes), BulksOK(bulks)
  PROVE  CampaignsSpec(given, changes, bulks) => []EventsCounted
<1>1. CampaignsInit /\ RequestsInit => IInv
  BY DEF CampaignsInit, RequestsInit, IInv, ShapeOK, EventsCounted, LiveCampaigns, Existing, InFlight,
         None, EventType
<1>2. IInv /\ [CampaignsNext(given, changes, bulks, CampaignIds)]_<<requestVars, campaignVars>> => IInv'
  BY StepKeeps
<1>3. IInv => EventsCounted
  BY DEF IInv
<1> QED  BY <1>1, <1>2, <1>3, PTL DEF CampaignsSpec

-----------------------------------------------------------------------------
(* Offers: offers.service.ts.                                               *)

OfferFields == {"scope", "category", "links", "discount", "from", "to", "active", "deleted"}

\* What an update names of an offer.
OfferChange == {[f \in F |-> row[f]] : F \in SUBSET OfferFields, row \in OfferRecord}

Possible(d) == d \in Reduction /\ (d.type = "PERCENTAGE" => d.value <= 100)

OfferUpdateOK(r) ==
  /\ r.offer \in OfferIds /\ r.on = {r.offer} /\ offer[r.offer] # Null
  /\ r.change \in OfferChange /\ r.scope \in {"PRODUCT", "CATEGORY"}
  /\ r.category \in Shelves \cup {Null}
  /\ "discount" \in DOMAIN r.change => Possible(r.change.discount)
  /\ r.scope = "CATEGORY" => r.category # Null
  /\ r.offer \notin overlapped =>
       LET merged == Over(r.change, offer[r.offer]) IN
       merged.from < merged.to /\ merged.scope = r.scope

OffersInv ==
  /\ DOMAIN request = Handlers
  /\ offer \in [OfferIds -> OfferRecord \cup {Null}]
  /\ price \in [Priced -> PriceRecord]
  /\ \A o \in OfferIds : offer[o] # Null => Possible(offer[o].discount)
  /\ \A h \in InFlight : request[h].op = "offer" => OfferUpdateOK(request[h])
  /\ \A g, h \in InFlight : g # h /\ request[g].op = "offer" /\ request[h].op = "offer"
       => request[g].on \cap request[h].on \subseteq overlapped
  /\ OfferWhole

-----------------------------------------------------------------------------
(* Rows and changes of them.                                                *)
LEMMA OfferRows ==
  ASSUME NEW row
  PROVE  row \in OfferRecord <=>
           /\ DOMAIN row = OfferFields /\ row = [f \in DOMAIN row |-> row[f]]
           /\ row.scope \in {"PRODUCT", "CATEGORY"} /\ row.category \in Shelves \cup {Null}
           /\ row.links \in SUBSET Priced /\ row.discount \in Reduction
           /\ row.from \in Int /\ row.to \in Int /\ row.active \in BOOLEAN /\ row.deleted \in BOOLEAN
BY DEF OfferRecord, OfferFields

LEMMA MergedOffer ==
  ASSUME NEW c \in OfferChange, NEW row \in OfferRecord
  PROVE  /\ Over(c, row) \in OfferRecord
         /\ \A f \in OfferFields : Over(c, row)[f] = IF f \in DOMAIN c THEN c[f] ELSE row[f]
         /\ "deleted" \in OfferFields /\ DOMAIN row = OfferFields
<1> DEFINE new == Over(c, row)
<1>1. PICK F \in SUBSET OfferFields, r \in OfferRecord : c = [f \in F |-> r[f]]
  BY DEF OfferChange
<1>2. DOMAIN row = OfferFields
  BY OfferRows
<1>3. DOMAIN new = OfferFields /\ new = [f \in DOMAIN new |-> new[f]]
      /\ \A f \in OfferFields : new[f] = IF f \in DOMAIN c THEN c[f] ELSE row[f]
  BY <1>1, <1>2 DEF Over
<1>4. \A f \in OfferFields : new[f] = r[f] \/ new[f] = row[f]
  BY <1>1, <1>3
<1> HIDE DEF new
<1>5. /\ new.scope = r.scope \/ new.scope = row.scope
      /\ new.category = r.category \/ new.category = row.category
      /\ new.links = r.links \/ new.links = row.links
      /\ new.discount = r.discount \/ new.discount = row.discount
      /\ new.from = r.from \/ new.from = row.from
      /\ new.to = r.to \/ new.to = row.to
      /\ new.active = r.active \/ new.active = row.active
      /\ new.deleted = r.deleted \/ new.deleted = row.deleted
  BY <1>4 DEF OfferFields
<1>6. \A x \in {r, row} :
        /\ x.scope \in {"PRODUCT", "CATEGORY"} /\ x.category \in Shelves \cup {Null}
        /\ x.links \in SUBSET Priced /\ x.discount \in Reduction
        /\ x.from \in Int /\ x.to \in Int /\ x.active \in BOOLEAN /\ x.deleted \in BOOLEAN
  BY OfferRows
<1>7. new.scope \in {"PRODUCT", "CATEGORY"} /\ new.category \in Shelves \cup {Null}
      /\ new.links \in SUBSET Priced /\ new.discount \in Reduction
  BY <1>5, <1>6
<1>8. new.from \in Int /\ new.to \in Int /\ new.active \in BOOLEAN /\ new.deleted \in BOOLEAN
  BY <1>5, <1>6
<1>9. new \in OfferRecord
  BY <1>3, <1>7, <1>8, OfferRows
<1>10. "deleted" \in OfferFields
  BY DEF OfferFields
<1> QED  BY <1>2, <1>3, <1>9, <1>10 DEF new

\* The categories and the products are written with every update.
LEMMA WrittenOffer ==
  ASSUME NEW m \in OfferRecord, NEW category \in Shelves \cup {Null}, NEW links \in SUBSET Priced
  PROVE  LET new == Over([category |-> category, links |-> links], m) IN
         /\ new \in OfferRecord /\ new.category = category /\ new.links = links
         /\ new.from = m.from /\ new.to = m.to /\ new.scope = m.scope /\ new.discount = m.discount
<1> DEFINE whole == [category |-> category, links |-> links]
           new == Over(whole, m)
<1>1. DOMAIN m = OfferFields /\ DOMAIN whole = {"category", "links"}
  BY OfferRows
<1>2. DOMAIN new = OfferFields /\ new = [f \in DOMAIN new |-> new[f]]
  BY <1>1 DEF Over, OfferFields
<1>3. /\ new.category = category /\ new.links = links
      /\ new.from = m.from /\ new.to = m.to /\ new.scope = m.scope /\ new.discount = m.discount
      /\ new.active = m.active /\ new.deleted = m.deleted
  BY <1>1 DEF Over, OfferFields
<1>4. new \in OfferRecord
  <2>1. m.scope \in {"PRODUCT", "CATEGORY"} /\ m.discount \in Reduction
        /\ m.from \in Int /\ m.to \in Int /\ m.active \in BOOLEAN /\ m.deleted \in BOOLEAN
    BY OfferRows
  <2> HIDE DEF new
  <2> QED  BY <1>2, <1>3, <2>1, OfferRows
<1> QED  BY <1>3, <1>4

-----------------------------------------------------------------------------
(* The steps.                                                               *)
WholeOffer(row) ==
  /\ row.from < row.to
  /\ IF row.scope = "CATEGORY" THEN row.category # Null /\ row.links = {} ELSE row.category = Null

\* What an update has read holds of a row with the same terms.
LEMMA UpdateStillOK ==
  ASSUME OffersInv, NEW r, OfferUpdateOK(r), overlapped \subseteq overlapped',
         \A o \in OfferIds : offer[o] # Null => offer'[o] # Null,
         r.offer \in overlapped' \/ offer'[r.offer] = offer[r.offer]
           \/ offer'[r.offer] = [offer[r.offer] EXCEPT !.deleted = TRUE, !.active = FALSE]
  PROVE  OfferUpdateOK(r)'
<1>1. r.offer \in OfferIds /\ offer[r.offer] \in OfferRecord /\ r.change \in OfferChange
  BY DEF OfferUpdateOK, OffersInv
<1>2. ASSUME r.offer \notin overlapped'
      PROVE  LET merged == Over(r.change, offer'[r.offer]) IN
             merged.from < merged.to /\ merged.scope = r.scope
  <2> DEFINE old == offer[r.offer]
             new == offer'[r.offer]
  <2>1. Over(r.change, old).from < Over(r.change, old).to /\ Over(r.change, old).scope = r.scope
    BY <1>2 DEF OfferUpdateOK
  <2>2. new \in OfferRecord /\ new.from = old.from /\ new.to = old.to /\ new.scope = old.scope
    BY <1>1, <1>2 DEF OfferRecord
  <2>3. /\ Over(r.change, new)["from"] = Over(r.change, old)["from"]
        /\ Over(r.change, new)["to"] = Over(r.change, old)["to"]
        /\ Over(r.change, new)["scope"] = Over(r.change, old)["scope"]
    <3>1. "from" \in OfferFields /\ "to" \in OfferFields /\ "scope" \in OfferFields
      BY DEF OfferFields
    <3> HIDE DEF old, new
    <3> QED  BY <1>1, <2>2, <3>1, MergedOffer DEF old
  <2> QED  BY <2>1, <2>3
<1> QED  BY <1>1, <1>2 DEF OfferUpdateOK

\* A request of another kind, or the end of one.
LEMMA OffersAside ==
  ASSUME OffersInv, UNCHANGED offerVars, overlapped \subseteq overlapped',
         DOMAIN request' = Handlers, NEW h \in Handlers,
         \A g \in Handlers \ {h} : request'[g] = request[g],
         request'[h] # Null => request'[h].op # "offer"
  PROVE  OffersInv'
<1>1. UNCHANGED <<offer, price>>
  BY DEF offerVars
<1>2. \A g \in InFlight' : request'[g].op = "offer" => g \in InFlight /\ request'[g] = request[g]
  BY DEF InFlight
<1>3. \A g \in InFlight' : request'[g].op = "offer" => OfferUpdateOK(request[g])'
  <2> SUFFICES ASSUME NEW g \in InFlight', request'[g].op = "offer" PROVE OfferUpdateOK(request[g])'
    OBVIOUS
  <2>1. PICK r : r = request[g]
    OBVIOUS
  <2>2. OfferUpdateOK(r)
    BY <1>2, <2>1 DEF OffersInv
  <2>3. OfferUpdateOK(r)'
    BY <1>1, <2>2, UpdateStillOK
  <2> QED  BY <1>2, <2>1, <2>3
<1>4. \A f, g \in InFlight' : f # g /\ request'[f].op = "offer" /\ request'[g].op = "offer"
        => request'[f].on \cap request'[g].on \subseteq overlapped'
  BY <1>2 DEF OffersInv
<1>5. OfferWhole'
  BY <1>1 DEF OffersInv, OfferWhole
<1> QED  BY <1>1, <1>3, <1>4, <1>5 DEF OffersInv

\* A step on one row.
LEMMA OfferStep ==
  ASSUME OffersInv, NEW o \in OfferIds, NEW row \in OfferRecord, Possible(row.discount),
         offer' = [offer EXCEPT ![o] = row], price' = price, overlapped' = overlapped,
         o \notin overlapped => WholeOffer(row),
         DOMAIN request' = Handlers, \A g \in Handlers : request'[g] \in {request[g], Null},
         \/ \A g \in InFlight' : request'[g].op = "offer" => o \in overlapped \/ request'[g].offer # o
         \/ row = [offer[o] EXCEPT !.deleted = TRUE, !.active = FALSE]
  PROVE  OffersInv'
<1>1. /\ offer' \in [OfferIds -> OfferRecord \cup {Null}]
      /\ \A x \in OfferIds \ {o} : offer'[x] = offer[x]
      /\ offer'[o] = row /\ row # Null
  BY OfferAssumption DEF OffersInv
<1>2. \A g \in InFlight' : g \in InFlight /\ request'[g] = request[g]
  BY DEF InFlight
<1>3. \A g \in InFlight' : request'[g].op = "offer" => OfferUpdateOK(request[g])'
  <2> SUFFICES ASSUME NEW g \in InFlight', request'[g].op = "offer" PROVE OfferUpdateOK(request[g])'
    OBVIOUS
  <2>1. PICK r : r = request[g]
    OBVIOUS
  <2>2. r.op = "offer" /\ OfferUpdateOK(r) /\ r.offer \in OfferIds
    BY <1>2, <2>1 DEF OffersInv, OfferUpdateOK
  <2>3. r.offer \in overlapped' \/ offer'[r.offer] = offer[r.offer]
          \/ offer'[r.offer] = [offer[r.offer] EXCEPT !.deleted = TRUE, !.active = FALSE]
    <3>1. CASE row = [offer[o] EXCEPT !.deleted = TRUE, !.active = FALSE]
      BY <1>1, <2>2, <3>1
    <3>2. CASE o \in overlapped \/ r.offer # o
      BY <1>1, <2>2, <3>2
    <3> QED  BY <1>2, <2>1, <2>2, <3>1, <3>2
  <2>4. \A x \in OfferIds : offer[x] # Null => offer'[x] # Null
    BY <1>1
  <2>5. OfferUpdateOK(r)'
    BY <2>2, <2>3, <2>4, UpdateStillOK
  <2> QED  BY <1>2, <2>1, <2>5
<1>4. \A f, g \in InFlight' : f # g /\ request'[f].op = "offer" /\ request'[g].op = "offer"
        => request'[f].on \cap request'[g].on \subseteq overlapped'
  BY <1>2 DEF OffersInv
<1>5. OfferWhole'
  BY <1>1 DEF OffersInv, OfferWhole, WholeOffer
<1>6. \A x \in OfferIds : offer'[x] # Null => Possible(offer'[x].discount)
  BY <1>1 DEF OffersInv
<1> QED  BY <1>1, <1>3, <1>4, <1>5, <1>6 DEF OffersInv

LEMMA CreateOfferKeeps ==
  ASSUME OffersInv, NEW o \in OfferIds, NEW row \in OfferRecord, CreateOffer(o, row)
  PROVE  OffersInv'
<1>1. PICK new : new = IF row.scope = "CATEGORY" THEN [row EXCEPT !.links = {}]
                       ELSE [row EXCEPT !.category = Null]
  OBVIOUS
<1>2. /\ offer[o] = Null /\ ValidOffer(row)
      /\ IF row.scope = "CATEGORY" THEN row.category # Null ELSE row.links # {}
      /\ offer' = [offer EXCEPT ![o] = new] /\ UNCHANGED <<request, overlapped, price>>
  BY <1>1 DEF CreateOffer, requestVars
<1>3. /\ new \in OfferRecord /\ new.discount = row.discount /\ new.from = row.from /\ new.to = row.to
      /\ new.scope = row.scope
      /\ IF row.scope = "CATEGORY" THEN new.category = row.category /\ new.links = {}
         ELSE new.category = Null
  <2>1. CASE row.scope = "CATEGORY"
    BY <1>1, <2>1 DEF OfferRecord
  <2>2. CASE row.scope # "CATEGORY"
    BY <1>1, <2>2 DEF OfferRecord
  <2> QED  BY <2>1, <2>2
<1>4. WholeOffer(new)
  BY <1>2, <1>3 DEF WholeOffer, ValidOffer
<1>5. Possible(new.discount)
  BY <1>2, <1>3 DEF Possible, ValidOffer, OfferRecord
<1>6. \A g \in InFlight' : request'[g].op = "offer" => request'[g].offer # o
  BY <1>2 DEF InFlight, OffersInv, OfferUpdateOK
<1>7. DOMAIN request' = Handlers /\ \A g \in Handlers : request'[g] \in {request[g], Null}
  BY <1>2 DEF OffersInv
<1> QED  BY <1>2, <1>3, <1>4, <1>5, <1>6, <1>7, OfferStep

LEMMA DeleteOfferKeeps ==
  ASSUME OffersInv, NEW o \in OfferIds, DeleteOffer(o)
  PROVE  OffersInv'
<1>1. PICK new : new = [offer[o] EXCEPT !.deleted = TRUE, !.active = FALSE]
  OBVIOUS
<1>2. /\ offer[o] # Null /\ offer' = [offer EXCEPT ![o] = new]
      /\ UNCHANGED <<request, overlapped, price>>
  BY <1>1 DEF DeleteOffer, requestVars
<1>3. offer[o] \in OfferRecord /\ Possible(offer[o].discount)
      /\ (o \notin overlapped => WholeOffer(offer[o]))
  BY <1>2 DEF OffersInv, OfferWhole, WholeOffer
<1>4. /\ new \in OfferRecord /\ new.discount = offer[o].discount /\ new.from = offer[o].from
      /\ new.to = offer[o].to /\ new.scope = offer[o].scope /\ new.category = offer[o].category
      /\ new.links = offer[o].links
  BY <1>1, <1>3 DEF OfferRecord
<1>5. Possible(new.discount) /\ (o \notin overlapped => WholeOffer(new))
  BY <1>3, <1>4 DEF WholeOffer
<1>6. DOMAIN request' = Handlers /\ \A g \in Handlers : request'[g] \in {request[g], Null}
  BY <1>2 DEF OffersInv
<1> QED  BY <1>1, <1>2, <1>4, <1>5, <1>6, OfferStep

LEMMA BeginUpdateOfferKeeps ==
  ASSUME OffersInv, NEW h \in Handlers, NEW o \in OfferIds, NEW change \in OfferChange,
         BeginUpdateOffer(h, o, change)
  PROVE  OffersInv'
<1>0. PICK merged : merged = Over(change, offer[o])
  OBVIOUS
<1>1. PICK r : r = [op |-> "offer", on |-> {o}, offer |-> o, change |-> change,
                    scope |-> merged.scope, category |-> merged.category]
  OBVIOUS
<1>2. /\ offer[o] # Null /\ ValidOffer(merged)
      /\ merged.scope = "CATEGORY" => merged.category # Null
      /\ request[h] = Null /\ request' = [request EXCEPT ![h] = r]
      /\ overlapped' = overlapped \cup UNION {r.on \cap request[g].on : g \in InFlight}
      /\ UNCHANGED <<offer, price>>
  BY <1>0, <1>1 DEF BeginUpdateOffer, Begin, offerVars
<1>3. offer[o] \in OfferRecord
  BY <1>2 DEF OffersInv
<1>4. merged \in OfferRecord /\ ("discount" \in DOMAIN change => merged["discount"] = change["discount"])
  <2>1. "discount" \in OfferFields
    BY DEF OfferFields
  <2> QED  BY <1>0, <1>3, <2>1, MergedOffer
<1>5. OfferUpdateOK(r)
  BY <1>0, <1>1, <1>2, <1>4 DEF OfferUpdateOK, ValidOffer, Possible, OfferRecord
<1>6. /\ DOMAIN request' = Handlers /\ overlapped \subseteq overlapped' /\ request'[h] = r
      /\ \A g \in Handlers \ {h} : request'[g] = request[g]
  BY <1>2 DEF OffersInv
<1>7. \A g \in InFlight' : g # h => g \in InFlight /\ request'[g] = request[g]
  BY <1>6 DEF InFlight
<1>8. \A g \in InFlight' : request'[g].op = "offer" => OfferUpdateOK(request[g])'
  <2> SUFFICES ASSUME NEW g \in InFlight', request'[g].op = "offer" PROVE OfferUpdateOK(request[g])'
    OBVIOUS
  <2>1. PICK q : q = request'[g]
    OBVIOUS
  <2>2. OfferUpdateOK(q)
    BY <1>5, <1>6, <1>7, <2>1 DEF OffersInv
  <2>3. OfferUpdateOK(q)'
    BY <1>2, <1>6, <2>2, UpdateStillOK
  <2> QED  BY <2>1, <2>3
<1>9. \A f, g \in InFlight' : f # g /\ request'[f].op = "offer" /\ request'[g].op = "offer"
        => request'[f].on \cap request'[g].on \subseteq overlapped'
  <2>1. \A g \in InFlight : r.on \cap request[g].on \subseteq overlapped'
    BY <1>2
  <2> QED  BY <1>6, <1>7, <2>1 DEF OffersInv
<1>10. OfferWhole'
  BY <1>2 DEF OffersInv, OfferWhole
<1> QED  BY <1>2, <1>6, <1>8, <1>9, <1>10 DEF OffersInv

LEMMA WriteOfferKeeps ==
  ASSUME OffersInv, NEW h \in Handlers, WriteOffer(h)
  PROVE  OffersInv'
<1>0. PICK r : r = request[h]
  OBVIOUS
<1>1. h \in InFlight /\ r.op = "offer" /\ OfferUpdateOK(r)
  BY <1>0 DEF WriteOffer, Doing, InFlight, OffersInv
<1>2. PICK o : o = r.offer
  OBVIOUS
<1>3. /\ o \in OfferIds /\ r.on = {o} /\ offer[o] \in OfferRecord /\ r.change \in OfferChange
      /\ r.scope \in {"PRODUCT", "CATEGORY"} /\ r.category \in Shelves \cup {Null}
      /\ Possible(offer[o].discount)
  BY <1>1, <1>2 DEF OfferUpdateOK, OffersInv
<1>4. PICK category : category = IF r.scope = "CATEGORY" THEN r.category ELSE Null
  OBVIOUS
<1>5. PICK links : links = IF r.scope = "CATEGORY" THEN {}
                           ELSE IF "links" \in DOMAIN r.change THEN r.change.links ELSE offer[o].links
  OBVIOUS
<1>6. PICK m : m = Over(r.change, offer[o])
  OBVIOUS
<1>7. PICK new : new = Over([category |-> category, links |-> links], m)
  OBVIOUS
<1>8. /\ m \in OfferRecord
      /\ m["links"] = IF "links" \in DOMAIN r.change THEN r.change["links"] ELSE offer[o]["links"]
      /\ m["discount"] = IF "discount" \in DOMAIN r.change THEN r.change["discount"] ELSE offer[o]["discount"]
  <2>1. "links" \in OfferFields /\ "discount" \in OfferFields
    BY DEF OfferFields
  <2> QED  BY <1>3, <1>6, <2>1, MergedOffer
<1>9. links \in SUBSET Priced /\ category \in Shelves \cup {Null}
  BY <1>3, <1>4, <1>5, <1>8 DEF OfferRecord
<1>10. /\ new \in OfferRecord /\ new.category = category /\ new.links = links
       /\ new.from = m.from /\ new.to = m.to /\ new.scope = m.scope /\ new.discount = m.discount
  BY <1>7, <1>8, <1>9, WrittenOffer
<1>11. /\ offer' = [offer EXCEPT ![o] = new] /\ price' = price
       /\ request' = [request EXCEPT ![h] = Null] /\ overlapped' = overlapped
  BY <1>0, <1>2, <1>4, <1>5, <1>6, <1>7 DEF WriteOffer, End, GoOn
<1>12. Possible(new.discount)
  BY <1>1, <1>3, <1>8, <1>10 DEF OfferUpdateOK
<1>13. ASSUME o \notin overlapped PROVE WholeOffer(new)
  <2>1. m.from < m.to /\ m.scope = r.scope /\ (r.scope = "CATEGORY" => r.category # Null)
    BY <1>1, <1>2, <1>6, <1>13 DEF OfferUpdateOK
  <2> QED  BY <1>3, <1>4, <1>5, <1>10, <2>1 DEF WholeOffer
<1>14. \A g \in InFlight' : request'[g].op = "offer" => o \in overlapped \/ request'[g].offer # o
  <2> SUFFICES ASSUME NEW g \in InFlight', request'[g].op = "offer", request'[g].offer = o
               PROVE  o \in overlapped
    OBVIOUS
  <2>1. g \in InFlight /\ g # h /\ request'[g] = request[g]
    BY <1>11 DEF InFlight, OffersInv
  <2>2. request[g].on = {o} /\ request[h].on = {o}
    BY <1>0, <1>3, <2>1 DEF OffersInv, OfferUpdateOK
  <2> QED  BY <1>0, <1>1, <2>1, <2>2 DEF OffersInv
<1>15. DOMAIN request' = Handlers /\ \A g \in Handlers : request'[g] \in {request[g], Null}
  BY <1>11 DEF OffersInv
<1> QED  BY <1>3, <1>10, <1>11, <1>12, <1>13, <1>14, <1>15, OfferStep

LEMMA OffersKeep ==
  ASSUME NEW rows \in SUBSET OfferRecord, NEW changes \in SUBSET OfferChange,
         OffersInv, OffersNext(rows, changes)
  PROVE  OffersInv'
<1>1. ASSUME NEW h \in Handlers, Abandon(h), UNCHANGED offerVars PROVE OffersInv'
  <2>1. /\ DOMAIN request' = Handlers /\ overlapped' = overlapped /\ request'[h] = Null
        /\ \A g \in Handlers \ {h} : request'[g] = request[g]
    BY <1>1 DEF Abandon, End, GoOn, OffersInv
  <2> QED  BY <1>1, <2>1, OffersAside
<1>2. ASSUME NEW o \in OfferIds, NEW row \in rows, CreateOffer(o, row) PROVE OffersInv'
  BY <1>2, CreateOfferKeeps
<1>3. ASSUME NEW h \in Handlers, NEW o \in OfferIds, NEW change \in changes,
             BeginUpdateOffer(h, o, change)
      PROVE  OffersInv'
  BY <1>3, BeginUpdateOfferKeeps
<1> QED  BY <1>1, <1>2, <1>3, DeleteOfferKeeps, WriteOfferKeeps DEF OffersNext

LEMMA OffersBegin == OffersInit /\ RequestsInit => OffersInv
BY DEF OffersInit, RequestsInit, OffersInv, InFlight, OfferWhole

-----------------------------------------------------------------------------
(* The terms of campaigns: campaigns.service.ts.                            *)

LedFields == {"type", "id", "url", "route"}
SoundFields == {"from", "to", "often", "hours", "minCart", "maxCart"}

LeadsWell(d) ==
  /\ d.id # Null <=> d.type \in Pinned
  /\ d.url # Null <=> d.type = "EXTERNAL_URL"
  /\ d.route # Null <=> d.type = "INTERNAL_ROUTE"

TermsRow(row) == RowOK(row) /\ LedFields \cup SoundFields \subseteq DOMAIN row /\ LeadsWell(row)

\* An update writes where a campaign leads as a whole, or not at all.
EditOK(r) ==
  /\ r.on = {r.campaign} /\ r.campaign \in Existing
  /\ DOMAIN r.write \cap Reserved = {}
  /\ \/ LedFields \cap DOMAIN r.write = {}
     \/ LedFields \subseteq DOMAIN r.write /\ LeadsWell(r.write)
  /\ r.campaign \notin overlapped => Sound(Over(r.write, campaign[r.campaign]))

CampaignRequestOK(r) ==
  /\ r.op = "terms" => EditOK(r)
  /\ r.op = "track" => r.campaign \in Existing
  /\ r.op = "bulk" => "held" \in DOMAIN r /\ r.held \subseteq Existing

Edits(r) == r.op = "terms"

TermsInv ==
  /\ DOMAIN request = Handlers /\ DOMAIN campaign = CampaignIds
  /\ \A c \in Existing : TermsRow(campaign[c]) /\ (c \notin overlapped => Sound(campaign[c]))
  /\ \A h \in InFlight : CampaignRequestOK(request[h])
  /\ \A g, h \in InFlight : g # h /\ Edits(request[g]) /\ Edits(request[h])
       => request[g].on \cap request[h].on \subseteq overlapped

-----------------------------------------------------------------------------
(* Rows and changes of them.                                                *)
LEMMA OverFacts ==
  ASSUME NEW w, NEW row, TermsRow(row), DOMAIN w \cap Reserved = {},
         LedFields \cap DOMAIN w = {} \/ (LedFields \subseteq DOMAIN w /\ LeadsWell(w))
  PROVE  TermsRow(Over(w, row))
<1> DEFINE new == Over(w, row)
<1>1. /\ DOMAIN new = DOMAIN w \cup DOMAIN row /\ new = [f \in DOMAIN new |-> new[f]]
      /\ \A f \in DOMAIN new : new[f] = IF f \in DOMAIN w THEN w[f] ELSE row[f]
  BY DEF Over
<1>2. RowOK(new) /\ LedFields \cup SoundFields \subseteq DOMAIN new
  BY <1>1 DEF TermsRow, RowOK
<1>3. CASE LedFields \cap DOMAIN w = {}
  <2>1. new["type"] = row["type"] /\ new["id"] = row["id"] /\ new["url"] = row["url"] /\ new["route"] = row["route"]
    BY <1>1, <1>2, <1>3 DEF LedFields
  <2> QED  BY <1>2, <2>1 DEF TermsRow, LeadsWell
<1>4. CASE LedFields \subseteq DOMAIN w /\ LeadsWell(w)
  <2>1. new["type"] = w["type"] /\ new["id"] = w["id"] /\ new["url"] = w["url"] /\ new["route"] = w["route"]
    BY <1>1, <1>2, <1>4 DEF LedFields
  <2> QED  BY <1>2, <1>4, <2>1 DEF TermsRow, LeadsWell
<1> QED  BY <1>3, <1>4

\* The terms that Sound compares.
SameSound(a, b) ==
  /\ a.from = b.from /\ a.to = b.to /\ a.often = b.often /\ a.hours = b.hours
  /\ a.minCart = b.minCart /\ a.maxCart = b.maxCart

LEMMA SoundSame == ASSUME NEW a, NEW b, SameSound(a, b), Sound(a) PROVE Sound(b)
BY DEF SameSound, Sound

LEMMA OverSame ==
  ASSUME NEW w, NEW a, NEW b, SameSound(a, b), SoundFields \subseteq DOMAIN a, SoundFields \subseteq DOMAIN b
  PROVE  SameSound(Over(w, a), Over(w, b))
<1>1. ASSUME NEW f \in SoundFields, a[f] = b[f] PROVE Over(w, a)[f] = Over(w, b)[f]
  BY <1>1 DEF Over
<1>2. a["from"] = b["from"] /\ a["to"] = b["to"] /\ a["often"] = b["often"] /\ a["hours"] = b["hours"]
      /\ a["minCart"] = b["minCart"] /\ a["maxCart"] = b["maxCart"]
  BY DEF SameSound
<1>3. "from" \in SoundFields /\ "to" \in SoundFields /\ "often" \in SoundFields /\ "hours" \in SoundFields
      /\ "minCart" \in SoundFields /\ "maxCart" \in SoundFields
  BY DEF SoundFields
<1>4. Over(w, a)["from"] = Over(w, b)["from"] /\ Over(w, a)["to"] = Over(w, b)["to"]
      /\ Over(w, a)["often"] = Over(w, b)["often"] /\ Over(w, a)["hours"] = Over(w, b)["hours"]
      /\ Over(w, a)["minCart"] = Over(w, b)["minCart"] /\ Over(w, a)["maxCart"] = Over(w, b)["maxCart"]
  BY <1>1, <1>2, <1>3
<1> QED  BY <1>4 DEF SameSound

\* What an update is given leads exactly where its type says.
LEMMA NormalizedLeads ==
  ASSUME NEW d, Complete(NormalizeDestination(d))
  PROVE  LeadsWell(NormalizeDestination(d)) /\ DOMAIN NormalizeDestination(d) = LedFields
<1> DEFINE led == NormalizeDestination(d)
<1>1. /\ led.type = d.type /\ led.id = (IF d.type \in Pinned THEN d.id ELSE Null)
      /\ led.url = (IF d.type = "EXTERNAL_URL" THEN d.url ELSE Null)
      /\ led.route = (IF d.type = "INTERNAL_ROUTE" THEN d.route ELSE Null)
      /\ DOMAIN led = LedFields
  BY DEF NormalizeDestination, LedFields
<1> HIDE DEF led
<1>2. Complete(led)
  BY DEF led
<1> QED  BY <1>1, <1>2 DEF LeadsWell, Complete, Pinned, led

LEMMA NewRowLeads ==
  ASSUME NEW given, Complete(Destination(given)), Sound(given),
         LedFields \cup SoundFields \subseteq DOMAIN given
  PROVE  TermsRow(NewRow(given)) /\ Sound(NewRow(given))
<1> DEFINE d == Destination(given)
           led == NormalizeDestination(d)
           base == Over([counts |-> None, deleted |-> FALSE], given)
           row == NewRow(given)
<1>1. Complete(led)
  <2>1. /\ led.type = d.type /\ led.id = (IF d.type \in Pinned THEN d.id ELSE Null)
        /\ led.url = (IF d.type = "EXTERNAL_URL" THEN d.url ELSE Null)
        /\ led.route = (IF d.type = "INTERNAL_ROUTE" THEN d.route ELSE Null)
    BY DEF NormalizeDestination
  <2>2. Complete(d)
    OBVIOUS
  <2> HIDE DEF led, d
  <2> QED  BY <2>1, <2>2 DEF Complete
<1>2. LeadsWell(led) /\ DOMAIN led = LedFields
  <2> HIDE DEF d
  <2> QED  BY <1>1, NormalizedLeads
<1>3. row = Over(led, base)
  BY DEF NewRow
<1> HIDE DEF led
<1>4. /\ DOMAIN base = {"counts", "deleted"} \cup DOMAIN given
      /\ \A f \in SoundFields : base[f] = given[f]
  BY DEF Over, SoundFields
<1> HIDE DEF base
<1>5. /\ DOMAIN row = LedFields \cup DOMAIN base /\ row = [f \in DOMAIN row |-> row[f]]
      /\ \A f \in LedFields : row[f] = led[f]
      /\ \A f \in SoundFields : row[f] = given[f]
  BY <1>2, <1>3, <1>4 DEF Over, LedFields, SoundFields
<1> HIDE DEF row
<1>6. RowOK(row) /\ LedFields \cup SoundFields \subseteq DOMAIN row
  BY <1>4, <1>5 DEF RowOK, Reserved
<1>7. row["type"] = led["type"] /\ row["id"] = led["id"] /\ row["url"] = led["url"] /\ row["route"] = led["route"]
  BY <1>5 DEF LedFields
<1>8. row["from"] = given["from"] /\ row["to"] = given["to"] /\ row["often"] = given["often"]
      /\ row["hours"] = given["hours"] /\ row["minCart"] = given["minCart"] /\ row["maxCart"] = given["maxCart"]
  BY <1>5 DEF SoundFields
<1>9. LeadsWell(row)
  BY <1>2, <1>7 DEF LeadsWell
<1>10. SameSound(given, row)
  BY <1>8 DEF SameSound
<1>11. Sound(row)
  BY <1>10, SoundSame
<1> QED  BY <1>6, <1>9, <1>11 DEF TermsRow, row

-----------------------------------------------------------------------------
(* The steps of campaigns.                                                  *)

\* What a request has read holds of rows that lead and that are sound alike.
LEMMA EditStillOK ==
  ASSUME TermsInv, NEW r, CampaignRequestOK(r), overlapped \subseteq overlapped',
         \A c \in Existing : c \in Existing',
         \A c \in Existing' : TermsRow(campaign'[c]),
         Edits(r) => r.campaign \in overlapped' \/ SameSound(campaign[r.campaign], campaign'[r.campaign])
  PROVE  CampaignRequestOK(r)'
<1>1. ASSUME Edits(r), r.campaign \notin overlapped'
      PROVE  Sound(Over(r.write, campaign'[r.campaign]))
  <2>1. PICK c : c = r.campaign
    OBVIOUS
  <2>2. EditOK(r) /\ c \in Existing /\ c \in Existing' /\ c \notin overlapped
    BY <1>1, <2>1 DEF CampaignRequestOK, EditOK, Edits
  <2>3. PICK old, new : old = campaign[c] /\ new = campaign'[c]
    OBVIOUS
  <2>4. SoundFields \subseteq DOMAIN old /\ SoundFields \subseteq DOMAIN new
    BY <2>2, <2>3 DEF TermsInv, TermsRow
  <2>5. SameSound(old, new)
    BY <1>1, <2>1, <2>3
  <2>6. SameSound(Over(r.write, old), Over(r.write, new))
    BY <2>4, <2>5, OverSame
  <2>7. Sound(Over(r.write, old))
    BY <2>1, <2>2, <2>3 DEF EditOK
  <2>8. PICK m, n : m = Over(r.write, old) /\ n = Over(r.write, new)
    OBVIOUS
  <2>9. Sound(n)
    BY <2>6, <2>7, <2>8, SoundSame
  <2> QED  BY <2>1, <2>3, <2>8, <2>9
<1> QED  BY <1>1 DEF CampaignRequestOK, EditOK, Edits

\* A request that is taken up, goes on or ends, of whatever kind.
LEMMA TermsAside ==
  ASSUME TermsInv, UNCHANGED campaignVars, overlapped \subseteq overlapped',
         DOMAIN request' = Handlers, NEW h \in Handlers,
         \A g \in Handlers \ {h} : request'[g] = request[g],
         NEW r, request'[h] = r, r = Null \/ CampaignRequestOK(r),
         \A g \in InFlight \ {h} : r # Null /\ Edits(r) /\ Edits(request[g])
           => r.on \cap request[g].on \subseteq overlapped'
  PROVE  TermsInv'
<1>1. UNCHANGED campaign /\ Existing' = Existing
  BY DEF campaignVars, Existing
<1>2. \A g \in InFlight' : \/ g \in InFlight /\ g # h /\ request'[g] = request[g]
                           \/ g = h /\ request'[g] = r /\ r # Null
  BY DEF InFlight
<1>3. ASSUME NEW g \in InFlight' PROVE CampaignRequestOK(request[g])'
  <2>1. PICK q : q = request'[g]
    OBVIOUS
  <2>2. CampaignRequestOK(q)
    BY <1>2, <2>1 DEF TermsInv
  <2>3. \A c \in Existing' : TermsRow(campaign'[c])
    BY <1>1 DEF TermsInv
  <2>4. SameSound(campaign[q.campaign], campaign'[q.campaign])
    BY <1>1 DEF SameSound
  <2>5. CampaignRequestOK(q)'
    BY <1>1, <2>2, <2>3, <2>4, EditStillOK
  <2> QED  BY <2>1, <2>5
<1>4. ASSUME NEW f \in InFlight', NEW g \in InFlight', f # g, Edits(request'[f]), Edits(request'[g])
      PROVE  request'[f].on \cap request'[g].on \subseteq overlapped'
  BY <1>2, <1>4 DEF TermsInv
<1>5. \A c \in Existing' : TermsRow(campaign'[c]) /\ (c \notin overlapped' => Sound(campaign'[c]))
  BY <1>1 DEF TermsInv
<1>6. DOMAIN campaign' = CampaignIds
  BY <1>1 DEF TermsInv
<1>7. \A f, g \in InFlight' : f # g /\ Edits(request[f])' /\ Edits(request[g])'
        => request'[f].on \cap request'[g].on \subseteq overlapped'
  BY <1>4 DEF Edits
<1> QED  BY <1>3, <1>5, <1>6, <1>7 DEF TermsInv

\* A step that writes rows.
LEMMA TermsStep ==
  ASSUME TermsInv, overlapped' = overlapped, DOMAIN campaign' = CampaignIds,
         DOMAIN request' = Handlers, \A g \in Handlers : request'[g] \in {Null, request[g]},
         \A c \in Existing : c \in Existing',
         \A c \in Existing' : TermsRow(campaign'[c]) /\ (c \notin overlapped => Sound(campaign'[c])),
         \A c \in Existing : \/ SameSound(campaign[c], campaign'[c]) \/ c \in overlapped
                             \/ \A g \in InFlight' : Edits(request'[g]) => request'[g].campaign # c
  PROVE  TermsInv'
<1>1. \A g \in InFlight' : g \in InFlight /\ request'[g] = request[g]
  BY DEF InFlight
<1>2. ASSUME NEW g \in InFlight' PROVE CampaignRequestOK(request[g])'
  <2>1. PICK q : q = request'[g]
    OBVIOUS
  <2>2. CampaignRequestOK(q)
    BY <1>1, <2>1 DEF TermsInv
  <2>3. ASSUME Edits(q)
        PROVE  q.campaign \in overlapped' \/ SameSound(campaign[q.campaign], campaign'[q.campaign])
    <3>1. q.campaign \in Existing
      BY <2>2, <2>3 DEF CampaignRequestOK, EditOK, Edits
    <3> QED  BY <2>1, <2>3, <3>1
  <2>4. CampaignRequestOK(q)'
    BY <2>2, <2>3, EditStillOK
  <2> QED  BY <2>1, <2>4
<1>3. \A f, g \in InFlight' : f # g /\ Edits(request[f])' /\ Edits(request[g])'
        => request'[f].on \cap request'[g].on \subseteq overlapped'
  BY <1>1 DEF TermsInv, Edits
<1> QED  BY <1>2, <1>3 DEF TermsInv

LEMMA EditCampaignKeeps ==
  ASSUME TermsInv, NEW h \in Handlers, NEW c \in CampaignIds, NEW change,
         DOMAIN change \cap Reserved = {}, BeginUpdateCampaign(h, c, change)
  PROVE  TermsInv'
<1>1. PICK merged : merged = Over(change, campaign[c])
  OBVIOUS
<1>2. PICK led : led = NormalizeDestination(Destination(merged))
  OBVIOUS
<1>3. PICK write : write = IF DOMAIN change \cap DOMAIN led # {} THEN Over(led, change) ELSE change
  OBVIOUS
<1>4. PICK r : r = [op |-> "terms", on |-> {c}, campaign |-> c, write |-> write]
  OBVIOUS
<1>5. /\ c \in LiveCampaigns /\ Sound(merged) /\ Complete(led) /\ Begin(h, r) /\ UNCHANGED campaignVars
  BY <1>1, <1>2, <1>3, <1>4 DEF BeginUpdateCampaign
<1>6. c \in Existing /\ TermsRow(campaign[c])
  BY <1>5 DEF LiveCampaigns, Existing, TermsInv
<1>7. LeadsWell(led) /\ DOMAIN led = LedFields
  BY <1>2, <1>5, NormalizedLeads
<1>8. DOMAIN write \cap Reserved = {}
  BY <1>3, <1>7 DEF Over, LedFields, Reserved
<1>9. \/ LedFields \cap DOMAIN write = {}
      \/ LedFields \subseteq DOMAIN write /\ LeadsWell(write)
  <2>1. CASE DOMAIN change \cap DOMAIN led # {}
    <3>1. DOMAIN write = LedFields \cup DOMAIN change /\ \A f \in LedFields : write[f] = led[f]
      BY <1>3, <1>7, <2>1 DEF Over
    <3>2. write["type"] = led["type"] /\ write["id"] = led["id"] /\ write["url"] = led["url"]
          /\ write["route"] = led["route"]
      BY <3>1 DEF LedFields
    <3> QED  BY <1>7, <3>1, <3>2 DEF LeadsWell
  <2>2. CASE DOMAIN change \cap DOMAIN led = {}
    BY <1>3, <1>7, <2>2
  <2> QED  BY <2>1, <2>2
<1>10. Sound(Over(write, campaign[c]))
  <2>1. PICK new : new = Over(write, campaign[c])
    OBVIOUS
  <2>2. \A f \in SoundFields : new[f] = merged[f]
    BY <1>1, <1>3, <1>6, <1>7, <2>1 DEF Over, SoundFields, LedFields, TermsRow
  <2>3. merged["from"] = new["from"] /\ merged["to"] = new["to"] /\ merged["often"] = new["often"]
        /\ merged["hours"] = new["hours"] /\ merged["minCart"] = new["minCart"]
        /\ merged["maxCart"] = new["maxCart"]
    BY <2>2 DEF SoundFields
  <2>4. SameSound(merged, new)
    BY <2>3 DEF SameSound
  <2> QED  BY <1>5, <2>1, <2>4, SoundSame
<1>11. CampaignRequestOK(r)
  BY <1>4, <1>6, <1>8, <1>9, <1>10 DEF CampaignRequestOK, EditOK
<1>12. /\ DOMAIN request' = Handlers /\ overlapped \subseteq overlapped' /\ request'[h] = r
       /\ \A g \in Handlers \ {h} : request'[g] = request[g]
       /\ \A g \in InFlight \ {h} : r.on \cap request[g].on \subseteq overlapped'
  BY <1>5 DEF Begin, TermsInv
<1> QED  BY <1>5, <1>11, <1>12, TermsAside

LEMMA TakeUpKeeps ==
  ASSUME TermsInv, NEW h \in Handlers, NEW r, Begin(h, r), CampaignRequestOK(r), ~Edits(r),
         UNCHANGED campaignVars
  PROVE  TermsInv'
<1>1. /\ DOMAIN request' = Handlers /\ overlapped \subseteq overlapped' /\ request'[h] = r
      /\ \A g \in Handlers \ {h} : request'[g] = request[g]
  BY DEF Begin, TermsInv
<1> QED  BY <1>1, TermsAside

LEMMA GoOnKeepsTerms ==
  ASSUME TermsInv, NEW h \in Handlers, NEW r, GoOn(h, r),
         r = Null \/ (CampaignRequestOK(r) /\ ~Edits(r)), UNCHANGED campaignVars
  PROVE  TermsInv'
<1>1. /\ DOMAIN request' = Handlers /\ overlapped \subseteq overlapped' /\ request'[h] = r
      /\ \A g \in Handlers \ {h} : request'[g] = request[g]
  BY DEF GoOn, TermsInv
<1> QED  BY <1>1, TermsAside

LEMMA CountsKeepTerms ==
  ASSUME TermsInv, NEW h \in Handlers, CountNext(h) PROVE TermsInv'
<1>1. PICK r : r = request[h]
  OBVIOUS
<1>2. PICK x : x = Next1(h).campaign
  OBVIOUS
<1>3. PICK q : q = [r EXCEPT !.todo = Tail(@),
       !.held = IF x \in LiveCampaigns THEN @ \cup {x} ELSE @,
       !.counted = IF x \in LiveCampaigns THEN @ \cup {Next1(h)} ELSE @]
  OBVIOUS
<1>4. r.op = "bulk" /\ GoOn(h, q) /\ UNCHANGED campaignVars /\ CampaignRequestOK(r)
  BY <1>1, <1>2, <1>3 DEF CountNext, Doing, TermsInv, InFlight
<1>5. "held" \in DOMAIN r /\ r.held \subseteq Existing
  BY <1>4 DEF CampaignRequestOK
<1>6. /\ q.op = r.op /\ "held" \in DOMAIN q
      /\ q.held = r.held \/ (x \in LiveCampaigns /\ q.held = r.held \cup {x})
  BY <1>3, <1>5
<1>7. q.held \subseteq Existing
  BY <1>5, <1>6 DEF LiveCampaigns, Existing
<1>8. CampaignRequestOK(q) /\ ~Edits(q)
  BY <1>4, <1>6, <1>7 DEF CampaignRequestOK, Edits
<1> QED  BY <1>4, <1>8, GoOnKeepsTerms

LEMMA TakeUpBulk ==
  ASSUME TermsInv, NEW h \in Handlers, NEW shown, NEW clicked, BeginBulk(h, shown, clicked)
  PROVE  TermsInv'
<1> DEFINE rows(ids, type) == [n \in DOMAIN ids |-> [campaign |-> ids[n], type |-> type]]
           all == rows(shown, "IMPRESSION") \o rows(clicked, "CLICK")
<1>1. PICK r : r = [op |-> "bulk", on |-> {}, held |-> {}, counted |-> {}, added |-> all, todo |-> all]
  OBVIOUS
<1>2. Begin(h, r) /\ UNCHANGED campaignVars
  BY <1>1 DEF BeginBulk
<1> HIDE DEF all
<1>3. CampaignRequestOK(r) /\ ~Edits(r)
  BY <1>1 DEF CampaignRequestOK, Edits
<1> QED  BY <1>2, <1>3, TakeUpKeeps

LEMMA TakeUpTrack ==
  ASSUME TermsInv, NEW h \in Handlers, NEW c \in CampaignIds, NEW type, BeginTrack(h, c, type)
  PROVE  TermsInv'
<1>1. PICK r : r = [op |-> "track", on |-> {}, campaign |-> c, type |-> type]
  OBVIOUS
<1>2. Begin(h, r) /\ UNCHANGED campaignVars /\ c \in LiveCampaigns
  BY <1>1 DEF BeginTrack
<1>3. CampaignRequestOK(r) /\ ~Edits(r)
  BY <1>1, <1>2 DEF CampaignRequestOK, Edits, LiveCampaigns, Existing
<1> QED  BY <1>2, <1>3, TakeUpKeeps

LEMMA EndKeepsTerms ==
  ASSUME TermsInv, NEW h \in Handlers, End(h), UNCHANGED campaignVars PROVE TermsInv'
BY GoOnKeepsTerms DEF End

\* A row with other counters, or deleted, has the terms it had.
SameTerms(a, b) ==
  /\ DOMAIN a = DOMAIN b /\ a = [f \in DOMAIN a |-> a[f]]
  /\ \A f \in LedFields \cup SoundFields : a[f] = b[f]

LEMMA TermsKept ==
  ASSUME NEW a, NEW b, TermsRow(b), SameTerms(a, b)
  PROVE  TermsRow(a) /\ SameSound(b, a) /\ (Sound(b) => Sound(a))
<1>1. a["type"] = b["type"] /\ a["id"] = b["id"] /\ a["url"] = b["url"] /\ a["route"] = b["route"]
  BY DEF SameTerms, LedFields
<1>2. /\ a["from"] = b["from"] /\ a["to"] = b["to"] /\ a["often"] = b["often"]
      /\ a["hours"] = b["hours"] /\ a["minCart"] = b["minCart"] /\ a["maxCart"] = b["maxCart"]
  BY DEF SameTerms, SoundFields
<1>3. TermsRow(a)
  BY <1>1 DEF TermsRow, RowOK, SameTerms, LeadsWell
<1>4. SameSound(b, a)
  BY <1>2 DEF SameSound
<1> QED  BY <1>3, <1>4, SoundSame

LEMMA SameTermsFacts ==
  ASSUME NEW row, RowOK(row)
  PROVE  /\ SameTerms(row, row)
         /\ \A n : SameTerms([row EXCEPT !.counts = n], row)
         /\ \A d : SameTerms([row EXCEPT !.deleted = d], row)
BY DEF RowOK, SameTerms, LedFields, SoundFields

\* A step after which every row has the terms it had.
LEMMA SameTermsStep ==
  ASSUME TermsInv, NullIsNoRow, overlapped' = overlapped, DOMAIN campaign' = CampaignIds,
         RequestsEnd, \A c \in CampaignIds : campaign[c] = Null => campaign'[c] = Null,
         \A c \in Existing : SameTerms(campaign'[c], campaign[c])
  PROVE  TermsInv'
<1>1. \A c \in Existing : /\ TermsRow(campaign'[c]) /\ SameSound(campaign[c], campaign'[c])
                         /\ (Sound(campaign[c]) => Sound(campaign'[c]))
  BY TermsKept DEF TermsInv
<1>2. Existing' = Existing
  <2>1. \A c \in Existing : campaign'[c] # Null
    BY <1>1 DEF TermsRow, NullIsNoRow
  <2> QED  BY <2>1 DEF Existing
<1>3. \A c \in Existing : c \notin overlapped => Sound(campaign'[c])
  BY <1>1 DEF TermsInv
<1> QED  BY <1>1, <1>2, <1>3, TermsStep DEF RequestsEnd

LEMMA EndEnds ==
  ASSUME TermsInv
  PROVE  /\ \A h \in Handlers : End(h) => RequestsEnd /\ overlapped' = overlapped
         /\ UNCHANGED requestVars => RequestsEnd /\ overlapped' = overlapped
BY DEF End, GoOn, RequestsEnd, TermsInv, requestVars

LEMMA BulkKeepsTerms ==
  ASSUME TermsInv, NullIsNoRow, NEW h \in Handlers, CommitBulk(h) PROVE TermsInv'
<1>1. PICK r : r = request[h]
  OBVIOUS
<1> DEFINE n(c) == [t \in EventType |-> campaign[c].counts[t] + Tally(r.counted, c, t)]
           plus(c) == [campaign[c] EXCEPT !.counts = n(c)]
<1>2. /\ campaign' = [c \in CampaignIds |-> IF c \notin r.held THEN campaign[c] ELSE plus(c)]
      /\ End(h) /\ r.held \subseteq Existing
  BY <1>1 DEF CommitBulk, Doing, TermsInv, InFlight, CampaignRequestOK
<1> HIDE DEF n
<1>3. \A c \in Existing : SameTerms(campaign[c], campaign[c]) /\ SameTerms(plus(c), campaign[c])
  BY SameTermsFacts DEF TermsInv, TermsRow
<1> HIDE DEF plus
<1>4. \A c \in CampaignIds : campaign[c] = Null => campaign'[c] = Null
  BY <1>2 DEF Existing
<1>5. \A c \in Existing : SameTerms(campaign'[c], campaign[c])
  BY <1>2, <1>3 DEF Existing
<1> QED  BY <1>2, <1>4, <1>5, EndEnds, SameTermsStep

LEMMA OneRowKeepsTerms ==
  ASSUME TermsInv, NullIsNoRow, overlapped' = overlapped, RequestsEnd, NEW c \in Existing, NEW row,
         campaign' = [campaign EXCEPT ![c] = row], SameTerms(row, campaign[c])
  PROVE  TermsInv'
<1>1. \A k \in Existing : SameTerms(campaign[k], campaign[k])
  BY SameTermsFacts DEF TermsInv, TermsRow
<1>2. \A k \in Existing : SameTerms(campaign'[k], campaign[k])
  BY <1>1 DEF TermsInv, Existing
<1>3. DOMAIN campaign' = CampaignIds /\ \A k \in CampaignIds : campaign[k] = Null => campaign'[k] = Null
  BY DEF TermsInv, Existing
<1> QED  BY <1>2, <1>3, SameTermsStep

LEMMA TrackKeepsTerms ==
  ASSUME TermsInv, NullIsNoRow, NEW h \in Handlers, TrackEvent(h) PROVE TermsInv'
<1>1. PICK c : c = request[h].campaign
  OBVIOUS
<1>2. PICK n : n = [campaign[c].counts EXCEPT ![request[h].type] = @ + 1]
  OBVIOUS
<1>3. /\ c \in Existing /\ campaign' = [campaign EXCEPT ![c] = [campaign[c] EXCEPT !.counts = n]]
      /\ End(h)
  BY <1>1, <1>2 DEF TrackEvent, Doing, TermsInv, InFlight, CampaignRequestOK
<1>4. SameTerms([campaign[c] EXCEPT !.counts = n], campaign[c])
  BY <1>3, SameTermsFacts DEF TermsInv, TermsRow
<1>5. PICK row : row = [campaign[c] EXCEPT !.counts = n]
  OBVIOUS
<1>6. RequestsEnd /\ overlapped' = overlapped
  BY <1>3, EndEnds
<1> QED  BY <1>3, <1>4, <1>5, <1>6, OneRowKeepsTerms

LEMMA DeletionKeepsTerms ==
  ASSUME TermsInv, NullIsNoRow, NEW c \in CampaignIds, DeleteCampaign(c) PROVE TermsInv'
<1>1. /\ c \in Existing /\ campaign' = [campaign EXCEPT ![c] = [campaign[c] EXCEPT !.deleted = TRUE]]
      /\ UNCHANGED requestVars
  BY DEF DeleteCampaign, LiveCampaigns, Existing
<1>2. SameTerms([campaign[c] EXCEPT !.deleted = TRUE], campaign[c])
  BY <1>1, SameTermsFacts DEF TermsInv, TermsRow
<1>3. PICK row : row = [campaign[c] EXCEPT !.deleted = TRUE]
  OBVIOUS
<1>4. RequestsEnd /\ overlapped' = overlapped
  BY <1>1, EndEnds
<1> QED  BY <1>1, <1>2, <1>3, <1>4, OneRowKeepsTerms

\* The terms a campaign may have when it is made.
TermsNamed(given) == \A t \in given : LedFields \cup SoundFields \subseteq DOMAIN t

LEMMA CreationKeepsTerms ==
  ASSUME TermsInv, NullIsNoRow, NEW c \in CampaignIds, NEW t,
         LedFields \cup SoundFields \subseteq DOMAIN t, CreateCampaign(c, t)
  PROVE  TermsInv'
<1>1. PICK row : row = NewRow(t)
  OBVIOUS
<1>2. /\ campaign[c] = Null /\ Sound(t) /\ Complete(Destination(t))
      /\ campaign' = [campaign EXCEPT ![c] = row] /\ UNCHANGED requestVars
  BY <1>1 DEF CreateCampaign
<1>3. TermsRow(row) /\ Sound(row) /\ row # Null
  BY <1>1, <1>2, NewRowLeads DEF NullIsNoRow, TermsRow
<1>4. c \notin Existing /\ Existing' = Existing \cup {c} /\ DOMAIN campaign' = CampaignIds
      /\ campaign'[c] = row /\ \A k \in Existing : campaign'[k] = campaign[k]
  BY <1>2, <1>3 DEF Existing, TermsInv
<1>5. RequestsEnd /\ overlapped' = overlapped
  BY <1>2, EndEnds
<1>6. \A k \in Existing' : TermsRow(campaign'[k]) /\ (k \notin overlapped => Sound(campaign'[k]))
  BY <1>3, <1>4 DEF TermsInv
<1>7. \A k \in Existing : SameSound(campaign[k], campaign'[k])
  BY <1>4 DEF SameSound
<1> QED  BY <1>4, <1>5, <1>6, <1>7, TermsStep DEF RequestsEnd

LEMMA WriteKeepsTerms ==
  ASSUME TermsInv, NullIsNoRow, NEW h \in Handlers, WriteTerms(h) PROVE TermsInv'
<1>1. PICK r : r = request[h]
  OBVIOUS
<1>2. PICK c : c = r.campaign
  OBVIOUS
<1>3. PICK row : row = Over(r.write, campaign[c])
  OBVIOUS
<1>4. /\ h \in InFlight /\ Edits(r) /\ EditOK(r) /\ c \in Existing
      /\ campaign' = [campaign EXCEPT ![c] = row] /\ End(h)
  BY <1>1, <1>2, <1>3 DEF WriteTerms, Doing, TermsInv, InFlight, CampaignRequestOK, Edits, EditOK
<1>5. TermsRow(row) /\ row # Null /\ (c \notin overlapped => Sound(row))
  <2>1. TermsRow(campaign[c])
    BY <1>4 DEF TermsInv
  <2>2. TermsRow(row)
    BY <1>3, <1>4, <2>1, OverFacts DEF EditOK
  <2>3. row # Null
    BY <2>2 DEF TermsRow, NullIsNoRow
  <2> QED  BY <1>2, <1>3, <1>4, <2>2, <2>3 DEF EditOK
<1>6. Existing' = Existing /\ DOMAIN campaign' = CampaignIds
      /\ campaign'[c] = row /\ \A k \in Existing \ {c} : campaign'[k] = campaign[k]
  BY <1>4, <1>5 DEF Existing, TermsInv
<1>7. /\ RequestsEnd /\ overlapped' = overlapped /\ request' = [request EXCEPT ![h] = Null]
  BY <1>4, EndEnds DEF End, GoOn
<1>8. \A k \in Existing' : TermsRow(campaign'[k]) /\ (k \notin overlapped => Sound(campaign'[k]))
  BY <1>5, <1>6 DEF TermsInv
<1>9. ASSUME c \notin overlapped, NEW g \in InFlight', Edits(request'[g]) PROVE request'[g].campaign # c
  <2>1. g \in InFlight /\ g # h /\ request'[g] = request[g]
    BY <1>7 DEF InFlight, TermsInv
  <2>2. request[g].on = {request[g].campaign} /\ r.on = {c}
    BY <1>2, <1>4, <1>9, <2>1 DEF TermsInv, CampaignRequestOK, EditOK, Edits
  <2>3. request[g].on \cap r.on \subseteq overlapped
    BY <1>1, <1>4, <1>9, <2>1 DEF TermsInv
  <2> QED  BY <1>9, <2>1, <2>2, <2>3
<1>10. \A k \in Existing : \/ SameSound(campaign[k], campaign'[k]) \/ k \in overlapped
                          \/ \A g \in InFlight' : Edits(request'[g]) => request'[g].campaign # k
  BY <1>6, <1>9 DEF SameSound
<1> QED  BY <1>6, <1>7, <1>8, <1>10, TermsStep DEF RequestsEnd

LEMMA TermsStepKeeps ==
  ASSUME TermsInv, NullIsNoRow, NEW given, NEW changes, NEW bulks,
         TermsNamed(given), ChangesOK(changes), CampaignsNext(given, changes, bulks, CampaignIds)
  PROVE  TermsInv'
<1>1. ASSUME NEW c \in CampaignIds, NEW t \in given, CreateCampaign(c, t) PROVE TermsInv'
  BY <1>1, CreationKeepsTerms DEF TermsNamed
<1>2. ASSUME NEW c \in CampaignIds, DeleteCampaign(c) PROVE TermsInv'
  BY <1>2, DeletionKeepsTerms
<1>3. ASSUME NEW c \in CampaignIds, NEW h \in Handlers, NEW change \in changes,
             BeginUpdateCampaign(h, c, change)
      PROVE  TermsInv'
  BY <1>3, EditCampaignKeeps DEF ChangesOK
<1>4. ASSUME NEW c \in CampaignIds, NEW h \in Handlers, NEW type, BeginTrack(h, c, type) PROVE TermsInv'
  BY <1>4, TakeUpTrack
<1>5. ASSUME NEW h \in Handlers, NEW b \in bulks, BeginBulk(h, b.shown, b.clicked) PROVE TermsInv'
  BY <1>5, TakeUpBulk
<1>6. ASSUME NEW h \in Handlers, Deadlocked(h) \/ (Abandon(h) /\ UNCHANGED campaignVars) PROVE TermsInv'
  BY <1>6, EndKeepsTerms DEF Deadlocked, Abandon
<1>7. ASSUME NEW h \in Handlers, CountNext(h) PROVE TermsInv'
  BY <1>7, CountsKeepTerms
<1>8. ASSUME NEW h \in Handlers, CommitBulk(h) PROVE TermsInv'
  BY <1>8, BulkKeepsTerms
<1>9. ASSUME NEW h \in Handlers, TrackEvent(h) PROVE TermsInv'
  BY <1>9, TrackKeepsTerms
<1>10. ASSUME NEW h \in Handlers, WriteTerms(h) PROVE TermsInv'
  BY <1>10, WriteKeepsTerms
<1> QED  BY <1>1, <1>2, <1>3, <1>4, <1>5, <1>6, <1>7, <1>8, <1>9, <1>10 DEF CampaignsNext

-----------------------------------------------------------------------------
(* Offers and campaigns together.                                           *)
LEMMA OffersLeft ==
  ASSUME OffersInv, UNCHANGED offerVars, NEW h \in Handlers, NEW r, Begin(h, r) \/ GoOn(h, r),
         r = Null \/ r.op # "offer"
  PROVE  OffersInv'
<1>1. /\ DOMAIN request' = Handlers /\ overlapped \subseteq overlapped' /\ request'[h] = r
      /\ \A g \in Handlers \ {h} : request'[g] = request[g]
  BY DEF Begin, GoOn, OffersInv
<1> QED  BY <1>1, OffersAside

LEMMA OffersStand ==
  ASSUME OffersInv, UNCHANGED requestVars, UNCHANGED offerVars PROVE OffersInv'
BY DEF OffersInv, OfferUpdateOK, OfferWhole, InFlight, requestVars, offerVars

LEMMA TermsStand ==
  ASSUME TermsInv, UNCHANGED requestVars, UNCHANGED campaignVars PROVE TermsInv'
BY DEF TermsInv, CampaignRequestOK, EditOK, Edits, Existing, InFlight, requestVars, campaignVars

LEMMA CampaignsLeaveOffers ==
  ASSUME OffersInv, UNCHANGED offerVars, NEW given, NEW changes, NEW bulks,
         CampaignsNext(given, changes, bulks, CampaignIds)
  PROVE  OffersInv'
<1>1. ASSUME NEW c \in CampaignIds, NEW t, CreateCampaign(c, t) \/ DeleteCampaign(c) PROVE OffersInv'
  BY <1>1, OffersStand DEF CreateCampaign, DeleteCampaign
<1>2. ASSUME NEW c \in CampaignIds, NEW h \in Handlers, NEW change, BeginUpdateCampaign(h, c, change)
      PROVE  OffersInv'
  <2>1. \E write : Begin(h, [op |-> "terms", on |-> {c}, campaign |-> c, write |-> write])
    BY <1>2 DEF BeginUpdateCampaign
  <2>2. PICK r : Begin(h, r) /\ r.op = "terms"
    BY <2>1
  <2> QED  BY <2>2, OffersLeft
<1>3. ASSUME NEW c \in CampaignIds, NEW h \in Handlers, NEW type, BeginTrack(h, c, type) PROVE OffersInv'
  <2>1. PICK r : Begin(h, r) /\ r.op = "track"
    BY <1>3 DEF BeginTrack
  <2> QED  BY <2>1, OffersLeft
<1>4. ASSUME NEW h \in Handlers, NEW shown, NEW clicked, BeginBulk(h, shown, clicked) PROVE OffersInv'
  <2>1. \E all : Begin(h, [op |-> "bulk", on |-> {}, held |-> {}, counted |-> {}, added |-> all, todo |-> all])
    BY <1>4 DEF BeginBulk
  <2>2. PICK r : Begin(h, r) /\ r.op = "bulk"
    BY <2>1
  <2> QED  BY <2>2, OffersLeft
<1>5. ASSUME NEW h \in Handlers, CountNext(h) PROVE OffersInv'
  <2>1. PICK old : old = request[h]
    OBVIOUS
  <2>2. \E a, b, c : GoOn(h, [old EXCEPT !.todo = a, !.held = b, !.counted = c])
    BY <1>5, <2>1 DEF CountNext
  <2>3. PICK a, b, c : GoOn(h, [old EXCEPT !.todo = a, !.held = b, !.counted = c])
    BY <2>2
  <2>5. PICK r : r = [old EXCEPT !.todo = a, !.held = b, !.counted = c]
    OBVIOUS
  <2>6. GoOn(h, r) /\ r.op = old.op
    BY <2>3, <2>5
  <2>4. old.op = "bulk"
    BY <1>5, <2>1 DEF CountNext, Doing
  <2> QED  BY <2>4, <2>6, OffersLeft
<1>6. ASSUME NEW h \in Handlers,
             CommitBulk(h) \/ Deadlocked(h) \/ TrackEvent(h) \/ WriteTerms(h) \/ Abandon(h)
      PROVE  OffersInv'
  <2>1. GoOn(h, Null)
    BY <1>6 DEF CommitBulk, Deadlocked, TrackEvent, WriteTerms, Abandon, End
  <2> QED  BY <2>1, OffersLeft
<1> QED  BY <1>1, <1>2, <1>3, <1>4, <1>5, <1>6 DEF CampaignsNext

LEMMA OffersLeaveTerms ==
  ASSUME TermsInv, UNCHANGED campaignVars, NEW rows, NEW changes, OffersNext(rows, changes)
  PROVE  TermsInv'
<1>1. ASSUME NEW o \in OfferIds, NEW row, CreateOffer(o, row) \/ DeleteOffer(o) PROVE TermsInv'
  BY <1>1, TermsStand DEF CreateOffer, DeleteOffer
<1>2. ASSUME NEW o \in OfferIds, NEW h \in Handlers, NEW change, BeginUpdateOffer(h, o, change)
      PROVE  TermsInv'
  <2>1. \E s, c : Begin(h, [op |-> "offer", on |-> {o}, offer |-> o, change |-> change,
                            scope |-> s, category |-> c])
    BY <1>2 DEF BeginUpdateOffer
  <2>2. PICK r : Begin(h, r) /\ r.op = "offer"
    BY <2>1
  <2>3. CampaignRequestOK(r) /\ ~Edits(r)
    BY <2>2 DEF CampaignRequestOK, Edits
  <2> QED  BY <2>2, <2>3, TakeUpKeeps
<1>3. ASSUME NEW h \in Handlers, WriteOffer(h) \/ Abandon(h) PROVE TermsInv'
  BY <1>3, EndKeepsTerms DEF WriteOffer, Abandon
<1> QED  BY <1>1, <1>2, <1>3 DEF OffersNext

LEMMA PromotionsKeep ==
  ASSUME OffersInv, TermsInv, NullIsNoRow, NEW rows \in SUBSET OfferRecord, NEW changes \in SUBSET OfferChange,
         NEW given, NEW edits, NEW bulks, TermsNamed(given), ChangesOK(edits),
         [PromotionsNext(rows, changes, given, edits, bulks)]_<<requestVars, offerVars, campaignVars>>
  PROVE  OffersInv' /\ TermsInv'
<1>1. CASE OffersNext(rows, changes) /\ UNCHANGED campaignVars
  BY <1>1, OffersKeep, OffersLeaveTerms
<1>2. CASE CampaignsNext(given, edits, bulks, CampaignIds) /\ UNCHANGED offerVars
  BY <1>2, TermsStepKeeps, CampaignsLeaveOffers
<1>3. CASE UNCHANGED <<requestVars, offerVars, campaignVars>>
  BY <1>3, OffersStand, TermsStand
<1> QED  BY <1>1, <1>2, <1>3 DEF PromotionsNext

\* What staff may combine stays whole, for any number of offers, campaigns and
\* requests at once, and for any terms and changes: an offer starts before it
\* ends and is on a category or on products, a campaign leads exactly where its
\* type says and its pairs of terms agree, unless two updates of it overlap.
THEOREM TermsStayWhole ==
  ASSUME NullIsNoRow, NEW rows \in SUBSET OfferRecord, NEW changes \in SUBSET OfferChange,
         NEW given, NEW edits, NEW bulks, TermsNamed(given), ChangesOK(edits)
  PROVE  PromotionsSpec(rows, changes, given, edits, bulks) => []TermsWhole
<1>1. PromotionsInit => OffersInv /\ TermsInv
  BY OffersBegin DEF PromotionsInit, CampaignsInit, RequestsInit, TermsInv, InFlight, Existing
<1>2. OffersInv /\ TermsInv
      /\ [PromotionsNext(rows, changes, given, edits, bulks)]_<<requestVars, offerVars, campaignVars>>
        => OffersInv' /\ TermsInv'
  BY PromotionsKeep
<1>3. OffersInv /\ TermsInv => TermsWhole
  BY DEF OffersInv, TermsInv, TermsWhole, CampaignWhole, LiveCampaigns, Existing, TermsRow, LeadsWell
<1> QED  BY <1>1, <1>2, <1>3, PTL DEF PromotionsSpec

-----------------------------------------------------------------------------
(* The least and the greatest of two.                                      *)
LEMMA MinOfTwo ==
  ASSUME NEW a \in Int, NEW b \in Int
  PROVE  Min({a, b}) = IF a <= b THEN a ELSE b
<1>1. \E x \in {a, b} : \A y \in {a, b} : x =< y
  <2>1. CASE a <= b
    BY <2>1
  <2>2. CASE ~(a <= b)
    BY <2>2
  <2> QED  BY <2>1, <2>2
<1> DEFINE m == Min({a, b})
<1>2. m \in {a, b} /\ \A y \in {a, b} : m =< y
  BY <1>1 DEF Min
<1> HIDE DEF m
<1> QED  BY <1>2 DEF m

LEMMA MaxOfTwo ==
  ASSUME NEW a \in Int, NEW b \in Int
  PROVE  Max({a, b}) = IF a >= b THEN a ELSE b
<1>1. \E x \in {a, b} : \A y \in {a, b} : x >= y
  <2>1. CASE a >= b
    BY <2>1
  <2>2. CASE ~(a >= b)
    BY <2>2
  <2> QED  BY <2>1, <2>2
<1> DEFINE m == Max({a, b})
<1>2. m \in {a, b} /\ \A y \in {a, b} : m >= y
  BY <1>1 DEF Max
<1> HIDE DEF m
<1> QED  BY <1>2 DEF m

-----------------------------------------------------------------------------
(* The rotation of campaigns: campaigns.service.ts.                         *)

\* The orders of N things of S, every one at most once.
InOrder(N, S) == {f \in [1..N -> S] : \A i, j \in 1..N : i # j => f[i] # f[j]}

\* `after` says what each number of swaps leaves.
Swapped(found, n, pick, m, after) ==
  after = [k \in 0..m |-> IF k = 0 THEN found ELSE Swap(after[k - 1], n + 1 - k, pick[n + 1 - k])]

Runs(found, n, pick) == CHOOSE after : Swapped(found, n, pick, n, after)

LEMMA ShuffleRuns ==
  ASSUME NEW found, NEW pick
  PROVE  Shuffle(found, pick) = Runs(found, Len(found), pick)[Len(found)]
BY DEF Shuffle, Runs, Swapped

LEMMA RunsExist ==
  ASSUME NEW found, NEW n \in Nat, NEW pick
  PROVE  Swapped(found, n, pick, n, Runs(found, n, pick))
<1> DEFINE B == {m \in 0..n : ~\E g : Swapped(found, n, pick, m, g)}
<1>1. SUFFICES B = {}
  <2>1. n \in 0..n
    OBVIOUS
  <2>2. \E g : Swapped(found, n, pick, n, g)
    BY <1>1, <2>1
  <2> QED  BY <2>2 DEF Runs
<1>2. SUFFICES ASSUME B # {} PROVE FALSE
  OBVIOUS
<1>3. B \in SUBSET Nat
  OBVIOUS
<1> HIDE DEF B
<1>4. PICK b \in B : \A m \in B : b <= m
  BY <1>2, <1>3, SmallestOf
<1>5. b \in 0..n /\ ~\E g : Swapped(found, n, pick, b, g)
  BY DEF B
<1>6. b # 0
  <2> SUFFICES ASSUME b = 0 PROVE FALSE
    OBVIOUS
  <2> DEFINE g == [k \in 0..0 |-> found]
  <2>1. g = [k \in 0..0 |-> IF k = 0 THEN found ELSE Swap(g[k - 1], n + 1 - k, pick[n + 1 - k])]
    OBVIOUS
  <2> HIDE DEF g
  <2>2. Swapped(found, n, pick, 0, g)
    BY <2>1 DEF Swapped
  <2> QED  BY <1>5, <2>2
<1>7. b - 1 \in 0..n /\ ~(b <= b - 1)
  BY <1>5, <1>6
<1>8. PICK g : Swapped(found, n, pick, b - 1, g)
  BY <1>4, <1>7 DEF B
<1> DEFINE h == [k \in 0..b |-> IF k = b THEN Swap(g[b - 1], n + 1 - b, pick[n + 1 - b]) ELSE g[k]]
<1>9. ASSUME NEW k \in 0..b
      PROVE  h[k] = IF k = 0 THEN found ELSE Swap(h[k - 1], n + 1 - k, pick[n + 1 - k])
  <2>1. CASE k = b
    <3>1. h[b - 1] = g[b - 1] /\ k # 0
      BY <1>5, <1>6, <2>1
    <3> QED  BY <2>1, <3>1
  <2>2. CASE k # b
    <3>1. k \in 0..(b - 1) /\ h[k] = g[k]
      BY <1>5, <2>2
    <3>2. g[k] = IF k = 0 THEN found ELSE Swap(g[k - 1], n + 1 - k, pick[n + 1 - k])
      BY <1>8, <3>1 DEF Swapped
    <3>3. k # 0 => h[k - 1] = g[k - 1]
      BY <1>5, <3>1
    <3> QED  BY <3>1, <3>2, <3>3
  <2> QED  BY <2>1, <2>2
<1>10. Swapped(found, n, pick, b, h)
  <2>1. h = [k \in 0..b |-> h[k]]
    OBVIOUS
  <2> HIDE DEF h
  <2>2. h = [k \in 0..b |-> IF k = 0 THEN found ELSE Swap(h[k - 1], n + 1 - k, pick[n + 1 - k])]
    BY <1>9, <2>1
  <2> QED  BY <2>2 DEF Swapped
<1> QED  BY <1>5, <1>10

LEMMA SwapOrder ==
  ASSUME NEW N \in Nat, NEW S, NEW s \in InOrder(N, S), NEW i \in 1..N, NEW j \in 1..N
  PROVE  /\ Swap(s, i, j) \in InOrder(N, S)
         /\ Swap(s, i, j)[i] = s[j] /\ Swap(s, i, j)[j] = s[i]
         /\ \A k \in 1..N : k # i /\ k # j => Swap(s, i, j)[k] = s[k]
<1> DEFINE t == Swap(s, i, j)
<1>1. s \in [1..N -> S] /\ \A a, b \in 1..N : a # b => s[a] # s[b]
  BY DEF InOrder
<1>2. t \in [1..N -> S] /\ t[i] = s[j] /\ t[j] = s[i] /\ \A k \in 1..N : k # i /\ k # j => t[k] = s[k]
  BY <1>1 DEF Swap
<1> HIDE DEF t
<1>3. \A a, b \in 1..N : a # b => t[a] # t[b]
  BY <1>1, <1>2
<1>4. t \in InOrder(N, S)
  BY <1>2, <1>3 DEF InOrder
<1> QED  BY <1>2, <1>4 DEF t

\* What a run of swaps does, step by step.
LEMMA RunSteps ==
  ASSUME NEW found, NEW n \in Nat, NEW pick, NEW g, g = Runs(found, n, pick)
  PROVE  g[0] = found /\ \A m \in 1..n : g[m] = Swap(g[m - 1], n + 1 - m, pick[n + 1 - m])
<1>1. Swapped(found, n, pick, n, g)
  BY RunsExist
<1>2. \A m \in 0..n : g[m] = IF m = 0 THEN found ELSE Swap(g[m - 1], n + 1 - m, pick[n + 1 - m])
  BY <1>1 DEF Swapped
<1> QED  BY <1>2

\* It only puts things in another order,
LEMMA RunOrders ==
  ASSUME NEW n \in Nat, NEW S, NEW found \in InOrder(n, S), NEW pick \in Picks(n),
         NEW g, g = Runs(found, n, pick), NEW m \in 0..n
  PROVE  g[m] \in InOrder(n, S)
<1> DEFINE B == {k \in 0..n : g[k] \notin InOrder(n, S)}
<1> SUFFICES ASSUME B # {} PROVE FALSE
  OBVIOUS
<1>1. B \in SUBSET Nat
  OBVIOUS
<1>2. PICK b \in B : \A k \in B : b <= k
  <2> HIDE DEF B
  <2> QED  BY <1>1, SmallestOf
<1>3. b \in 0..n /\ g[b] \notin InOrder(n, S)
  OBVIOUS
<1>4. b # 0
  BY <1>3, RunSteps
<1>5. b - 1 \in 0..n /\ ~(b <= b - 1) /\ b \in 1..n /\ n + 1 - b \in 1..n
  BY <1>3, <1>4
<1>6. g[b - 1] \in InOrder(n, S)
  BY <1>2, <1>5
<1>7. pick[n + 1 - b] \in 1..n
  BY <1>5 DEF Picks
<1>8. g[b] = Swap(g[b - 1], n + 1 - b, pick[n + 1 - b])
  BY <1>5, RunSteps
<1> QED  BY <1>3, <1>5, <1>6, <1>7, <1>8, SwapOrder

\* it leaves alone what it has passed,
LEMMA RunPasses ==
  ASSUME NEW n \in Nat, NEW S, NEW found \in InOrder(n, S), NEW pick \in Picks(n),
         NEW g, g = Runs(found, n, pick), NEW m \in 0..n, NEW i \in (n - m + 1)..n
  PROVE  g[n][i] = g[m][i]
<1> DEFINE B == {k \in m..n : g[k][i] # g[m][i]}
<1> SUFFICES ASSUME B # {} PROVE FALSE
  OBVIOUS
<1>1. B \in SUBSET Nat
  OBVIOUS
<1>2. PICK b \in B : \A k \in B : b <= k
  <2> HIDE DEF B
  <2> QED  BY <1>1, SmallestOf
<1>3. b \in m..n /\ g[b][i] # g[m][i]
  OBVIOUS
<1>4. b # m
  BY <1>3
<1>5. b - 1 \in m..n /\ ~(b <= b - 1) /\ b \in 1..n /\ b - 1 \in 0..n
  BY <1>3, <1>4
<1>6. g[b - 1][i] = g[m][i]
  BY <1>2, <1>5
<1>7. PICK k : k = n + 1 - b
  OBVIOUS
<1>8. k \in 1..n /\ k < i /\ i \in 1..n
  BY <1>3, <1>4, <1>5, <1>7
<1>9. pick[k] \in 1..n /\ pick[k] <= k
  BY <1>8 DEF Picks
<1>10. k # i /\ pick[k] # i
  BY <1>8, <1>9
<1>11. g[b] = Swap(g[b - 1], k, pick[k])
  BY <1>5, <1>7, RunSteps
<1>12. g[b - 1] \in InOrder(n, S)
  BY <1>5, RunOrders
<1>13. g[b][i] = g[b - 1][i]
  <2>1. PICK s \in InOrder(n, S) : s = g[b - 1]
    BY <1>12
  <2>2. PICK j \in 1..n : j = pick[k]
    BY <1>9
  <2>3. DOMAIN s = 1..n /\ i \in 1..n /\ i # k /\ i # j
    BY <1>8, <1>10, <2>1, <2>2 DEF InOrder
  <2>4. Swap(s, k, j)[i] = s[i]
    BY ONLY <2>3 DEF Swap
  <2> QED  BY <1>11, <2>1, <2>2, <2>4
<1> QED  BY <1>3, <1>6, <1>13

\* and goes by the picks of the positions it has come to.
LEMMA RunSame ==
  ASSUME NEW n \in Nat, NEW found, NEW p, NEW q,
         NEW f, f = Runs(found, n, p), NEW g, g = Runs(found, n, q),
         NEW m \in 0..n, \A k \in (n - m + 1)..n : p[k] = q[k]
  PROVE  f[m] = g[m]
<1> DEFINE B == {k \in 0..m : f[k] # g[k]}
<1> SUFFICES ASSUME B # {} PROVE FALSE
  OBVIOUS
<1>1. B \in SUBSET Nat
  OBVIOUS
<1>2. PICK b \in B : \A k \in B : b <= k
  <2> HIDE DEF B
  <2> QED  BY <1>1, SmallestOf
<1>3. b \in 0..m /\ f[b] # g[b]
  OBVIOUS
<1>4. b # 0
  BY <1>3, RunSteps
<1>5. b - 1 \in 0..m /\ ~(b <= b - 1) /\ b \in 1..n /\ n + 1 - b \in (n - m + 1)..n
  BY <1>3, <1>4
<1>6. f[b - 1] = g[b - 1]
  BY <1>2, <1>5
<1>7. f[b] = Swap(f[b - 1], n + 1 - b, p[n + 1 - b]) /\ g[b] = Swap(g[b - 1], n + 1 - b, q[n + 1 - b])
  BY <1>5, RunSteps
<1> QED  BY <1>3, <1>5, <1>6, <1>7

\* The picks of a list are finitely many.
LEMMA PicksFinite == ASSUME NEW n \in Nat PROVE IsFiniteSet(Picks(n))
<1> DEFINE Pairs == (1..n) \X (1..n)
           h == [f \in Picks(n) |-> {<<i, f[i]>> : i \in 1..n}]
<1>1. IsFiniteSet(SUBSET Pairs)
  <2>1. IsFiniteSet(1..n)
    BY FS_Interval
  <2> QED  BY <2>1, FS_Product, FS_SUBSET
<1>2. h \in [Picks(n) -> SUBSET Pairs]
  <2> SUFFICES ASSUME NEW f \in Picks(n) PROVE {<<i, f[i]>> : i \in 1..n} \in SUBSET Pairs
    OBVIOUS
  <2>1. \A i \in 1..n : f[i] \in 1..n
    BY DEF Picks
  <2> QED  BY <2>1
<1>3. ASSUME NEW f \in Picks(n), NEW g \in Picks(n), h[f] = h[g] PROVE f = g
  <2>1. f \in [1..n -> 1..n] /\ g \in [1..n -> 1..n]
    BY DEF Picks
  <2>2. ASSUME NEW i \in 1..n PROVE f[i] = g[i]
    <3>1. <<i, f[i]>> \in h[g]
      BY <1>3
    <3>2. PICK j \in 1..n : <<i, f[i]>> = <<j, g[j]>>
      BY <3>1
    <3> QED  BY <3>2
  <2> QED  BY <2>1, <2>2
<1>4. h \in Injection(Picks(n), SUBSET Pairs)
  <2> HIDE DEF Pairs
  <2>1. DOMAIN h = Picks(n)
    OBVIOUS
  <2> HIDE DEF h
  <2> QED  BY <1>2, <1>3, <2>1 DEF Injection, IsInjective
<1> HIDE DEF h, Pairs
<1> QED  BY <1>1, <1>4, FS_Injection

\* Two ways to pick make two orders,
LEMMA PicksDiffer ==
  ASSUME NEW n \in Nat, NEW S, NEW found \in InOrder(n, S),
         NEW p \in Picks(n), NEW q \in Picks(n), Runs(found, n, p)[n] = Runs(found, n, q)[n]
  PROVE  p = q
<1> DEFINE D == {k \in 1..n : p[k] # q[k]}
<1>1. p \in [1..n -> 1..n] /\ q \in [1..n -> 1..n]
  BY DEF Picks
<1> SUFFICES ASSUME D # {} PROVE FALSE
  <2>1. SUFFICES ASSUME p # q PROVE D # {}
    OBVIOUS
  <2>2. \E k \in 1..n : p[k] # q[k]
    <3>1. (\A k \in 1..n : p[k] = q[k]) => p = q
      BY <1>1
    <3> QED  BY <2>1, <3>1
  <2> QED  BY <2>2
<1>2. PICK k \in D : \A j \in D : j <= k
  <2>1. D \in SUBSET (1..n)
    OBVIOUS
  <2> HIDE DEF D
  <2> QED  BY <2>1, LargestOf
<1>3. k \in 1..n /\ p[k] # q[k] /\ \A j \in (k + 1)..n : p[j] = q[j]
  BY <1>2
<1>4. PICK m : m = n - k
  OBVIOUS
<1>5. m \in 0..n /\ m + 1 \in 0..n /\ m + 1 \in 1..n /\ n - m + 1 = k + 1 /\ n + 1 - (m + 1) = k /\ (m + 1) - 1 = m
      /\ k \in (n - (m + 1) + 1)..n
  BY <1>3, <1>4
<1>6. PICK f : f = Runs(found, n, p)
  OBVIOUS
<1>7. PICK g : g = Runs(found, n, q)
  OBVIOUS
<1>8. f[m] = g[m]
  <2>1. \A j \in (n - m + 1)..n : p[j] = q[j]
    BY <1>3, <1>5
  <2> QED  BY <1>5, <1>6, <1>7, <2>1, RunSame
<1>9. PICK s \in InOrder(n, S) : s = f[m]
  BY <1>5, <1>6, RunOrders
<1>10. PICK a \in 1..n : a = p[k]
  BY <1>1, <1>3
<1>11. PICK b \in 1..n : b = q[k]
  BY <1>1, <1>3
<1>12. f[m + 1] = Swap(s, k, a) /\ g[m + 1] = Swap(s, k, b)
  <2>1. PICK l \in 1..n : l = m + 1
    BY <1>5
  <2>2. f[l] = Swap(f[l - 1], n + 1 - l, p[n + 1 - l]) /\ g[l] = Swap(g[l - 1], n + 1 - l, q[n + 1 - l])
    BY <1>6, <1>7, RunSteps
  <2>3. l - 1 = m /\ n + 1 - l = k
    BY <1>5, <2>1
  <2> QED  BY <1>8, <1>9, <1>10, <1>11, <2>1, <2>2, <2>3
<1>13. Swap(s, k, a)[k] = s[a] /\ Swap(s, k, b)[k] = s[b]
  BY <1>3, SwapOrder
<1>14. s[a] # s[b]
  BY <1>3, <1>10, <1>11 DEF InOrder
<1>15. f[n][k] = f[m + 1][k] /\ g[n][k] = g[m + 1][k]
  BY <1>5, <1>6, <1>7, RunPasses
<1> QED  BY <1>6, <1>7, <1>12, <1>13, <1>14, <1>15

\* and every order is made.
LEMMA PicksReach ==
  ASSUME NEW n \in Nat, NEW S, IsFiniteSet(S), Cardinality(S) = n,
         NEW found \in InOrder(n, S), NEW t \in InOrder(n, S)
  PROVE  \E p \in Picks(n) : Runs(found, n, p)[n] = t
<1> DEFINE Like(p, m) == \A i \in (m + 1)..n : Runs(found, n, p)[n][i] = t[i]
           M == {m \in 0..n : \E p \in Picks(n) : Like(p, m)}
<1>1. M \in SUBSET Nat
  OBVIOUS
<1>2. n \in M
  <2> DEFINE p == [k \in 1..n |-> k]
  <2>1. p \in Picks(n)
    BY DEF Picks
  <2>2. Like(p, n)
    OBVIOUS
  <2> QED  BY <2>1, <2>2
<1>3. PICK k \in M : \A m \in M : k <= m
  <2> HIDE DEF M
  <2> QED  BY <1>1, <1>2, SmallestOf
<1>4. PICK p \in Picks(n) : Like(p, k)
  OBVIOUS
<1>5. k \in 0..n
  OBVIOUS
<1>6. PICK f : f = Runs(found, n, p)
  OBVIOUS
<1>7. f[n] \in InOrder(n, S)
  BY <1>6, RunOrders
<1>8. CASE k = 0
  <2>1. \A i \in 1..n : f[n][i] = t[i]
    BY <1>4, <1>6, <1>8
  <2>2. f[n] = t
    BY <1>7, <2>1 DEF InOrder
  <2> QED  BY <1>6, <2>2
<1>9. CASE k # 0
  <2>1. PICK m : m = n - k
    OBVIOUS
  <2>2. m \in 0..n /\ m + 1 \in 0..n /\ m + 1 \in 1..n /\ n + 1 - (m + 1) = k /\ (m + 1) - 1 = m /\ n - m + 1 = k + 1
        /\ n - (m + 1) + 1 = k /\ k \in 1..n
    BY <1>5, <1>9, <2>1
  <2>3. PICK s \in InOrder(n, S) : s = f[m]
    BY <1>6, <2>2, RunOrders
  <2>4. \A i \in (k + 1)..n : s[i] = t[i]
    <3> TAKE i \in (k + 1)..n
    <3>1. f[n][i] = f[m][i]
      BY <1>6, <2>2, RunPasses
    <3> QED  BY <1>4, <1>6, <2>3, <3>1
  <2>5. PICK j \in 1..n : s[j] = t[k]
    <3>1. s \in Injection(1..n, S)
      BY DEF InOrder, Injection, IsInjective
    <3>2. Cardinality(1..n) = n
      BY FS_Interval
    <3>3. s \in Surjection(1..n, S)
      BY <3>1, <3>2, FS_Injection
    <3>4. t[k] \in S
      BY <2>2 DEF InOrder
    <3> QED  BY <3>3, <3>4 DEF Surjection
  <2>6. j <= k
    <3> SUFFICES ASSUME ~(j <= k) PROVE FALSE
      OBVIOUS
    <3>1. j \in (k + 1)..n /\ j # k
      BY <2>2
    <3>2. t[j] = t[k]
      BY <2>4, <2>5, <3>1
    <3> QED  BY <2>2, <3>1, <3>2 DEF InOrder
  <2>7. PICK q : q = [p EXCEPT ![k] = j]
    OBVIOUS
  <2>8. q \in Picks(n) /\ q[k] = j /\ \A i \in (k + 1)..n : q[i] = p[i]
    <3>1. p \in [1..n -> 1..n] /\ \A i \in 1..n : p[i] <= i
      BY DEF Picks
    <3>2. q \in [1..n -> 1..n] /\ q[k] = j /\ \A i \in 1..n : i # k => q[i] = p[i]
      BY <2>2, <2>7, <3>1
    <3>3. \A i \in 1..n : q[i] <= i
      BY <2>6, <3>1, <3>2
    <3>4. \A i \in (k + 1)..n : i \in 1..n /\ i # k
      BY <2>2
    <3> QED  BY <3>2, <3>3, <3>4 DEF Picks
  <2>9. PICK g : g = Runs(found, n, q)
    OBVIOUS
  <2>10. g[m] = s
    <3>1. \A i \in (n - m + 1)..n : p[i] = q[i]
      BY <2>2, <2>8
    <3>2. f[m] = g[m]
      BY <1>6, <2>2, <2>9, <3>1, RunSame
    <3> QED  BY <2>3, <3>2
  <2>11. g[m + 1] = Swap(s, k, j)
    <3>1. g[m + 1] = Swap(g[(m + 1) - 1], n + 1 - (m + 1), q[n + 1 - (m + 1)])
      BY <2>2, <2>9, RunSteps
    <3> QED  BY <2>2, <2>8, <2>10, <3>1
  <2>12. \A i \in k..n : Swap(s, k, j)[i] = t[i]
    <3> TAKE i \in k..n
    <3>1. i \in 1..n
      BY <2>2
    <3>2. Swap(s, k, j)[k] = s[j] /\ \A a \in 1..n : a # k /\ a # j => Swap(s, k, j)[a] = s[a]
      <4>1. k \in 1..n
        BY <2>2
      <4> QED  BY <4>1, SwapOrder
    <3>3. CASE i = k
      BY <2>5, <3>2, <3>3
    <3>4. CASE i # k
      <4>1. i \in (k + 1)..n /\ i # j
        BY <2>2, <2>6, <3>4
      <4> QED  BY <2>4, <3>1, <3>2, <3>4, <4>1
    <3> QED  BY <3>3, <3>4
  <2>13. \A i \in k..n : g[n][i] = t[i]
    <3> TAKE i \in k..n
    <3>1. i \in (n - (m + 1) + 1)..n
      BY <2>2
    <3>2. g[n][i] = g[m + 1][i]
      BY <2>2, <2>8, <2>9, <3>1, RunPasses
    <3> QED  BY <2>11, <2>12, <3>2
  <2>14. k - 1 \in 0..n /\ (k - 1) + 1 = k /\ ~(k <= k - 1)
    BY <2>2
  <2>15. Like(q, k - 1)
    BY <2>9, <2>13, <2>14
  <2>16. k - 1 \in M
    <3> HIDE DEF Like
    <3> QED  BY <2>8, <2>14, <2>15
  <2> QED  BY <1>3, <2>14, <2>16
<1> QED  BY <1>8, <1>9

\* A shuffle gives every order from exactly one choice of picks (shuffle).
LEMMA ShuffleFair ==
  ASSUME NEW S, IsFiniteSet(S), NEW found, found \in InOrder(Cardinality(S), S)
  PROVE  /\ {Shuffle(found, p) : p \in Picks(Len(found))} = SetToSeqs(S)
         /\ Cardinality(Picks(Len(found))) = Cardinality(SetToSeqs(S))
<1> DEFINE n == Cardinality(S)
<1>1. n \in Nat
  BY FS_CardinalityType
<1>2. Len(found) = n
  BY <1>1 DEF InOrder
<1>3. SetToSeqs(S) = InOrder(n, S)
  BY DEF SetToSeqs, InOrder
<1> HIDE DEF n
<1>4. \A p : Shuffle(found, p) = Runs(found, n, p)[n]
  BY <1>2, ShuffleRuns
<1>5. found \in InOrder(n, S) /\ Cardinality(S) = n
  BY DEF n
<1>6. \A p \in Picks(n) : Shuffle(found, p) \in InOrder(n, S)
  <2> TAKE p \in Picks(n)
  <2>1. n \in 0..n
    BY <1>1
  <2>2. Runs(found, n, p)[n] \in InOrder(n, S)
    BY <1>1, <1>5, <2>1, RunOrders
  <2> QED  BY <1>4, <2>2
<1>7. \A t \in InOrder(n, S) : \E p \in Picks(n) : Shuffle(found, p) = t
  BY <1>1, <1>4, <1>5, PicksReach
<1>8. \A p, q \in Picks(n) : Shuffle(found, p) = Shuffle(found, q) => p = q
  BY <1>1, <1>4, <1>5, PicksDiffer
<1>9. {Shuffle(found, p) : p \in Picks(n)} = InOrder(n, S)
  BY <1>6, <1>7
<1>10. Cardinality(Picks(n)) = Cardinality(InOrder(n, S))
  <2> DEFINE h == [p \in Picks(n) |-> Shuffle(found, p)]
  <2>1. h \in [Picks(n) -> InOrder(n, S)]
    BY <1>6
  <2>2. h \in Injection(Picks(n), InOrder(n, S))
    BY <1>8, <2>1 DEF Injection, IsInjective
  <2>3. h \in Surjection(Picks(n), InOrder(n, S))
    BY <1>7, <2>1 DEF Surjection
  <2>4. ExistsBijection(Picks(n), InOrder(n, S))
    BY <2>2, <2>3 DEF ExistsBijection, Bijection
  <2> QED  BY <1>1, <2>4, PicksFinite, FS_Bijection
<1> QED  BY <1>2, <1>3, <1>9, <1>10

\* All of S is in an order of it.
LEMMA OrderCovers ==
  ASSUME NEW n \in Nat, NEW S, IsFiniteSet(S), Cardinality(S) = n, NEW s \in InOrder(n, S), NEW x \in S
  PROVE  \E i \in 1..n : s[i] = x
<1>1. s \in Injection(1..n, S)
  BY DEF InOrder, Injection, IsInjective
<1>2. Cardinality(1..n) = n
  BY FS_Interval
<1>3. s \in Surjection(1..n, S)
  BY <1>1, <1>2, FS_Injection
<1> QED  BY <1>3 DEF Surjection

LEMMA OneOrder ==
  ASSUME NEW S, IsFiniteSet(S)
  PROVE  SetToSeq(S) \in InOrder(Cardinality(S), S) /\ ToSet(SetToSeq(S)) = S
<1>1. PICK n \in Nat : n = Cardinality(S) /\ Bijection(1..n, S) # {}
  BY FS_CardinalityType DEF ExistsBijection
<1>2. PICK f : f \in Bijection(1..n, S)
  BY <1>1
<1>3. f \in [1..n -> S] /\ IsInjective(f)
  BY <1>2 DEF Bijection, Injection
<1> DEFINE s == SetToSeq(S)
<1>4. s \in [1..n -> S] /\ IsInjective(s)
  BY <1>1, <1>3 DEF SetToSeq
<1> HIDE DEF s
<1>5. s \in InOrder(n, S)
  BY <1>4 DEF InOrder, IsInjective
<1>6. \A x \in S : \E i \in 1..n : s[i] = x
  BY <1>1, <1>5, OrderCovers
<1>7. ToSet(s) = S
  BY <1>4, <1>6 DEF ToSet
<1> QED  BY <1>1, <1>5, <1>7 DEF s

\* The tickets of the first n of a list.
Tickets(s, n) == SumFunctionOnSet([i \in 1..n |-> Share(s[i])], 1..n)

Weighted(s) == \A i \in DOMAIN s : campaign[s[i]].weight \in Int

LEMMA ShareCounts ==
  ASSUME NEW c, campaign[c].weight \in Int
  PROVE  Share(c) \in Nat /\ Share(c) >= 1
<1>1. PICK w \in Int : w = campaign[c].weight
  OBVIOUS
<1>2. Max({1, w}) = IF 1 >= w THEN 1 ELSE w
  BY MaxOfTwo
<1>3. Share(c) = Max({1, w})
  BY <1>1 DEF Share
<1> HIDE <1>1
<1> QED  BY ONLY <1>2, <1>3, w \in Int

LEMMA TicketsAdd ==
  ASSUME NEW T, NEW s \in Seq(T), Weighted(s), NEW n \in 1..Len(s)
  PROVE  Tickets(s, n) = Tickets(s, n - 1) + Share(s[n]) /\ Tickets(s, n - 1) \in Nat /\ Share(s[n]) \in Nat
<1>1. n \in Nat /\ n - 1 \in Nat /\ 1..n = (1..(n - 1)) \cup {n} /\ n \notin 1..(n - 1)
  OBVIOUS
<1> DEFINE f == [i \in 1..n |-> Share(s[i])]
           g == [i \in 1..(n - 1) |-> Share(s[i])]
<1>2. \A i \in 1..n : f[i] \in Nat /\ f[i] \in Int
  <2> TAKE i \in 1..n
  <2>1. i \in DOMAIN s
    OBVIOUS
  <2>2. Share(s[i]) \in Nat
    BY <2>1, ShareCounts DEF Weighted
  <2> QED  BY <2>2
<1>3. \A i \in 1..(n - 1) : f[i] = g[i] /\ g[i] \in Nat
  BY <1>1, <1>2
<1>4. f[n] = Share(s[n]) /\ f[n] \in Nat
  BY <1>1, <1>2
<1>5. IsFiniteSet(1..(n - 1))
  BY <1>1, FS_Interval
<1>9. Tickets(s, n) = SumFunctionOnSet(f, 1..n)
  BY DEF Tickets
<1>10. Tickets(s, n - 1) = SumFunctionOnSet(g, 1..(n - 1))
  BY DEF Tickets
<1> HIDE DEF f, g
<1>6. SumFunctionOnSet(f, (1..(n - 1)) \cup {n}) = f[n] + SumFunctionOnSet(f, 1..(n - 1))
  <2>1. \A i \in (1..(n - 1)) \cup {n} : f[i] \in Int
    BY <1>1, <1>2
  <2> QED  BY <1>1, <1>5, <2>1, SumAdd
<1>7. SumFunctionOnSet(f, 1..(n - 1)) = SumFunctionOnSet(g, 1..(n - 1))
  BY <1>3, <1>5, SumSame
<1>8. SumFunctionOnSet(g, 1..(n - 1)) \in Nat
  BY <1>3, <1>5, SumNat
<1>11. Tickets(s, n) = f[n] + SumFunctionOnSet(f, 1..(n - 1))
  BY <1>1, <1>6, <1>9
<1>12. PICK x, y, z : x = f[n] /\ y = SumFunctionOnSet(g, 1..(n - 1)) /\ z = Tickets(s, n)
  OBVIOUS
<1>13. x \in Nat /\ y \in Nat /\ z = x + y
  BY <1>4, <1>7, <1>8, <1>11, <1>12
<1>14. z = y + x
  BY ONLY <1>13
<1> QED  BY <1>4, <1>10, <1>12, <1>13, <1>14

LEMMA TicketsNat ==
  ASSUME NEW T, NEW s \in Seq(T), Weighted(s), NEW n \in 0..Len(s)
  PROVE  Tickets(s, n) \in Nat
<1>1. CASE n = 0
  <2>1. 1..0 = {}
    OBVIOUS
  <2>2. Tickets(s, 0) = 0
    BY <2>1, SumEmpty DEF Tickets
  <2> QED  BY <1>1, <2>2
<1>2. CASE n # 0
  <2>1. n \in 1..Len(s)
    BY <1>2
  <2> QED  BY <2>1, TicketsAdd
<1> QED  BY <1>1, <1>2

LEMMA TicketsNone == ASSUME NEW s PROVE Tickets(s, 0) = 0
<1>1. 1..0 = {}
  OBVIOUS
<1> QED  BY <1>1, SumEmpty DEF Tickets

\* The more of a list, the more tickets.
LEMMA TicketsGrow ==
  ASSUME NEW T, NEW s \in Seq(T), Weighted(s), NEW m \in 0..Len(s), NEW n \in m..Len(s)
  PROVE  Tickets(s, m) <= Tickets(s, n)
<1> DEFINE B == {k \in m..Len(s) : ~(Tickets(s, m) <= Tickets(s, k))}
<1> SUFFICES ASSUME B # {} PROVE FALSE
  OBVIOUS
<1>1. B \in SUBSET Nat
  OBVIOUS
<1>2. PICK b \in B : \A k \in B : b <= k
  <2> HIDE DEF B
  <2> QED  BY <1>1, SmallestOf
<1>3. b \in m..Len(s) /\ ~(Tickets(s, m) <= Tickets(s, b))
  OBVIOUS
<1>4. Tickets(s, m) \in Nat
  BY TicketsNat
<1>5. b # m
  BY <1>3, <1>4
<1>6. b - 1 \in m..Len(s) /\ ~(b <= b - 1) /\ b \in 1..Len(s)
  BY <1>3, <1>5
<1>7. Tickets(s, m) <= Tickets(s, b - 1)
  BY <1>2, <1>6
<1>8. Tickets(s, b) = Tickets(s, b - 1) + Share(s[b]) /\ Tickets(s, b - 1) \in Nat /\ Share(s[b]) \in Nat
  BY <1>6, TicketsAdd
<1> QED  BY <1>3, <1>4, <1>7, <1>8

LEMMA SharesAre ==
  ASSUME NEW T, NEW s \in Seq(T), Weighted(s), NEW n \in 0..Len(s)
  PROVE  Shares(SubSeq(s, 1, n)) = Tickets(s, n)
<1>1. DOMAIN SubSeq(s, 1, n) = 1..n /\ \A i \in 1..n : SubSeq(s, 1, n)[i] = s[i]
  OBVIOUS
<1> DEFINE f == [i \in DOMAIN SubSeq(s, 1, n) |-> Share(SubSeq(s, 1, n)[i])]
           g == [i \in 1..n |-> Share(s[i])]
<1>2. f = g /\ DOMAIN f = 1..n
  BY <1>1
<1>3. Shares(SubSeq(s, 1, n)) = SumFunction(f)
  BY DEF Shares
<1> HIDE DEF f
<1> QED  BY <1>2, <1>3 DEF Tickets, SumFunction

LEMMA LeastIs ==
  ASSUME NEW Q \in SUBSET Int, NEW m \in Q, \A q \in Q : m <= q
  PROVE  Min(Q) = m
<1>1. \E x \in Q : \A y \in Q : x =< y
  OBVIOUS
<1> DEFINE x == Min(Q)
<1>2. x \in Q /\ \A y \in Q : x =< y
  BY <1>1 DEF Min
<1> HIDE DEF x
<1>3. x \in Int /\ m \in Int /\ x =< m /\ m =< x
  BY <1>2
<1>4. x = m
  BY ONLY <1>3
<1> QED  BY <1>4 DEF x

\* A ticket draws the campaign it belongs to.
LEMMA DrawnBy ==
  ASSUME NEW T, NEW s \in Seq(T), Weighted(s), NEW m \in 1..Len(s), NEW k \in Nat,
         Tickets(s, m - 1) <= k, k < Tickets(s, m)
  PROVE  Drawn(s, k) = s[m]
<1> DEFINE Q == {n \in DOMAIN s : 2 * Shares(SubSeq(s, 1, n)) >= 2 * k + 1}
<1>1. DOMAIN s = 1..Len(s) /\ Len(s) \in Nat
  OBVIOUS
<1>2. \A n \in 1..Len(s) : Shares(SubSeq(s, 1, n)) = Tickets(s, n) /\ Tickets(s, n) \in Nat
  BY SharesAre, TicketsNat
<1>3. m \in Q
  <2>1. Shares(SubSeq(s, 1, m)) = Tickets(s, m) /\ Tickets(s, m) \in Nat
    BY <1>2
  <2>2. 2 * Tickets(s, m) >= 2 * k + 1
    BY <2>1
  <2> QED  BY <1>1, <2>1, <2>2
<1>4. ASSUME NEW n \in Q PROVE m <= n
  <2>1. n \in 1..Len(s) /\ 2 * Shares(SubSeq(s, 1, n)) >= 2 * k + 1
    BY <1>1
  <2>2. 2 * Tickets(s, n) >= 2 * k + 1 /\ Tickets(s, n) \in Nat
    BY <1>2, <2>1
  <2>3. SUFFICES ASSUME ~(m <= n) PROVE FALSE
    OBVIOUS
  <2>4. n \in 0..Len(s) /\ m - 1 \in n..Len(s)
    BY <1>1, <2>1, <2>3
  <2>5. Tickets(s, n) <= Tickets(s, m - 1) /\ Tickets(s, m - 1) \in Nat
    BY <2>4, TicketsGrow, TicketsAdd
  <2> QED  BY <2>2, <2>5
<1>5. Q \in SUBSET Int
  BY <1>1
<1> HIDE DEF Q
<1>6. Min(Q) = m
  BY <1>3, <1>4, <1>5, LeastIs
<1> QED  BY <1>6 DEF Drawn, Q

\* Every ticket belongs to one.
LEMMA DrawnOne ==
  ASSUME NEW T, NEW s \in Seq(T), Weighted(s), NEW k \in Nat, k < Tickets(s, Len(s))
  PROVE  \E m \in 1..Len(s) : Tickets(s, m - 1) <= k /\ k < Tickets(s, m)
<1> DEFINE M == {n \in 0..Len(s) : k < Tickets(s, n)}
<1>1. Len(s) \in M /\ M \in SUBSET Nat
  OBVIOUS
<1>2. PICK m \in M : \A n \in M : m <= n
  <2> HIDE DEF M
  <2> QED  BY <1>1, SmallestOf
<1>3. m \in 0..Len(s) /\ k < Tickets(s, m)
  OBVIOUS
<1>4. m # 0
  BY <1>3, TicketsNone
<1>5. m \in 1..Len(s) /\ m - 1 \in 0..Len(s) /\ ~(m <= m - 1)
  BY <1>3, <1>4
<1>6. ~(k < Tickets(s, m - 1))
  BY <1>2, <1>5
<1>7. Tickets(s, m - 1) \in Nat
  BY <1>5, TicketsNat
<1> QED  BY <1>3, <1>5, <1>6, <1>7

\* A draw gives a campaign as many tickets as its share (weightedShuffle).
LEMMA DrawFair ==
  ASSUME NEW n \in Nat, NEW S, NEW s \in InOrder(n, S), Weighted(s), NEW c \in ToSet(s)
  PROVE  Cardinality({k \in 0..(Shares(s) - 1) : Drawn(s, k) = c}) = Share(c)
<1>1. s \in Seq(S) /\ Len(s) = n /\ DOMAIN s = 1..n
  BY DEF InOrder
<1>2. PICK m \in 1..n : s[m] = c
  BY <1>1 DEF ToSet
<1>3. Shares(s) = Tickets(s, n)
  <2>1. SubSeq(s, 1, n) = s
    BY <1>1
  <2>2. n \in 0..Len(s)
    BY <1>1
  <2> QED  BY <1>1, <2>1, <2>2, SharesAre
<1>4. /\ Tickets(s, m) = Tickets(s, m - 1) + Share(c) /\ Tickets(s, m - 1) \in Nat /\ Share(c) \in Nat
      /\ Tickets(s, n) \in Nat /\ Tickets(s, m) <= Tickets(s, n)
  <2>1. m \in 1..Len(s) /\ m \in 0..Len(s) /\ n \in 0..Len(s) /\ n \in m..Len(s)
    BY <1>1
  <2>2. Tickets(s, m) = Tickets(s, m - 1) + Share(s[m]) /\ Tickets(s, m - 1) \in Nat /\ Share(s[m]) \in Nat
    BY <1>1, <2>1, TicketsAdd
  <2>3. Tickets(s, n) \in Nat /\ Tickets(s, m) <= Tickets(s, n)
    BY <1>1, <2>1, TicketsNat, TicketsGrow
  <2> QED  BY <1>2, <2>2, <2>3
<1> DEFINE a == Tickets(s, m - 1)
           b == Tickets(s, m)
           all == {k \in 0..(Shares(s) - 1) : Drawn(s, k) = c}
<1>5. \A k \in a..(b - 1) : k \in all
  <2> TAKE k \in a..(b - 1)
  <2>1. k \in Nat /\ Tickets(s, m - 1) <= k /\ k < Tickets(s, m) /\ k \in 0..(Shares(s) - 1)
    BY <1>3, <1>4
  <2>2. Drawn(s, k) = s[m]
    BY <1>1, <2>1, DrawnBy
  <2> QED  BY <1>2, <2>1, <2>2
<1>6. \A k \in all : k \in a..(b - 1)
  <2> TAKE k \in all
  <2>1. k \in Nat /\ k < Tickets(s, Len(s)) /\ Drawn(s, k) = c
    BY <1>1, <1>3, <1>4
  <2>2. PICK l \in 1..Len(s) : Tickets(s, l - 1) <= k /\ k < Tickets(s, l)
    BY <1>1, <2>1, DrawnOne
  <2>3. Drawn(s, k) = s[l]
    BY <1>1, <2>1, <2>2, DrawnBy
  <2>4. l = m
    BY <1>1, <1>2, <2>1, <2>3 DEF InOrder
  <2> HIDE DEF all
  <2> QED  BY <1>4, <2>1, <2>2, <2>4
<1>7. all = a..(b - 1)
  <2>1. \A k : k \in all => k \in a..(b - 1)
    <3> HIDE DEF all, a, b
    <3> QED  BY <1>6
  <2>2. \A k : k \in a..(b - 1) => k \in all
    <3> HIDE DEF all, a, b
    <3> QED  BY <1>5
  <2> DEFINE range == a..(b - 1)
  <2>3. \A k : k \in all <=> k \in range
    <3> HIDE DEF all, a, b
    <3> QED  BY <2>1, <2>2
  <2> HIDE DEF all, range
  <2>4. all = range
    BY <2>3
  <2> QED  BY <2>4 DEF range
<1>9. b = a + Share(c) /\ a \in Nat /\ Share(c) \in Nat
  BY <1>4
<1> HIDE DEF all, a, b
<1>11. a \in Int /\ b - 1 \in Int
  BY <1>9
<1>8. Cardinality(a..(b - 1)) = IF a > b - 1 THEN 0 ELSE (b - 1) - a + 1
  BY <1>11, FS_Interval
<1>10. Cardinality(a..(b - 1)) = Share(c)
  BY <1>8, <1>9
<1> QED  BY <1>7, <1>10 DEF all

\* The weights that the draws compare are whole numbers: in the rows, and in
\* what the updates that are under way will write.
WeightRow(row) == "weight" \in DOMAIN row /\ row.weight \in Int
WeightEdit(r) == r.op = "terms" /\ "weight" \in DOMAIN r.write => r.write.weight \in Int

WeightsInv ==
  /\ \A c \in Existing : WeightRow(campaign[c])
  /\ \A h \in InFlight : WeightEdit(request[h])

WeightsGiven(given) == \A t \in given : WeightRow(t)
WeightsChanged(changes) == \A change \in changes : "weight" \in DOMAIN change => change.weight \in Int

LEMMA OverWeights ==
  ASSUME NEW w, NEW row
  PROVE  /\ "weight" \in DOMAIN row \cup DOMAIN w => "weight" \in DOMAIN Over(w, row)
         /\ "weight" \in DOMAIN w => Over(w, row).weight = w.weight
         /\ "weight" \notin DOMAIN w /\ "weight" \in DOMAIN row => Over(w, row).weight = row.weight
BY DEF Over

\* A step that takes up or goes on with one request, and writes rows.
LEMMA WeightsStep ==
  ASSUME WeightsInv,
         \A g \in Handlers : \/ request'[g] = Null \/ request'[g] = request[g]
                             \/ WeightEdit(request'[g]),
         \A c \in CampaignIds : \/ campaign'[c] = Null \/ campaign'[c] = campaign[c]
                                \/ WeightRow(campaign'[c])
  PROVE  WeightsInv'
<1>1. ASSUME NEW c \in Existing' PROVE WeightRow(campaign'[c])
  <2>1. c \in CampaignIds /\ campaign'[c] # Null
    BY DEF Existing
  <2>2. CASE campaign'[c] = campaign[c]
    <3>1. c \in Existing
      BY <2>1, <2>2 DEF Existing
    <3>2. WeightRow(campaign[c])
      BY <3>1 DEF WeightsInv
    <3> QED  BY <2>2, <3>2
  <2> QED  BY <2>1, <2>2
<1>2. ASSUME NEW g \in InFlight' PROVE WeightEdit(request'[g])
  <2>1. g \in Handlers /\ request'[g] # Null
    BY DEF InFlight
  <2>2. CASE request'[g] = request[g]
    <3>1. g \in InFlight
      BY <2>1, <2>2 DEF InFlight
    <3>2. WeightEdit(request[g])
      BY <3>1 DEF WeightsInv
    <3> QED  BY <2>2, <3>2
  <2> QED  BY <2>1, <2>2
<1>3. \A c \in Existing' : WeightRow(campaign[c])'
  BY <1>1 DEF WeightRow
<1>4. \A g \in InFlight' : WeightEdit(request[g])'
  BY <1>2 DEF WeightEdit
<1> QED  BY <1>3, <1>4 DEF WeightsInv

LEMMA WeightsAside ==
  ASSUME TermsInv, WeightsInv, UNCHANGED campaign, NEW h \in Handlers, NEW r,
         Begin(h, r) \/ GoOn(h, r), r = Null \/ WeightEdit(r)
  PROVE  WeightsInv'
<1>1. request' = [request EXCEPT ![h] = r] /\ DOMAIN request = Handlers
  BY DEF Begin, GoOn, TermsInv
<1>2. \A g \in Handlers : request'[g] = Null \/ request'[g] = request[g] \/ WeightEdit(request'[g])
  BY <1>1
<1> QED  BY <1>2, WeightsStep

\* A step that writes rows and ends a request or leaves all of them.
LEMMA WeightsWritten ==
  ASSUME TermsInv, WeightsInv, UNCHANGED requestVars \/ \E h \in Handlers : End(h),
         \A c \in CampaignIds : \/ campaign'[c] = campaign[c] \/ WeightRow(campaign'[c])
  PROVE  WeightsInv'
<1>1. \A g \in Handlers : request'[g] = Null \/ request'[g] = request[g]
  BY DEF End, GoOn, TermsInv, requestVars
<1> QED  BY <1>1, WeightsStep

LEMMA WeightsStand ==
  ASSUME WeightsInv, UNCHANGED <<requestVars, campaignVars>> PROVE WeightsInv'
BY WeightsStep DEF requestVars, campaignVars

LEMMA CreationKeepsWeights ==
  ASSUME TermsInv, WeightsInv, NEW c \in CampaignIds, NEW t, WeightRow(t), CreateCampaign(c, t)
  PROVE  WeightsInv'
<1>1. PICK row : row = NewRow(t)
  OBVIOUS
<1>2. PICK led : led = NormalizeDestination(Destination(t))
  OBVIOUS
<1>3. PICK new : new = [counts |-> None, deleted |-> FALSE]
  OBVIOUS
<1>4. PICK base : base = Over(new, t)
  OBVIOUS
<1>5. row = Over(led, base)
  BY <1>1, <1>2, <1>3, <1>4 DEF NewRow
<1>6. "weight" \notin DOMAIN led /\ "weight" \notin DOMAIN new
  BY <1>2, <1>3 DEF NormalizeDestination
<1>7. "weight" \in DOMAIN base /\ base.weight = t.weight
  BY <1>4, <1>6, OverWeights DEF WeightRow
<1>8. WeightRow(row)
  BY <1>5, <1>6, <1>7, OverWeights DEF WeightRow
<1>9. campaign' = [campaign EXCEPT ![c] = row] /\ UNCHANGED requestVars /\ DOMAIN campaign = CampaignIds
  BY <1>1 DEF CreateCampaign, TermsInv
<1>10. \A k \in CampaignIds : campaign'[k] = campaign[k] \/ WeightRow(campaign'[k])
  BY <1>8, <1>9
<1> QED  BY <1>9, <1>10, WeightsWritten

LEMMA EditKeepsWeights ==
  ASSUME TermsInv, WeightsInv, NEW h \in Handlers, NEW c \in CampaignIds, NEW change,
         "weight" \in DOMAIN change => change.weight \in Int, BeginUpdateCampaign(h, c, change)
  PROVE  WeightsInv'
<1>1. PICK led : led = NormalizeDestination(Destination(Over(change, campaign[c])))
  OBVIOUS
<1>2. PICK write : write = IF DOMAIN change \cap DOMAIN led # {} THEN Over(led, change) ELSE change
  OBVIOUS
<1>3. PICK r : r = [op |-> "terms", on |-> {c}, campaign |-> c, write |-> write]
  OBVIOUS
<1>4. Begin(h, r) /\ UNCHANGED campaign
  BY <1>1, <1>2, <1>3 DEF BeginUpdateCampaign, campaignVars
<1>5. "weight" \notin DOMAIN led
  BY <1>1 DEF NormalizeDestination
<1>6. "weight" \in DOMAIN write => write.weight \in Int
  <2>1. CASE write = change
    BY <2>1
  <2>2. CASE write = Over(led, change)
    <3>1. "weight" \in DOMAIN write => "weight" \in DOMAIN change
      BY <1>5, <2>2 DEF Over
    <3> QED  BY <1>5, <2>2, <3>1, OverWeights
  <2> QED  BY <1>2, <2>1, <2>2
<1>7. WeightEdit(r)
  BY <1>3, <1>6 DEF WeightEdit
<1> QED  BY <1>4, <1>7, WeightsAside

LEMMA TrackingKeepsWeights ==
  ASSUME TermsInv, WeightsInv, NEW h \in Handlers
  PROVE  /\ \A c, type : BeginTrack(h, c, type) => WeightsInv'
         /\ \A shown, clicked : BeginBulk(h, shown, clicked) => WeightsInv'
         /\ CountNext(h) => WeightsInv'
<1>1. ASSUME NEW c, NEW type, BeginTrack(h, c, type) PROVE WeightsInv'
  <2>1. PICK r : r = [op |-> "track", on |-> {}, campaign |-> c, type |-> type]
    OBVIOUS
  <2>2. Begin(h, r) /\ UNCHANGED campaign /\ WeightEdit(r)
    BY <1>1, <2>1 DEF BeginTrack, campaignVars, WeightEdit
  <2> QED  BY <2>2, WeightsAside
<1>2. ASSUME NEW shown, NEW clicked, BeginBulk(h, shown, clicked) PROVE WeightsInv'
  <2>1. \E all : Begin(h, [op |-> "bulk", on |-> {}, held |-> {}, counted |-> {}, added |-> all, todo |-> all])
    BY <1>2 DEF BeginBulk
  <2>2. PICK r : Begin(h, r) /\ r.op = "bulk"
    BY <2>1
  <2>3. UNCHANGED campaign /\ WeightEdit(r)
    BY <1>2, <2>2 DEF BeginBulk, campaignVars, WeightEdit
  <2> QED  BY <2>2, <2>3, WeightsAside
<1>3. ASSUME CountNext(h) PROVE WeightsInv'
  <2>1. PICK old : old = request[h]
    OBVIOUS
  <2>2. \E a, b, c : GoOn(h, [old EXCEPT !.todo = a, !.held = b, !.counted = c])
    BY <1>3, <2>1 DEF CountNext
  <2>3. PICK a, b, c : GoOn(h, [old EXCEPT !.todo = a, !.held = b, !.counted = c])
    BY <2>2
  <2>4. PICK r : r = [old EXCEPT !.todo = a, !.held = b, !.counted = c]
    OBVIOUS
  <2>5. old.op = "bulk" /\ UNCHANGED campaign
    BY <1>3, <2>1 DEF CountNext, Doing, campaignVars
  <2>6. GoOn(h, r) /\ WeightEdit(r)
    BY <2>3, <2>4, <2>5 DEF WeightEdit
  <2> QED  BY <2>5, <2>6, WeightsAside
<1> QED  BY <1>1, <1>2, <1>3

\* The counters of a row and its mark of deletion are not its weight.
LEMMA WeightStays ==
  ASSUME NEW row, WeightRow(row)
  PROVE  /\ \A n : WeightRow([row EXCEPT !.counts = n])
         /\ \A d : WeightRow([row EXCEPT !.deleted = d])
BY DEF WeightRow

LEMMA BulkKeepsWeights ==
  ASSUME TermsInv, WeightsInv, NEW h \in Handlers, CommitBulk(h) PROVE WeightsInv'
<1>1. PICK r : r = request[h]
  OBVIOUS
<1> DEFINE n(c) == [t \in EventType |-> campaign[c].counts[t] + Tally(r.counted, c, t)]
           plus(c) == [campaign[c] EXCEPT !.counts = n(c)]
<1>2. /\ campaign' = [c \in CampaignIds |-> IF c \notin r.held THEN campaign[c] ELSE plus(c)]
      /\ End(h) /\ r.held \subseteq Existing
  BY <1>1 DEF CommitBulk, Doing, TermsInv, InFlight, CampaignRequestOK
<1> HIDE DEF n
<1>3. \A c \in Existing : WeightRow(plus(c))
  BY WeightStays DEF WeightsInv
<1> HIDE DEF plus
<1>4. \A c \in CampaignIds : campaign'[c] = campaign[c] \/ WeightRow(campaign'[c])
  BY <1>2, <1>3
<1> QED  BY <1>2, <1>4, WeightsWritten

LEMMA TrackKeepsWeights ==
  ASSUME TermsInv, WeightsInv, NEW h \in Handlers, TrackEvent(h) PROVE WeightsInv'
<1>1. PICK c : c = request[h].campaign
  OBVIOUS
<1>2. PICK row : row = campaign[c]
  OBVIOUS
<1>3. PICK n : n = [row.counts EXCEPT ![request[h].type] = @ + 1]
  OBVIOUS
<1>4. /\ c \in Existing /\ campaign' = [campaign EXCEPT ![c] = [row EXCEPT !.counts = n]] /\ End(h)
  BY <1>1, <1>2, <1>3 DEF TrackEvent, Doing, TermsInv, InFlight, CampaignRequestOK
<1>5. WeightRow([row EXCEPT !.counts = n])
  BY <1>2, <1>4, WeightStays DEF WeightsInv
<1>6. \A k \in CampaignIds : campaign'[k] = campaign[k] \/ WeightRow(campaign'[k])
  BY <1>4, <1>5 DEF TermsInv
<1> QED  BY <1>4, <1>6, WeightsWritten

LEMMA DeletionKeepsWeights ==
  ASSUME TermsInv, WeightsInv, NEW c \in CampaignIds, DeleteCampaign(c) PROVE WeightsInv'
<1>1. PICK row : row = campaign[c]
  OBVIOUS
<1>2. /\ c \in Existing /\ campaign' = [campaign EXCEPT ![c] = [row EXCEPT !.deleted = TRUE]]
      /\ UNCHANGED requestVars
  BY <1>1 DEF DeleteCampaign, LiveCampaigns, Existing
<1>3. WeightRow([row EXCEPT !.deleted = TRUE])
  BY <1>1, <1>2, WeightStays DEF WeightsInv
<1>4. \A k \in CampaignIds : campaign'[k] = campaign[k] \/ WeightRow(campaign'[k])
  BY <1>2, <1>3 DEF TermsInv
<1> QED  BY <1>2, <1>4, WeightsWritten

LEMMA WriteKeepsWeights ==
  ASSUME TermsInv, WeightsInv, NEW h \in Handlers, WriteTerms(h) PROVE WeightsInv'
<1>1. PICK r : r = request[h]
  OBVIOUS
<1>2. PICK c : c = r.campaign
  OBVIOUS
<1>3. PICK old, row : old = campaign[c] /\ row = Over(r.write, old)
  OBVIOUS
<1>4. h \in InFlight /\ r.op = "terms" /\ campaign' = [campaign EXCEPT ![c] = row] /\ End(h)
  BY <1>1, <1>2, <1>3 DEF WriteTerms, Doing, InFlight
<1>5. c \in Existing
  BY <1>1, <1>2, <1>4 DEF TermsInv, CampaignRequestOK, EditOK
<1>6. WeightRow(old) /\ WeightEdit(r)
  BY <1>1, <1>3, <1>4, <1>5 DEF WeightsInv
<1>7. "weight" \in DOMAIN r.write => r.write.weight \in Int
  BY <1>4, <1>6 DEF WeightEdit
<1>8. WeightRow(row)
  BY <1>3, <1>6, <1>7, OverWeights DEF WeightRow
<1>9. \A k \in CampaignIds : campaign'[k] = campaign[k] \/ WeightRow(campaign'[k])
  BY <1>4, <1>8 DEF TermsInv
<1> QED  BY <1>4, <1>9, WeightsWritten

LEMMA WeightsStepKeeps ==
  ASSUME TermsInv, WeightsInv, NEW given, NEW changes, NEW bulks,
         WeightsGiven(given), WeightsChanged(changes), CampaignsNext(given, changes, bulks, CampaignIds)
  PROVE  WeightsInv'
<1>1. ASSUME NEW c \in CampaignIds, NEW t \in given, CreateCampaign(c, t) PROVE WeightsInv'
  BY <1>1, CreationKeepsWeights DEF WeightsGiven
<1>2. ASSUME NEW c \in CampaignIds, DeleteCampaign(c) PROVE WeightsInv'
  BY <1>2, DeletionKeepsWeights
<1>3. ASSUME NEW c \in CampaignIds, NEW h \in Handlers, NEW change \in changes,
             BeginUpdateCampaign(h, c, change)
      PROVE  WeightsInv'
  BY <1>3, EditKeepsWeights DEF WeightsChanged
<1>4. ASSUME NEW c \in CampaignIds, NEW h \in Handlers, NEW type, BeginTrack(h, c, type) PROVE WeightsInv'
  BY <1>4, TrackingKeepsWeights
<1>5. ASSUME NEW h \in Handlers, NEW b \in bulks, BeginBulk(h, b.shown, b.clicked) PROVE WeightsInv'
  BY <1>5, TrackingKeepsWeights
<1>6. ASSUME NEW h \in Handlers, Deadlocked(h) \/ (Abandon(h) /\ UNCHANGED campaignVars) PROVE WeightsInv'
  BY <1>6, WeightsWritten DEF Deadlocked, Abandon, campaignVars
<1>7. ASSUME NEW h \in Handlers, CountNext(h) PROVE WeightsInv'
  BY <1>7, TrackingKeepsWeights
<1>8. ASSUME NEW h \in Handlers, CommitBulk(h) PROVE WeightsInv'
  BY <1>8, BulkKeepsWeights
<1>9. ASSUME NEW h \in Handlers, TrackEvent(h) PROVE WeightsInv'
  BY <1>9, TrackKeepsWeights
<1>10. ASSUME NEW h \in Handlers, WriteTerms(h) PROVE WeightsInv'
  BY <1>10, WriteKeepsWeights
<1> QED  BY <1>1, <1>2, <1>3, <1>4, <1>5, <1>6, <1>7, <1>8, <1>9, <1>10 DEF CampaignsNext

LEMMA WeightsShareFairly == TermsInv /\ WeightsInv => RotationFair
<1> SUFFICES ASSUME TermsInv, WeightsInv,
                    NEW q \in [signedIn : BOOLEAN, at : {Null}, amount : {Null, 1}, placement : {Null, "HOME"}]
             PROVE  LET found == SetToSeq(Matching(1, q)) IN
                    /\ {Shuffle(found, p) : p \in Picks(Len(found))} = SetToSeqs(ToSet(found))
                    /\ Cardinality(Picks(Len(found))) = Cardinality(SetToSeqs(ToSet(found)))
                    /\ \A c \in ToSet(found) :
                         Cardinality({k \in 0..(Shares(found) - 1) : Drawn(found, k) = c}) = Share(c)
  BY DEF RotationFair
<1> DEFINE S == Matching(1, q)
           found == SetToSeq(S)
<1>1. S \subseteq CampaignIds /\ \A c \in S : c \in Existing
  BY DEF Matching, LiveCampaigns, Existing
<1>2. IsFiniteSet(S)
  <2> HIDE DEF S
  <2> QED  BY <1>1, FS_Subset, CampaignAssumption
<1>3. \A c \in S : campaign[c].weight \in Int
  BY <1>1 DEF WeightsInv, WeightRow
<1> HIDE DEF S
<1>4. found \in InOrder(Cardinality(S), S) /\ ToSet(found) = S
  BY <1>2, OneOrder
<1>5. Cardinality(S) \in Nat
  BY <1>2, FS_CardinalityType
<1> HIDE DEF found
<1>6. /\ {Shuffle(found, p) : p \in Picks(Len(found))} = SetToSeqs(S)
      /\ Cardinality(Picks(Len(found))) = Cardinality(SetToSeqs(S))
  BY <1>2, <1>4, ShuffleFair
<1>7. Weighted(found)
  BY <1>3, <1>4, <1>5 DEF Weighted, InOrder
<1>8. \A c \in ToSet(found) :
        Cardinality({k \in 0..(Shares(found) - 1) : Drawn(found, k) = c}) = Share(c)
  BY <1>4, <1>5, <1>7, DrawFair
<1> QED  BY <1>4, <1>6, <1>8 DEF found, S

\* Whoever matches a visitor has his share of the rotation, for any number of
\* campaigns with any weights, whatever requests are under way: a shuffle gives
\* every order from exactly one choice of picks, and a draw gives a campaign as
\* many tickets as its weight, or one (shuffle, weightedShuffle).
THEOREM RotationAlwaysFair ==
  ASSUME NullIsNoRow, NEW given, NEW changes, NEW bulks, TermsNamed(given), ChangesOK(changes),
         WeightsGiven(given), WeightsChanged(changes)
  PROVE  CampaignsSpec(given, changes, bulks) => []RotationFair
<1>1. CampaignsInit /\ RequestsInit => TermsInv /\ WeightsInv
  BY DEF CampaignsInit, RequestsInit, TermsInv, WeightsInv, InFlight, Existing
<1>2. TermsInv /\ WeightsInv
      /\ [CampaignsNext(given, changes, bulks, CampaignIds)]_<<requestVars, campaignVars>>
        => TermsInv' /\ WeightsInv'
  BY TermsStepKeeps, WeightsStepKeeps, TermsStand, WeightsStand
<1> QED  BY <1>1, <1>2, WeightsShareFairly, PTL DEF CampaignsSpec

-----------------------------------------------------------------------------
(* The prices that offers make.                                             *)
LEMMA LeastPrice ==
  ASSUME NEW T \in SUBSET Nat, T # {}
  PROVE  Min(T) \in T
<1>1. PICK n \in T : \A m \in T : n <= m
  BY SmallestOf
<1>2. \E x \in T : \A y \in T : x <= y
  BY <1>1
<1> QED  BY <1>2 DEF Min

LEMMA PriceOfOffer ==
  ASSUME NEW base \in Nat, NEW d, Possible(d)
  PROVE  OfferPrice(base, d) \in Nat
<1>1. d.type \in {"PERCENTAGE", "FIXED"} /\ d.value \in Nat
  BY DEF Possible, Reduction
<1>2. PICK v \in Nat : v = d.value
  BY <1>1
<1>3. CASE d.type = "PERCENTAGE"
  <2>1. PICK k : k = 100 - v
    OBVIOUS
  <2>2. k \in Nat
    BY <1>2, <1>3, <2>1 DEF Possible
  <2>3. PICK n : n = base * k
    OBVIOUS
  <2>4. n \in Nat
    BY ONLY base \in Nat, <2>2, <2>3
  <2>5. (n + 50) \div 100 \in Nat
    BY ONLY <2>4
  <2>6. OfferPrice(base, d) = (n + 50) \div 100
    BY <1>2, <1>3, <2>1, <2>3 DEF OfferPrice, RoundHundredths
  <2> QED  BY <2>5, <2>6
<1>4. CASE d.type # "PERCENTAGE"
  <2>1. OfferPrice(base, d) = Max({0, base - v})
    BY <1>2, <1>4 DEF OfferPrice
  <2>2. \E x \in {0, base - v} : \A y \in {0, base - v} : x >= y
    OBVIOUS
  <2>3. Max({0, base - v}) \in {0, base - v} /\ Max({0, base - v}) >= 0
    BY <2>2 DEF Max
  <2> QED  BY <2>1, <2>3
<1> QED  BY <1>3, <1>4

\* The best of the offers that run is the price of one of them.
LEMMA BestIsOne ==
  ASSUME OffersInv, NEW base \in Nat, NEW os \in SUBSET Running, os # {}
  PROVE  \E o \in os : BestOffer(base, os) = OfferPrice(base, offer[o].discount)
<1> DEFINE T == {OfferPrice(base, offer[o].discount) : o \in os}
<1>1. \A o \in os : Possible(offer[o].discount)
  BY DEF Running, OffersInv
<1>2. T \in SUBSET Nat /\ T # {}
  BY <1>1, PriceOfOffer
<1>3. Min(T) \in T
  <2> HIDE DEF T
  <2> QED  BY <1>2, LeastPrice
<1> QED  BY <1>3 DEF BestOffer

LEMMA FlashesExact == ASSUME OffersInv PROVE FlashExact
<1> SUFFICES ASSUME NEW p \in Priced
             PROVE  LET regular == price[p].regular IN
                    /\ p \notin FlashDeals => ShownPrice(p, Null) = regular
                    /\ p \in FlashDeals /\ Reduces(p) => ShownPrice(p, Null) < regular
                    /\ OnProduct(p) = {} => CartPrice(p, price[p].variant) = ShownPrice(p, price[p].variant)
  BY DEF FlashExact
<1>1. PICK regular : regular = price[p].regular
  OBVIOUS
<1>2. PICK reduced : reduced = price[p].sale
  OBVIOUS
<1>3. PICK A, B : A = OnProduct(p) /\ B = OnCategory(price[p].category)
  OBVIOUS
<1>4. regular \in Nat /\ reduced \in Nat \cup {Null}
  BY <1>1, <1>2 DEF OffersInv, PriceRecord
<1>5. A \subseteq Running /\ B \subseteq Running
  BY <1>3 DEF OnProduct, OnCategory
<1>6. ShownPrice(p, Null) = IF A # {} THEN BestOffer(regular, A)
                            ELSE IF B # {} THEN BestOffer(regular, B)
                            ELSE IF reduced # Null THEN reduced ELSE regular
  BY <1>1, <1>2, <1>3 DEF ShownPrice, CalculateUnitPrice
<1>7. p \in FlashDeals <=> reduced # Null \/ A # {} \/ B # {}
  <2>1. A # {} <=> p \in UNION {offer[o].links : o \in {x \in Running : offer[x].scope = "PRODUCT"}}
    BY <1>3 DEF OnProduct
  <2>2. B # {} <=> price[p].category \in
                     {offer[o].category : o \in {x \in Running : offer[x].scope = "CATEGORY"}}
    BY <1>3 DEF OnCategory
  <2> QED  BY <1>2, <2>1, <2>2 DEF FlashDeals
<1>8. ASSUME p \in FlashDeals, Reduces(p) PROVE ShownPrice(p, Null) < regular
  <2>1. \A o \in Running : OfferPrice(regular, offer[o].discount) < regular
    BY <1>1, <1>8 DEF Reduces
  <2>2. \A os \in SUBSET Running : os # {} => BestOffer(regular, os) < regular
    BY <1>4, <2>1, BestIsOne
  <2>3. reduced # Null => reduced < regular
    BY <1>1, <1>2, <1>8 DEF Reduces
  <2> QED  BY <1>5, <1>6, <1>7, <1>8, <2>2, <2>3
<1>9. OnProduct(p) = {} => CartPrice(p, price[p].variant) = ShownPrice(p, price[p].variant)
  BY DEF CartPrice, ShownPrice
<1> QED  BY <1>1, <1>6, <1>7, <1>8, <1>9

\* For any offers, prices and reductions: a product is a flash deal exactly
\* when something reduces it, and then its price is lower than the regular one
\* as long as every reduction of it is a reduction; a cart has the price that
\* is shown where no offer on the product runs. No offer that was ever written
\* makes a price negative, so the best of those that run is always there.
THEOREM FlashAlwaysExact ==
  ASSUME NEW rows \in SUBSET OfferRecord, NEW changes \in SUBSET OfferChange
  PROVE  OffersSpec(rows, changes) => []FlashExact
<1>1. OffersInit /\ RequestsInit => OffersInv
  BY OffersBegin
<1>2. OffersInv /\ [OffersNext(rows, changes)]_<<requestVars, offerVars>> => OffersInv'
  BY OffersKeep, OffersStand
<1>3. OffersInv => FlashExact
  BY FlashesExact
<1> QED  BY <1>1, <1>2, <1>3, PTL DEF OffersSpec

-----------------------------------------------------------------------------
(* Reviews and ratings: reviews.service.ts.                                 *)

\* What is approved was read by the one who approved it.
Vetted(row) == row.status = "APPROVED" => row.vetted

\* What a request that has not written yet knows of the row.
KnowsReview(r, row) ==
  /\ r.op \in ReviewOps
  /\ r.op \in {"create", "update", "approve"} => r.stars \in Stars
  /\ r.first => r.op = "create"
  /\ ~r.first => row # Null

\* What it writes is vetted, if nobody else is on the review.
WritesVetted(r, row) ==
  IF r.row = Null THEN r.op = "approve" => r.stars = row.rating ELSE Vetted(r.row)

\* Its rating is what it leaves behind, if nobody else is on the product.
CountsExactly(r, i, rows) ==
  IF r.row = Null THEN r.recomputes \/ (r.op \in {"create", "update"} /\ ~Public(rows[i]))
  ELSE IF r.recomputes THEN r.result = Aggregate([rows EXCEPT ![i] = r.row], r.product)
  ELSE ~Public(r.row) /\ ~Public(rows[i])

ReviewRequestOK(r, i) ==
  /\ r \in ReviewRequest /\ r.on = {i} /\ r.product = bought[i]
  /\ r.row = Null => KnowsReview(r, review[i])
  /\ r.row # Null => r.result # Null
  /\ i \notin overlapped => WritesVetted(r, review[i])
  /\ r.alone => CountsExactly(r, i, review)

\* Two requests on one review overlap, and neither of two on one product is
\* alone.
ReviewsApart(g, h) ==
  /\ request[g].on \cap request[h].on \subseteq overlapped
  /\ request[g].alone => request[h].product # request[g].product

ReviewInv ==
  /\ DOMAIN request = Handlers
  /\ bought \in [Purchases -> Reviewed]
  /\ review \in [Purchases -> ReviewRow \cup {Null}]
  /\ rating \in [Reviewed -> Rating]
  /\ \A h \in InFlight : \E i \in Purchases : ReviewRequestOK(request[h], i)
  /\ \A g, h \in InFlight : g # h => ReviewsApart(g, h)
  /\ \A i \in Purchases \ overlapped : review[i] # Null => Vetted(review[i])
  /\ \A p \in Reviewed \ blurred : rating[p] = Aggregate(review, p)

-----------------------------------------------------------------------------
(* What the operators give.                                                 *)
LEMMA AggregateType ==
  ASSUME NEW rows \in [Purchases -> ReviewRow \cup {Null}], NEW p
  PROVE  Aggregate(rows, p) \in Rating
<1> DEFINE shown == {i \in Purchases : bought[i] = p /\ Public(rows[i])}
           f == [i \in shown |-> rows[i].rating]
<1>1. IsFiniteSet(shown)
  BY ReviewAssumption, FS_Subset
<1>2. \A i \in shown : f[i] \in Int
  BY ReviewAssumption DEF Public, Written, ReviewRow
<1>3. Cardinality(shown) \in Nat
  BY <1>1, FS_CardinalityType
<1>4. SumFunctionOnSet(f, shown) \in Int
  <2> HIDE DEF f, shown
  <2> QED  BY <1>1, <1>2, SumInt
<1> QED  BY <1>3, <1>4 DEF Aggregate, Rating

\* The public rows of a product decide its rating.
LEMMA AggregateSame ==
  ASSUME NEW rows, NEW rows2, NEW p,
         \A i \in Purchases : bought[i] = p =>
           /\ Public(rows[i]) <=> Public(rows2[i])
           /\ Public(rows[i]) => rows[i].rating = rows2[i].rating
  PROVE  Aggregate(rows, p) = Aggregate(rows2, p)
<1>1. {i \in Purchases : bought[i] = p /\ Public(rows[i])} = {i \in Purchases : bought[i] = p /\ Public(rows2[i])}
  OBVIOUS
<1>2. [i \in {i \in Purchases : bought[i] = p /\ Public(rows[i])} |-> rows[i].rating]
      = [i \in {i \in Purchases : bought[i] = p /\ Public(rows2[i])} |-> rows2[i].rating]
  BY <1>1
<1> QED  BY <1>1, <1>2 DEF Aggregate

LEMMA EditedFacts ==
  ASSUME NEW r \in ReviewRequest, r.row = Null, NEW row \in ReviewRow \cup {Null}, KnowsReview(r, row)
  PROVE  LET new == Edited(r.op, row, r.stars) IN
         /\ new \in ReviewRow
         /\ (row # Null => Vetted(row)) /\ WritesVetted(r, row) => Vetted(new)
         /\ r.op \in {"create", "update"} => ~Public(new)
<1>1. CASE r.op = "create"
  BY <1>1 DEF KnowsReview, Edited, ReviewRow, Vetted, Public
<1>2. ASSUME r.op # "create" PROVE row \in ReviewRow
  BY <1>2 DEF KnowsReview
<1>3. CASE r.op = "update"
  BY <1>2, <1>3 DEF KnowsReview, Edited, ReviewRow, Vetted, Public, Unread, Waiting
<1>4. CASE r.op = "restore"
  BY <1>2, <1>4 DEF KnowsReview, Edited, ReviewRow, Vetted, Public, Unread, Waiting
<1>5. CASE r.op = "delete"
  BY <1>2, <1>5 DEF KnowsReview, Edited, ReviewRow, Vetted, Public
<1>6. CASE r.op = "approve"
  BY <1>2, <1>6 DEF KnowsReview, Edited, ReviewRow, Vetted, Public, WritesVetted
<1>7. CASE r.op = "reject"
  BY <1>2, <1>7 DEF KnowsReview, Edited, ReviewRow, Vetted, Public, Unread
<1>8. CASE r.op = "hide"
  BY <1>2, <1>8 DEF KnowsReview, Edited, ReviewRow, Vetted, Public
<1>9. CASE r.op = "show"
  BY <1>2, <1>9 DEF KnowsReview, Edited, ReviewRow, Vetted, Public
<1> QED  BY <1>1, <1>3, <1>4, <1>5, <1>6, <1>7, <1>8, <1>9 DEF KnowsReview, ReviewOps

LEMMA StillOK ==
  ASSUME NEW r, NEW i, ReviewRequestOK(r, i), UNCHANGED reviewVars, overlapped \subseteq overlapped'
  PROVE  ReviewRequestOK(r, i)'
BY DEF ReviewRequestOK, reviewVars, CountsExactly, Aggregate

LEMMA NotAloneOK ==
  ASSUME NEW r, NEW i, ReviewRequestOK(r, i)
  PROVE  ReviewRequestOK([r EXCEPT !.alone = FALSE], i)
<1> DEFINE q == [r EXCEPT !.alone = FALSE]
<1>1. r \in ReviewRequest
  BY DEF ReviewRequestOK
<1>2. q \in ReviewRequest /\ q.op = r.op /\ q.on = r.on /\ q.product = r.product /\ q.stars = r.stars
      /\ q.first = r.first /\ q.row = r.row /\ q.result = r.result /\ q.alone = FALSE
  BY <1>1 DEF ReviewRequest
<1> HIDE DEF q
<1> QED  BY <1>2 DEF ReviewRequestOK, KnowsReview, WritesVetted, q

-----------------------------------------------------------------------------
(* The steps.                                                               *)
LEMMA BeginReviewKeeps ==
  ASSUME ReviewInv, NEW h \in Handlers, NEW i \in Purchases, NEW op \in ReviewOps,
         NEW stars \in Stars \cup {Null}, BeginReview(h, op, i, stars),
         op \in {"create", "update", "approve"} => stars \in Stars,
         op = "approve" => stars = review[i].rating
  PROVE  ReviewInv'
<1> DEFINE near == {g \in InFlight : request[g].product = bought[i]}
           new == [op |-> op, on |-> {i}, product |-> bought[i], stars |-> stars,
                   first |-> review[i] = Null, recomputes |-> Recomputes(op, review[i]),
                   alone |-> near = {}, row |-> Null, result |-> Null]
<1>1. /\ request[h] = Null /\ Allowed(op, review[i])
      /\ request' = [g \in Handlers |-> IF g = h THEN new ELSE
                      IF g \in near THEN [request[g] EXCEPT !.alone = FALSE] ELSE request[g]]
      /\ overlapped' = overlapped \cup UNION {{i} \cap request[g].on : g \in InFlight}
      /\ UNCHANGED reviewVars
  BY DEF BeginReview
<1>0. PICK r : r = new
  OBVIOUS
<1>2. /\ op # "create" => review[i] # Null
      /\ op = "create" => ~Public(review[i])
  BY <1>1 DEF Allowed, Written, Public, ReviewOps
<1>3. Recomputes(op, review[i]) \in BOOLEAN
      /\ (~Recomputes(op, review[i]) => op \in {"create", "update"} /\ ~Public(review[i]))
  BY <1>2 DEF Recomputes, Public, Written
<1>4. r \in ReviewRequest
  BY <1>0, <1>3 DEF ReviewRequest, ReviewInv
<1>5. /\ r.op = op /\ r.on = {i} /\ r.product = bought[i] /\ r.stars = stars /\ r.row = Null
      /\ r.first = (review[i] = Null) /\ r.recomputes = Recomputes(op, review[i])
      /\ r.alone = (near = {})
  BY <1>0
<1> HIDE DEF new
<1>6. ReviewRequestOK(r, i)
  BY <1>2, <1>3, <1>4, <1>5 DEF ReviewRequestOK, KnowsReview, WritesVetted, CountsExactly
<1>7. overlapped \subseteq overlapped' /\ r # Null
  BY <1>1, <1>4, ReviewAssumption
<1>8. ReviewRequestOK(r, i)'
  BY <1>1, <1>6, <1>7, StillOK
<1>9. \A g \in Handlers \ {h} :
        request'[g] = IF g \in near THEN [request[g] EXCEPT !.alone = FALSE] ELSE request[g]
  BY <1>1
<1>10. \A g \in InFlight' : g # h => g \in InFlight
  BY <1>9 DEF InFlight
<1>11. request'[h] = r /\ DOMAIN request' = Handlers /\ UNCHANGED <<review, bought, rating, blurred>>
  BY <1>0, <1>1 DEF reviewVars
<1>12. ASSUME NEW g \in InFlight, g # h
       PROVE  \E j \in Purchases : ReviewRequestOK(request[g], j)'
  <2>0. PICK r2 : r2 = request[g]
    OBVIOUS
  <2>1. PICK j \in Purchases : ReviewRequestOK(r2, j)
    BY <2>0 DEF ReviewInv
  <2>2. PICK r3 : r3 = [r2 EXCEPT !.alone = FALSE]
    OBVIOUS
  <2>3. ReviewRequestOK(r3, j)
    BY <2>1, <2>2, NotAloneOK
  <2>4. ReviewRequestOK(r2, j)' /\ ReviewRequestOK(r3, j)'
    BY <1>1, <1>7, <2>1, <2>3, StillOK
  <2>5. request'[g] = r2 \/ request'[g] = r3
    BY <1>9, <1>12, <2>0, <2>2 DEF InFlight
  <2> QED  BY <2>4, <2>5
<1>13. \A g \in InFlight' : \E j \in Purchases : ReviewRequestOK(request[g], j)'
  BY <1>8, <1>10, <1>11, <1>12
<1>14. \A g \in InFlight : g # h =>
         /\ request'[g].on = request[g].on /\ request'[g].product = request[g].product
         /\ request'[g].alone => request[g].alone /\ g \notin near
         /\ {i} \cap request[g].on \subseteq overlapped'
  <2> SUFFICES ASSUME NEW g \in InFlight, g # h
               PROVE  /\ request'[g].on = request[g].on /\ request'[g].product = request[g].product
                      /\ request'[g].alone => request[g].alone /\ g \notin near
                      /\ {i} \cap request[g].on \subseteq overlapped'
    OBVIOUS
  <2>1. request[g] \in ReviewRequest
    BY DEF ReviewInv, ReviewRequestOK
  <2>2. request'[g] = IF g \in near THEN [request[g] EXCEPT !.alone = FALSE] ELSE request[g]
    BY <1>9 DEF InFlight
  <2>3. {i} \cap request[g].on \subseteq overlapped'
    BY <1>1
  <2> HIDE DEF near
  <2> QED  BY <2>1, <2>2, <2>3 DEF ReviewRequest
<1>15. \A f, g \in InFlight' : f # g => ReviewsApart(f, g)'
  <2> SUFFICES ASSUME NEW f \in InFlight', NEW g \in InFlight', f # g
               PROVE  ReviewsApart(f, g)'
    OBVIOUS
  <2>1. CASE f # h /\ g # h
    <3>1. ReviewsApart(f, g) /\ f \in InFlight /\ g \in InFlight
      BY <1>10, <2>1 DEF ReviewInv
    <3> QED  BY <1>7, <1>14, <2>1, <3>1 DEF ReviewsApart
  <2>2. CASE f = h
    <3>1. g \in InFlight /\ g # h
      BY <1>10, <2>2
    <3>2. request'[f] = r /\ request'[g].on = request[g].on /\ request'[g].product = request[g].product
          /\ {i} \cap request[g].on \subseteq overlapped'
      BY <1>11, <1>14, <2>2, <3>1
    <3>3. r.alone => request[g].product # bought[i]
      BY <1>5, <3>1
    <3> QED  BY <1>5, <3>2, <3>3 DEF ReviewsApart
  <2>3. CASE g = h
    <3>1. f \in InFlight /\ f # h
      BY <1>10, <2>3
    <3>2. /\ request'[g] = r /\ request'[f].on = request[f].on /\ request'[f].product = request[f].product
          /\ {i} \cap request[f].on \subseteq overlapped'
          /\ request'[f].alone => f \notin near
      BY <1>11, <1>14, <2>3, <3>1
    <3>3. request'[f].alone => request[f].product # bought[i]
      BY <3>1, <3>2
    <3> QED  BY <1>5, <3>2, <3>3 DEF ReviewsApart
  <2> QED  BY <2>1, <2>2, <2>3
<1>16. \A p \in Reviewed \ blurred' : rating'[p] = Aggregate(review, p)'
  BY <1>11 DEF ReviewInv, Aggregate
<1>17. bought' \in [Purchases -> Reviewed] /\ review' \in [Purchases -> ReviewRow \cup {Null}]
       /\ rating' \in [Reviewed -> Rating]
       /\ \A j \in Purchases \ overlapped' : review'[j] # Null => Vetted(review'[j])
  BY <1>7, <1>11 DEF ReviewInv
<1> QED  BY <1>11, <1>13, <1>15, <1>16, <1>17 DEF ReviewInv, Vetted

\* A request goes on as r, or ends.
LEMMA ReviewGoesOn ==
  ASSUME ReviewInv, NEW h \in InFlight, NEW r, GoOn(h, r), UNCHANGED reviewVars,
         r # Null => /\ \E i \in Purchases : ReviewRequestOK(r, i)
                     /\ r.on = request[h].on /\ r.product = request[h].product
                     /\ r.alone = request[h].alone
  PROVE  ReviewInv'
<1>1. /\ DOMAIN request' = Handlers /\ overlapped' = overlapped /\ h \in Handlers /\ request'[h] = r
      /\ \A g \in Handlers \ {h} : request'[g] = request[g]
      /\ UNCHANGED <<review, bought, rating, blurred>>
  BY DEF GoOn, ReviewInv, InFlight, reviewVars
<1>2. \A g \in InFlight' : g \in InFlight /\ (g # h => request'[g] = request[g])
  BY <1>1 DEF InFlight
<1>3. \A q, i : ReviewRequestOK(q, i) => ReviewRequestOK(q, i)'
  BY <1>1, StillOK
<1>4. \A g \in InFlight' : \E i \in Purchases : ReviewRequestOK(request[g], i)'
  <2> SUFFICES ASSUME NEW g \in InFlight' PROVE \E i \in Purchases : ReviewRequestOK(request[g], i)'
    OBVIOUS
  <2>0. PICK q : q = request'[g]
    OBVIOUS
  <2>1. \E i \in Purchases : ReviewRequestOK(q, i)
    <3>1. CASE g = h
      BY <1>1, <2>0, <3>1 DEF InFlight
    <3>2. CASE g # h
      BY <1>2, <2>0, <3>2 DEF ReviewInv
    <3> QED  BY <3>1, <3>2
  <2> QED  BY <1>3, <2>0, <2>1
<1>5. \A g \in InFlight' : /\ request'[g].on = request[g].on /\ request'[g].product = request[g].product
                           /\ request'[g].alone = request[g].alone
  BY <1>1, <1>2 DEF InFlight
<1>6. \A f, g \in InFlight' : f # g => ReviewsApart(f, g)'
  BY <1>1, <1>2, <1>5 DEF ReviewInv, ReviewsApart
<1>7. \A p \in Reviewed \ blurred' : rating'[p] = Aggregate(review, p)'
  BY <1>1 DEF ReviewInv, Aggregate
<1> QED  BY <1>1, <1>4, <1>6, <1>7 DEF ReviewInv, Vetted

LEMMA WriteReviewKeeps ==
  ASSUME ReviewInv, NEW h \in Handlers, NEW i \in Purchases, WriteReview(h, i)
  PROVE  ReviewInv'
<1>0. PICK r : r = request[h]
  OBVIOUS
<1>1. h \in InFlight /\ r # Null /\ r.on = {i} /\ r.row = Null
  BY <1>0 DEF WriteReview, InFlight
<1>2. ReviewRequestOK(r, i)
  BY <1>0, <1>1 DEF ReviewInv, ReviewRequestOK
<1>3. r \in ReviewRequest /\ KnowsReview(r, review[i]) /\ r.product = bought[i]
      /\ (i \notin overlapped => WritesVetted(r, review[i]))
      /\ (r.alone => CountsExactly(r, i, review))
  BY <1>1, <1>2 DEF ReviewRequestOK
<1>4. PICK row : row = Edited(r.op, review[i], r.stars)
  OBVIOUS
<1>5. PICK result : result = IF r.recomputes THEN Aggregate([review EXCEPT ![i] = row], r.product)
                             ELSE rating[r.product]
  OBVIOUS
<1>6. /\ row \in ReviewRow
      /\ i \notin overlapped => Vetted(row)
      /\ r.op \in {"create", "update"} => ~Public(row)
  <2>1. review[i] \in ReviewRow \cup {Null} /\ (i \notin overlapped /\ review[i] # Null => Vetted(review[i]))
    BY DEF ReviewInv
  <2> QED  BY <1>1, <1>3, <1>4, <2>1, EditedFacts
<1>7. result \in Rating
  <2>1. [review EXCEPT ![i] = row] \in [Purchases -> ReviewRow \cup {Null}]
    BY <1>6 DEF ReviewInv
  <2>2. Aggregate([review EXCEPT ![i] = row], r.product) \in Rating
    BY <2>1, AggregateType
  <2>3. r.product \in Reviewed /\ rating[r.product] \in Rating
    BY <1>3 DEF ReviewRequest, ReviewInv
  <2> QED  BY <1>5, <2>2, <2>3
<1> DEFINE q == [r EXCEPT !.op = "commit", !.stars = Null, !.first = FALSE, !.row = row, !.result = result]
<1>8. GoOn(h, q) /\ UNCHANGED reviewVars
  BY <1>0, <1>4, <1>5 DEF WriteReview
<1>9. /\ q \in ReviewRequest /\ q.op = "commit" /\ q.on = r.on /\ q.product = r.product
      /\ q.row = row /\ q.result = result /\ q.alone = r.alone /\ q.recomputes = r.recomputes
  BY <1>3, <1>6, <1>7 DEF ReviewRequest
<1> HIDE DEF q
<1>10. row # Null
  BY <1>6, ReviewAssumption
<1>11. result # Null
  BY <1>7, ReviewAssumption
<1>12. r.alone => CountsExactly(q, i, review)
  BY <1>1, <1>3, <1>5, <1>6, <1>9, <1>10 DEF CountsExactly
<1>13. ReviewRequestOK(q, i)
  BY <1>1, <1>3, <1>6, <1>9, <1>10, <1>11, <1>12 DEF ReviewRequestOK, WritesVetted
<1> QED  BY <1>0, <1>1, <1>8, <1>9, <1>13, ReviewGoesOn

LEMMA CommitReviewKeeps ==
  ASSUME ReviewInv, NEW h \in Handlers, NEW i \in Purchases, CommitReview(h, i)
  PROVE  ReviewInv'
<1>0. PICK r : r = request[h]
  OBVIOUS
<1>1. /\ h \in InFlight /\ r.on = {i} /\ r.row # Null
      /\ review' = [review EXCEPT ![i] = r.row]
      /\ rating' = IF r.recomputes THEN [rating EXCEPT ![r.product] = r.result] ELSE rating
      /\ blurred' = IF r.alone THEN (IF r.recomputes THEN blurred \ {r.product} ELSE blurred)
                    ELSE blurred \cup {r.product}
      /\ request' = [request EXCEPT ![h] = Null] /\ overlapped' = overlapped /\ bought' = bought
  BY <1>0 DEF CommitReview, InFlight, End, GoOn
<1>2. ReviewRequestOK(r, i)
  BY <1>0, <1>1 DEF ReviewInv, ReviewRequestOK
<1>3. /\ r \in ReviewRequest /\ r.row \in ReviewRow /\ r.product = bought[i] /\ r.product \in Reviewed
      /\ r.result # Null
      /\ i \notin overlapped => Vetted(r.row)
      /\ r.alone => CountsExactly(r, i, review)
  BY <1>1, <1>2 DEF ReviewRequestOK, ReviewRequest, WritesVetted
<1>4. r.result \in Rating
  BY <1>1, <1>3 DEF ReviewRequest, ReviewRequestOK
<1>5. review' \in [Purchases -> ReviewRow \cup {Null}] /\ rating' \in [Reviewed -> Rating]
  BY <1>1, <1>3, <1>4 DEF ReviewInv
<1>6. /\ review'[i] = r.row /\ \A j \in Purchases \ {i} : review'[j] = review[j]
      /\ \A p \in Reviewed \ {r.product} : rating'[p] = rating[p]
  BY <1>1, <1>3 DEF ReviewInv
<1>7. /\ DOMAIN request' = Handlers
      /\ \A g \in InFlight' : g \in InFlight /\ g # h /\ request'[g] = request[g]
  BY <1>1 DEF ReviewInv, InFlight
<1>8. ASSUME NEW g \in InFlight, g # h
      PROVE  \E j \in Purchases : ReviewRequestOK(request[g], j)'
  <2>0. request'[g] = request[g]
    BY <1>1, <1>8 DEF InFlight
  <2>1. PICK q : q = request[g]
    OBVIOUS
  <2>2. PICK j \in Purchases : ReviewRequestOK(q, j)
    BY <2>1 DEF ReviewInv
  <2>3. q \in ReviewRequest /\ q.on = {j} /\ q.product = bought[j]
        /\ (q.row = Null => KnowsReview(q, review[j])) /\ (q.row # Null => q.result # Null)
        /\ (j \notin overlapped => WritesVetted(q, review[j]))
        /\ (q.alone => CountsExactly(q, j, review))
    BY <2>2 DEF ReviewRequestOK
  <2>4. q.on \cap r.on \subseteq overlapped /\ (q.alone => r.product # q.product)
    BY <1>0, <1>1, <1>8, <2>1 DEF ReviewInv, ReviewsApart
  <2>5. j = i => j \in overlapped /\ ~q.alone
    BY <1>1, <1>3, <2>3, <2>4
  <2>6. q.row = Null => KnowsReview(q, review'[j])
    <3>1. review'[j] = Null => review[j] = Null
      BY <1>3, <1>6, ReviewAssumption
    <3> QED  BY <2>3, <3>1 DEF KnowsReview
  <2>7. j \notin overlapped => WritesVetted(q, review'[j])
    BY <1>6, <2>3, <2>5
  <2>8. ASSUME q.alone PROVE CountsExactly(q, j, review)'
    <3>1. j # i /\ review'[j] = review[j] /\ bought[i] # q.product
      BY <1>3, <1>6, <2>4, <2>5, <2>8
    <3> DEFINE old == [review EXCEPT ![j] = q.row]
               new == [review' EXCEPT ![j] = q.row]
    <3>2. \A k \in Purchases : bought[k] = q.product => old[k] = new[k]
      BY <1>5, <1>6, <3>1 DEF ReviewInv
    <3>3. Aggregate(old, q.product) = Aggregate(new, q.product)
      <4> HIDE DEF old, new
      <4> QED  BY <3>2, AggregateSame
    <3>4. Aggregate(new, q.product) = Aggregate([review EXCEPT ![j] = q.row], q.product)'
      BY <1>1 DEF Aggregate
    <3> QED  BY <2>3, <2>8, <3>1, <3>3, <3>4 DEF CountsExactly
  <2>9. ReviewRequestOK(q, j)'
    BY <1>1, <2>3, <2>6, <2>7, <2>8 DEF ReviewRequestOK
  <2> QED  BY <2>0, <2>1, <2>9
<1>9. \A g \in InFlight' : \E j \in Purchases : ReviewRequestOK(request[g], j)'
  BY <1>7, <1>8
<1>10. \A f, g \in InFlight' : f # g => ReviewsApart(f, g)'
  BY <1>1, <1>7 DEF ReviewInv, ReviewsApart
<1>11. \A j \in Purchases \ overlapped' : review'[j] # Null => Vetted(review'[j])
  BY <1>1, <1>3, <1>6 DEF ReviewInv
<1>12. ASSUME NEW p \in Reviewed \ blurred'
       PROVE  rating'[p] = Aggregate(review, p)'
  <2>1. Aggregate(review, p)' = Aggregate(review', p)
    BY <1>1 DEF Aggregate
  <2>2. CASE p # r.product
    <3>1. p \notin blurred /\ rating'[p] = rating[p]
      BY <1>1, <1>6, <1>12, <2>2
    <3>2. \A k \in Purchases : bought[k] = p => review[k] = review'[k]
      BY <1>3, <1>6, <2>2
    <3>3. Aggregate(review, p) = Aggregate(review', p)
      BY <3>2, AggregateSame
    <3> QED  BY <1>12, <2>1, <3>1, <3>3 DEF ReviewInv
  <2>3. CASE p = r.product /\ r.recomputes
    <3>1. r.alone /\ rating'[p] = r.result
      BY <1>1, <1>3, <1>12, <2>3 DEF ReviewInv
    <3> QED  BY <1>1, <1>3, <2>1, <2>3, <3>1 DEF CountsExactly
  <2>4. CASE p = r.product /\ ~r.recomputes
    <3>1. r.alone /\ p \notin blurred /\ rating'[p] = rating[p]
      BY <1>1, <1>12, <2>4
    <3>2. ~Public(review[i]) /\ ~Public(review'[i])
      BY <1>1, <1>3, <1>6, <2>4, <3>1 DEF CountsExactly
    <3>3. \A k \in Purchases : bought[k] = p => /\ Public(review[k]) <=> Public(review'[k])
                                                /\ Public(review[k]) => review[k].rating = review'[k].rating
      BY <1>6, <3>2
    <3>4. Aggregate(review, p) = Aggregate(review', p)
      BY <3>3, AggregateSame
    <3> QED  BY <1>12, <2>1, <3>1, <3>4 DEF ReviewInv
  <2> QED  BY <2>2, <2>3, <2>4
<1>13. bought' \in [Purchases -> Reviewed]
  BY <1>1 DEF ReviewInv
<1> QED  BY <1>5, <1>7, <1>9, <1>10, <1>11, <1>12, <1>13 DEF ReviewInv, Vetted

LEMMA ReviewsKeep == ReviewInv /\ [ReviewsNext(Purchases, Stars)]_<<requestVars, reviewVars>> => ReviewInv'
<1> SUFFICES ASSUME ReviewInv, [ReviewsNext(Purchases, Stars)]_<<requestVars, reviewVars>>
             PROVE  ReviewInv'
  OBVIOUS
<1>1. ASSUME UNCHANGED <<requestVars, reviewVars>>
      PROVE  ReviewInv'
  <2>1. UNCHANGED <<request, overlapped, review, bought, rating, blurred>> /\ InFlight' = InFlight
    BY <1>1 DEF requestVars, reviewVars, InFlight
  <2>2. \A q, i : ReviewRequestOK(q, i) => ReviewRequestOK(q, i)'
    BY <1>1, <2>1, StillOK
  <2>3. \A h \in InFlight' : \E i \in Purchases : ReviewRequestOK(request[h], i)'
    BY <2>1, <2>2 DEF ReviewInv
  <2>4. \A p \in Reviewed \ blurred' : rating'[p] = Aggregate(review, p)'
    BY <2>1 DEF ReviewInv, Aggregate
  <2>5. \A f, g \in InFlight' : f # g => ReviewsApart(f, g)'
    BY <2>1 DEF ReviewInv, ReviewsApart
  <2> QED  BY <2>1, <2>3, <2>4, <2>5 DEF ReviewInv, Vetted
<1>2. ASSUME NEW h \in Handlers, NEW i \in Purchases, NEW op \in {"create", "update"}, NEW stars \in Stars,
             BeginReview(h, op, i, stars)
      PROVE  ReviewInv'
  <2>1. op \in ReviewOps /\ op # "approve"
    BY DEF ReviewOps
  <2> QED  BY <1>2, <2>1, BeginReviewKeeps
<1>3. ASSUME NEW h \in Handlers, NEW i \in Purchases, Written(review[i]),
             BeginReview(h, "approve", i, review[i].rating)
      PROVE  ReviewInv'
  <2>0. PICK stars : stars = review[i].rating
    OBVIOUS
  <2>1. "approve" \in ReviewOps /\ stars \in Stars
    BY <1>3, <2>0 DEF ReviewOps, Written, ReviewInv, ReviewRow
  <2> QED  BY <1>3, <2>0, <2>1, BeginReviewKeeps
<1>4. ASSUME NEW h \in Handlers, NEW i \in Purchases,
             NEW op \in {"delete", "reject", "hide", "show", "restore"}, BeginReview(h, op, i, Null)
      PROVE  ReviewInv'
  <2>1. op \in ReviewOps /\ op \notin {"create", "update", "approve"}
    BY DEF ReviewOps
  <2> QED  BY <1>4, <2>1, BeginReviewKeeps
<1>5. ASSUME NEW h \in Handlers, Abandon(h), UNCHANGED reviewVars
      PROVE  ReviewInv'
  BY <1>5, ReviewGoesOn DEF Abandon, End, InFlight
<1> QED
  BY <1>1, <1>2, <1>3, <1>4, <1>5, WriteReviewKeeps, CommitReviewKeeps DEF ReviewsNext

LEMMA ReviewsBegin == ReviewsInit /\ RequestsInit => ReviewInv
<1> SUFFICES ASSUME ReviewsInit, RequestsInit PROVE ReviewInv
  OBVIOUS
<1>1. /\ DOMAIN request = Handlers /\ InFlight = {} /\ bought \in [Purchases -> Reviewed]
      /\ review = [i \in Purchases |-> Null] /\ rating = [p \in Reviewed |-> [count |-> 0, sum |-> 0]]
  BY DEF ReviewsInit, RequestsInit, InFlight
<1>2. ASSUME NEW p \in Reviewed PROVE rating[p] = Aggregate(review, p)
  <2> DEFINE shown == {i \in Purchases : bought[i] = p /\ Public(review[i])}
  <2>1. shown = {}
    BY <1>1 DEF Public, Written
  <2>2. Cardinality(shown) = 0 /\ SumFunctionOnSet([i \in shown |-> review[i].rating], shown) = 0
    BY <2>1, FS_EmptySet, SumEmpty
  <2> QED  BY <1>1, <2>2 DEF Aggregate
<1> QED  BY <1>1, <1>2 DEF ReviewInv, Rating

LEMMA HistogramAdds ==
  ASSUME ReviewInv, NEW p
  PROVE  SumFunctionOnSet(Histogram(p), Stars) = Aggregate(review, p).count
<1> DEFINE shown == {i \in Purchases : bought[i] = p /\ Public(review[i])}
           key == [i \in shown |-> review[i].rating]
<1>1. IsFiniteSet(shown) /\ IsFiniteSet(Stars)
  BY ReviewAssumption, FS_Subset
<1>2. \A i \in shown : key[i] \in Stars
  BY DEF Public, Written, ReviewInv, ReviewRow
<1>3. \A s : Keyed(shown, key, s) = {i \in Purchases : bought[i] = p /\ Public(review[i]) /\ review[i].rating = s}
  BY DEF Keyed
<1>4. CountsOfGroups(Histogram(p), shown, key, Stars)
  BY <1>3 DEF CountsOfGroups, Histogram
<1>5. Aggregate(review, p).count = Cardinality(shown)
  BY DEF Aggregate
<1> HIDE DEF shown, key
<1> QED  BY <1>1, <1>2, <1>4, <1>5, CountOfParts

\* Only what staff approved is public, for any number of reviews, products and
\* requests: an edit sends a review back to moderation, unless two requests on
\* it overlap.
THEOREM OnlyVettedAlways == ReviewsSpec => []OnlyVetted
<1>1. ReviewInv => OnlyVetted
  BY DEF ReviewInv, OnlyVetted, Vetted, Public, Written
<1> QED  BY <1>1, ReviewsBegin, ReviewsKeep, PTL DEF ReviewsSpec

\* The rating of a product is that of its public reviews, whatever the
\* requests on the reviews of other products do, unless requests on its own
\* overlap; and its histogram adds up.
THEOREM RatingAlwaysExact == ReviewsSpec => []RatingExact
<1>1. ReviewInv => RatingExact
  BY HistogramAdds DEF ReviewInv, RatingExact
<1> QED  BY <1>1, ReviewsBegin, ReviewsKeep, PTL DEF ReviewsSpec

-----------------------------------------------------------------------------
(* Numbers: all that were drawn are at most the counter.                    *)
Drawing(h) == request[h].op = "number"

NumbersInv ==
  /\ DOMAIN request = Handlers
  /\ counter \in Nat
  /\ ~forgot =>
       /\ \A x \in numbers : x \in Nat /\ x <= counter
       /\ \A h \in InFlight : Drawing(h) =>
            /\ request[h].number \in Nat /\ request[h].number <= counter
            /\ request[h].number \notin numbers
       /\ \A h, g \in InFlight : Drawing(h) /\ Drawing(g) /\ h # g
            => request[h].number # request[g].number

LEMMA NumbersEnd ==
  ASSUME NumbersInv, NEW h \in Handlers, End(h),
         numbers' \subseteq numbers \cup {request[h].number},
         numbers' # numbers => h \in InFlight /\ Drawing(h),
         UNCHANGED <<counter, forgot>>
  PROVE  NumbersInv'
<1>1. /\ DOMAIN request' = Handlers
      /\ \A g \in InFlight' : g # h /\ g \in InFlight /\ request'[g] = request[g]
  BY DEF End, GoOn, InFlight, NumbersInv
<1> QED  BY <1>1 DEF NumbersInv, Drawing

LEMMA NumbersNext == NumbersInv /\ [EventsNext]_<<requestVars, eventVars>> => NumbersInv'
<1> SUFFICES ASSUME NumbersInv, [EventsNext]_<<requestVars, eventVars>> PROVE NumbersInv'
  OBVIOUS
<1>1. ASSUME UNCHANGED <<requestVars, counter, numbers, forgot>>
      PROVE  NumbersInv'
  BY <1>1 DEF NumbersInv, Drawing, InFlight, requestVars
<1>2. ASSUME NEW h \in Handlers, NextOrderNumber(h)
      PROVE  NumbersInv'
  <2> DEFINE r == [op |-> "number", on |-> {}, number |-> counter + 1]
  <2>1. /\ DOMAIN request' = Handlers /\ request'[h] = r /\ h \notin InFlight
        /\ \A g \in Handlers \ {h} : request'[g] = request[g]
        /\ counter' = counter + 1 /\ UNCHANGED <<numbers, forgot>>
    BY <1>2 DEF NextOrderNumber, Begin, NumbersInv, InFlight
  <2>2. r.op = "number" /\ r.number = counter + 1
    OBVIOUS
  <2>3. \A g \in InFlight' : g = h \/ (g \in InFlight /\ request'[g] = request[g])
    BY <2>1 DEF InFlight
  <2> HIDE DEF r
  <2> QED  BY <2>1, <2>2, <2>3 DEF NumbersInv, Drawing
<1>3. ASSUME NEW h \in Handlers, RefuseNumbered(h)
      PROVE  NumbersInv'
  BY <1>3, NumbersEnd DEF RefuseNumbered, eventVars
<1>4. ASSUME NEW h \in Handlers, NEW o \in Tracked, PlaceNumbered(h, o)
      PROVE  NumbersInv'
  BY <1>4, NumbersEnd DEF PlaceNumbered, Doing, InFlight, Drawing
<1>5. ASSUME Crash
      PROVE  NumbersInv'
  BY <1>5 DEF Crash, NumbersInv, InFlight
<1>6. ASSUME RedisLosesCounter
      PROVE  NumbersInv'
  BY <1>6 DEF RedisLosesCounter, NumbersInv, requestVars
<1> QED
  BY <1>1, <1>2, <1>3, <1>4, <1>5, <1>6
     DEF EventsNext, ChangeOrder, NotifyOrderStatus, LoadAdminListRow, EmitAdminOrder, JobFails,
         BesideJobs, eventVars

\* A number that was drawn is free, and no two requests hold the same, for any
\* number of them, as long as Redis keeps the counter: INCR gives every request
\* a number beyond all that there are.
THEOREM NumbersStayFresh == EventsSpec => []NumbersFresh
<1>1. EventsInit /\ RequestsInit => NumbersInv
  BY DEF EventsInit, RequestsInit, NumbersInv, InFlight
<1>2. NumbersInv => NumbersFresh
  BY DEF NumbersInv, NumbersFresh, Drawing
<1> QED  BY <1>1, <1>2, NumbersNext, PTL DEF EventsSpec

-----------------------------------------------------------------------------
(* Jobs: what an order's customer is told of each version is waiting, told   *)
(* or lost, and never two of these; the newest version's row is on its way  *)
(* to the dashboards, or there.                                              *)
Job == [order : Tracked, kind : {"notify", "emit"}, of : Nat, version : Nat \cup {Null}]
Notice(o, v) == [order |-> o, kind |-> "notify", of |-> v, version |-> v]
Row(o, v) == [order |-> o, kind |-> "emit", of |-> v, version |-> Null]

JobRight(j) ==
  /\ j \in Job
  /\ j.of >= 1 /\ j.of <= version[j.order]
  /\ j.kind = "notify" => j.version = j.of
  /\ j.kind = "emit" /\ j.version # Null => j.version >= j.of /\ j.version <= version[j.order]

Told(o, v) == \E n \in DOMAIN told[o] : told[o][n] = v
Queued(o, v) == Notice(o, v) \in jobs
Lost(o, v) == <<o, "notify", v>> \in missed

ToldTypeOK ==
  /\ version \in [Tracked -> Nat] /\ board \in [Tracked -> Nat]
  /\ told \in [Tracked -> Seq(Nat)]
  /\ \A j \in jobs : JobRight(j)

ToldOnce(o) ==
  /\ \A v \in Nat : Told(o, v) \/ Lost(o, v) => v \in 1..version[o]
  /\ \A n, m \in DOMAIN told[o] : told[o][n] = told[o][m] => n = m
  /\ \A v \in 1..version[o] :
       /\ Told(o, v) \/ Queued(o, v) \/ Lost(o, v)
       /\ ~(Told(o, v) /\ Queued(o, v))
       /\ ~(Told(o, v) /\ Lost(o, v))
       /\ ~(Queued(o, v) /\ Lost(o, v))

Shown(o) ==
  \/ board[o] = version[o]
  \/ \E j \in jobs : j.order = o /\ j.kind = "emit" /\ j.of = version[o]
  \/ o \in late
  \/ version[o] >= 1 /\ <<o, "emit", version[o]>> \in missed

ToldInv == ToldTypeOK /\ \A o \in Tracked : ToldOnce(o) /\ Shown(o)

\* A notice is known by its order and its version.
LEMMA OneNotice ==
  ASSUME NEW j, JobRight(j), j.kind = "notify"
  PROVE  j = Notice(j.order, j.of)
BY DEF JobRight, Job, Notice

\* A job for one order is none for another.
LEMMA NoticeOf ==
  ASSUME NEW o, NEW v
  PROVE  /\ Notice(o, v).order = o /\ Notice(o, v).kind = "notify"
         /\ Notice(o, v).of = v /\ Notice(o, v).version = v
         /\ Row(o, v).order = o /\ Row(o, v).kind = "emit"
         /\ Row(o, v).of = v /\ Row(o, v).version = Null
BY DEF Notice, Row

LEMMA ToldAnnounce ==
  ASSUME ToldInv, NEW o \in Tracked, Announce(o), UNCHANGED <<told, board, missed, late>>
  PROVE  ToldInv'
<1> SUFFICES ASSUME NEW v, v = version[o] + 1 PROVE ToldInv'
  OBVIOUS
<1>1. /\ version' = [version EXCEPT ![o] = v]
      /\ jobs' = jobs \cup {Notice(o, v), Row(o, v)}
  BY DEF Announce, Notice, Row
<1>2. version[o] \in Nat /\ v \in Nat /\ v > version[o]
  BY DEF ToldInv, ToldTypeOK
<1>3. JobRight(Notice(o, v))' /\ JobRight(Row(o, v))'
  <2>1. Notice(o, v) \in Job /\ Row(o, v) \in Job
    BY <1>2 DEF Job, Notice, Row
  <2>2. version'[o] = v
    BY <1>1 DEF ToldInv, ToldTypeOK
  <2> DEFINE n == Notice(o, v)
             r == Row(o, v)
  <2>3. /\ n.order = o /\ n.kind = "notify" /\ n.of = v /\ n.version = v
        /\ r.order = o /\ r.kind = "emit" /\ r.of = v /\ r.version = Null
    BY NoticeOf
  <2> HIDE DEF n, r
  <2>4. JobRight(n)' /\ JobRight(r)'
    BY <1>2, <2>1, <2>2, <2>3 DEF JobRight, n, r
  <2> QED  BY <2>4 DEF n, r
<1>4. \A j : JobRight(j) => JobRight(j)'
  <2> SUFFICES ASSUME NEW j, JobRight(j) PROVE JobRight(j)'
    OBVIOUS
  <2>1. version'[j.order] >= version[j.order] /\ version'[j.order] \in Nat /\ version[j.order] \in Nat
    BY <1>1, <1>2 DEF JobRight, Job, ToldInv, ToldTypeOK
  <2>2. j.of \in Nat /\ (j.version # Null => j.version \in Nat)
    BY DEF JobRight, Job
  <2> QED  BY <2>1, <2>2 DEF JobRight
<1>5. ToldTypeOK'
  <2>1. \A j \in jobs' : JobRight(j)'
    BY <1>1, <1>3, <1>4 DEF ToldTypeOK, ToldInv
  <2> QED  BY <1>1, <1>2, <2>1 DEF ToldTypeOK, ToldInv
<1>6. ASSUME NEW p \in Tracked PROVE ToldOnce(p)' /\ Shown(p)'
  <2>1. ToldOnce(p) /\ Shown(p)
    BY DEF ToldInv
  <2>2. \A w : Told(p, w)' <=> Told(p, w)
    BY DEF Told
  <2>3. \A w : Lost(p, w)' <=> Lost(p, w)
    BY DEF Lost
  <2>4. \A w : Queued(p, w)' <=> Queued(p, w) \/ (p = o /\ w = v)
    BY <1>1, NoticeOf DEF Queued
  <2>5. CASE p # o
    <3>1. version'[p] = version[p]
      BY <1>1, <2>5 DEF ToldInv, ToldTypeOK
    <3>2. ToldOnce(p)'
      BY <2>1, <2>2, <2>3, <2>4, <2>5, <3>1 DEF ToldOnce
    <3>3. Shown(p)'
      BY <1>1, <2>1, <3>1 DEF Shown
    <3> QED  BY <3>2, <3>3
  <2>6. CASE p = o
    <3>1. version'[p] = v
      BY <1>1, <2>6 DEF ToldInv, ToldTypeOK
    <3>2. ~Told(p, v) /\ ~Lost(p, v)
      BY <1>2, <2>1, <2>6 DEF ToldOnce
    <3>3. \A w \in 1..v : w \in 1..version[p] \/ w = v
      BY <1>2, <2>6
    <3>4. \A w \in 1..version[p] : w # v /\ w \in 1..v
      BY <1>2, <2>6
    <3>5. ToldOnce(p)'
      BY <1>2, <2>1, <2>2, <2>3, <2>4, <2>6, <3>1, <3>2, <3>3, <3>4 DEF ToldOnce
    <3>6. Shown(p)'
      BY <1>1, <2>6, <3>1, NoticeOf DEF Shown
    <3> QED  BY <3>5, <3>6
  <2> QED  BY <2>5, <2>6
<1> QED  BY <1>5, <1>6 DEF ToldInv

LEMMA ToldNotify ==
  ASSUME ToldInv, NEW j \in jobs, NotifyOrderStatus(j)
  PROVE  ToldInv'
<1> DEFINE o == j.order
           v == j.of
<1>1. /\ JobRight(j) /\ j = Notice(o, v) /\ j.version = v
      /\ o \in Tracked /\ v \in Nat /\ v \in 1..version[o]
  BY OneNotice DEF ToldInv, ToldTypeOK, NotifyOrderStatus, JobRight, Job
<1>2. /\ told' = [told EXCEPT ![o] = Append(told[o], v)]
      /\ jobs' = jobs \ {j} /\ UNCHANGED <<version, board, missed, late>>
  BY <1>1 DEF NotifyOrderStatus, Done, BesideJobs
<1>3. told \in [Tracked -> Seq(Nat)]
  BY DEF ToldInv, ToldTypeOK
<1>4. ToldTypeOK'
  BY <1>1, <1>2, <1>3 DEF ToldTypeOK, ToldInv, JobRight
<1>5. ASSUME NEW p \in Tracked PROVE ToldOnce(p)'
  <2>1. ToldOnce(p)
    BY DEF ToldInv
  <2>2. \A w : Lost(p, w)' <=> Lost(p, w)
    BY <1>2 DEF Lost
  <2>3. \A w : Queued(p, w)' <=> Queued(p, w) /\ ~(p = o /\ w = v)
    BY <1>1, <1>2, NoticeOf DEF Queued
  <2>4. CASE p # o
    <3>1. told'[p] = told[p]
      BY <1>2, <1>3, <2>4
    <3>2. \A w : Told(p, w)' <=> Told(p, w)
      BY <3>1 DEF Told
    <3> QED  BY <1>2, <2>1, <2>2, <2>3, <2>4, <3>1, <3>2 DEF ToldOnce
  <2>5. CASE p = o
    <3>0. PICK s \in Seq(Nat) : s = told[p]
      BY <1>3
    <3>1. told'[p] = Append(s, v)
      BY <1>2, <1>3, <2>5, <3>0
    <3>2. /\ DOMAIN Append(s, v) = 1..(Len(s) + 1) /\ DOMAIN s = 1..Len(s) /\ Len(s) \in Nat
          /\ Append(s, v)[Len(s) + 1] = v
          /\ \A n \in 1..Len(s) : Append(s, v)[n] = s[n]
      BY <1>1
    <3>3. \A w : Told(p, w)' <=> Told(p, w) \/ w = v
      BY <3>0, <3>1, <3>2 DEF Told
    <3>4. Queued(p, v) /\ ~Told(p, v) /\ ~Lost(p, v)
      BY <1>1, <2>1, <2>5 DEF Queued, ToldOnce
    <3>5. \A n, m \in DOMAIN told'[p] : told'[p][n] = told'[p][m] => n = m
      BY <2>1, <3>0, <3>1, <3>2, <3>4 DEF Told, ToldOnce
    <3> HIDE DEF v, o
    <3> QED  BY <1>1, <1>2, <2>1, <2>2, <2>3, <2>5, <3>3, <3>4, <3>5 DEF ToldOnce
  <2> QED  BY <2>4, <2>5
<1>6. ASSUME NEW p \in Tracked PROVE Shown(p)'
  BY <1>1, <1>2, NoticeOf DEF ToldInv, Shown, NotifyOrderStatus
<1> QED  BY <1>4, <1>5, <1>6 DEF ToldInv

LEMMA ToldLoad ==
  ASSUME ToldInv, NEW j \in jobs, LoadAdminListRow(j)
  PROVE  ToldInv'
<1> SUFFICES ASSUME NEW k, k = [j EXCEPT !.version = version[j.order]] PROVE ToldInv'
  OBVIOUS
<1>1. /\ JobRight(j) /\ j \in Job /\ j.kind = "emit" /\ j.version = Null
      /\ version[j.order] \in Nat
  BY DEF ToldInv, ToldTypeOK, LoadAdminListRow, JobRight, Job
<1>2. /\ k \in Job /\ k.order = j.order /\ k.kind = "emit" /\ k.of = j.of
      /\ k.version = version[j.order]
  BY <1>1 DEF Job
<1>3. /\ jobs' = (jobs \ {j}) \cup {k}
      /\ UNCHANGED <<version, told, board, missed, late>>
  BY DEF LoadAdminListRow, BesideJobs
<1>4. JobRight(k)
  BY <1>1, <1>2 DEF JobRight, Job
<1>5. ToldTypeOK'
  <2>1. \A i : JobRight(i) => JobRight(i)'
    BY <1>3 DEF JobRight
  <2> QED  BY <1>3, <1>4, <2>1 DEF ToldTypeOK, ToldInv
<1>6. ASSUME NEW p \in Tracked PROVE ToldOnce(p)'
  <2>0. \A w : Notice(p, w) # j /\ Notice(p, w) # k
    <3>1. j.kind # "notify" /\ k.kind # "notify"
      BY <1>1, <1>2
    <3>2. \A w : Notice(p, w).kind = "notify"
      BY NoticeOf
    <3> QED  BY <3>1, <3>2, Zenon
  <2>1. \A w : Queued(p, w)' <=> Queued(p, w)
    BY <1>3, <2>0 DEF Queued
  <2> QED  BY <1>3, <2>1 DEF ToldInv, ToldOnce, Told, Lost
<1>7. ASSUME NEW p \in Tracked PROVE Shown(p)'
  BY <1>2, <1>3 DEF ToldInv, Shown
<1> QED  BY <1>5, <1>6, <1>7 DEF ToldInv

LEMMA ToldEmit ==
  ASSUME ToldInv, NEW j \in jobs, EmitAdminOrder(j)
  PROVE  ToldInv'
<1>1. /\ JobRight(j) /\ j \in Job /\ j.kind = "emit" /\ j.version # Null
      /\ j.order \in Tracked /\ j.version \in Nat /\ j.of \in Nat
      /\ j.version >= j.of /\ j.version <= version[j.order]
  BY DEF ToldInv, ToldTypeOK, EmitAdminOrder, JobRight, Job
<1>2. /\ jobs' = jobs \ {j} /\ UNCHANGED <<version, told, missed>>
      /\ board' = [board EXCEPT ![j.order] = j.version]
      /\ late \subseteq late'
      /\ j.version < board[j.order] => j.order \in late'
  BY DEF EmitAdminOrder, Done, BesideJobs
<1>3. board \in [Tracked -> Nat] /\ version \in [Tracked -> Nat]
  BY DEF ToldInv, ToldTypeOK
<1>4. ToldTypeOK'
  <2>1. \A i : JobRight(i) => JobRight(i)'
    BY <1>2 DEF JobRight
  <2> QED  BY <1>1, <1>2, <2>1 DEF ToldTypeOK, ToldInv
<1>5. ASSUME NEW p \in Tracked PROVE ToldOnce(p)'
  <2>1. \A w : Queued(p, w)' <=> Queued(p, w)
    BY <1>1, <1>2, NoticeOf DEF Queued
  <2> QED  BY <1>2, <2>1 DEF ToldInv, ToldOnce, Told, Lost
<1>6. ASSUME NEW p \in Tracked PROVE Shown(p)'
  <2>1. Shown(p)
    BY DEF ToldInv
  <2>2. CASE p # j.order
    BY <1>2, <1>3, <2>1, <2>2 DEF Shown
  <2>3. CASE p = j.order
    <3>1. board'[p] = j.version /\ board[p] \in Nat /\ version[p] \in Nat
      BY <1>2, <1>3, <2>3
    <3>2. CASE j.of = version[p]
      BY <1>1, <1>2, <2>3, <3>1, <3>2 DEF Shown
    <3>3. CASE j.of # version[p]
      BY <1>1, <1>2, <2>1, <2>3, <3>1, <3>3 DEF Shown
    <3> QED  BY <3>2, <3>3
  <2> QED  BY <2>2, <2>3
<1> QED  BY <1>4, <1>5, <1>6 DEF ToldInv

\* Jobs that end undone are missed: one that fails, or all there are.
LEMMA ToldLose ==
  ASSUME ToldInv, NEW lost, lost \subseteq jobs,
         jobs' = jobs \ lost,
         missed' = missed \cup {<<j.order, j.kind, j.of>> : j \in lost},
         UNCHANGED <<version, told, board, late>>
  PROVE  ToldInv'
<1>1. ToldTypeOK'
  <2>1. \A i : JobRight(i) => JobRight(i)'
    BY DEF JobRight
  <2> QED  BY <2>1 DEF ToldTypeOK, ToldInv
<1>2. ASSUME NEW p \in Tracked PROVE ToldOnce(p)' /\ Shown(p)'
  <2>1. ToldOnce(p) /\ Shown(p) /\ version[p] \in Nat
    BY DEF ToldInv, ToldTypeOK
  <2>2. \A w : Notice(p, w) \in lost <=> Queued(p, w) /\ ~Queued(p, w)'
    BY DEF Queued
  <2>3. \A w : Queued(p, w)' => Queued(p, w)
    BY DEF Queued
  <2>4. \A w : Lost(p, w)' <=> Lost(p, w) \/ Notice(p, w) \in lost
    <3>1. ASSUME NEW w, Notice(p, w) \in lost PROVE Lost(p, w)'
      BY <3>1, NoticeOf DEF Lost
    <3>2. ASSUME NEW w, NEW j \in lost, <<j.order, j.kind, j.of>> = <<p, "notify", w>>
          PROVE  j = Notice(p, w)
      BY <3>2, OneNotice DEF ToldInv, ToldTypeOK
    <3> QED  BY <3>1, <3>2 DEF Lost
  <2>5. \A w : Told(p, w)' <=> Told(p, w)
    BY DEF Told
  <2>6. \A w : Queued(p, w) /\ w \in Nat => w \in 1..version[p]
    <3> SUFFICES ASSUME NEW w \in Nat, Queued(p, w) PROVE w \in 1..version[p]
      OBVIOUS
    <3>1. JobRight(Notice(p, w))
      BY DEF Queued, ToldInv, ToldTypeOK
    <3> QED  BY <2>1, <3>1, NoticeOf DEF JobRight
  <2>7. ToldOnce(p)'
    BY <2>1, <2>2, <2>3, <2>4, <2>5, <2>6 DEF ToldOnce
  <2>8. Shown(p)'
    <3>1. ASSUME NEW j \in jobs, j.order = p, j.kind = "emit", j.of = version[p]
          PROVE  Shown(p)'
      <4>1. version[p] >= 1
        BY <3>1 DEF ToldInv, ToldTypeOK, JobRight
      <4>2. CASE j \in lost
        BY <3>1, <4>1, <4>2 DEF Shown
      <4>3. CASE j \notin lost
        BY <3>1, <4>3 DEF Shown
      <4> QED  BY <4>2, <4>3
    <3> QED  BY <2>1, <3>1 DEF Shown
  <2> QED  BY <2>7, <2>8
<1> QED  BY <1>1, <1>2 DEF ToldInv

LEMMA ToldNext == ToldInv /\ [EventsNext]_<<requestVars, eventVars>> => ToldInv'
<1> SUFFICES ASSUME ToldInv, [EventsNext]_<<requestVars, eventVars>> PROVE ToldInv'
  OBVIOUS
<1>1. ASSUME UNCHANGED <<version, jobs, told, board, missed, late>>
      PROVE  ToldInv'
  <2>1. ToldTypeOK'
    BY <1>1 DEF ToldInv, ToldTypeOK, JobRight
  <2>2. \A p \in Tracked : ToldOnce(p)' /\ Shown(p)'
    BY <1>1 DEF ToldInv, ToldOnce, Told, Queued, Lost, Shown
  <2> QED  BY <2>1, <2>2 DEF ToldInv
<1>2. ASSUME NEW h \in Handlers, NEW o \in Tracked, PlaceNumbered(h, o)
      PROVE  ToldInv'
  BY <1>2, ToldAnnounce DEF PlaceNumbered
<1>3. ASSUME NEW o \in Tracked, ChangeOrder(o)
      PROVE  ToldInv'
  BY <1>3, ToldAnnounce DEF ChangeOrder
<1>4. ASSUME NEW j \in jobs, JobFails(j)
      PROVE  ToldInv'
  <2>1. {<<i.order, i.kind, i.of>> : i \in {j}} = {<<j.order, j.kind, j.of>>}
    OBVIOUS
  <2> QED  BY <1>4, <2>1, ToldLose DEF JobFails, Done, BesideJobs
<1>5. ASSUME Crash
      PROVE  ToldInv'
  BY <1>5, ToldLose DEF Crash
<1> QED
  BY <1>1, <1>2, <1>3, <1>4, <1>5, ToldNotify, ToldLoad, ToldEmit
     DEF EventsNext, NextOrderNumber, RefuseNumbered, RedisLosesCounter, eventVars

\* What the invariant says of one version of an order, counted.
LEMMA ToldCounted ==
  ASSUME ToldInv, NEW o \in Tracked, NEW v \in 1..version[o]
  PROVE  Cardinality({n \in DOMAIN told[o] : told[o][n] = v})
           + Cardinality({j \in Pending(o, "notify") : j.of = v})
           + Cardinality({x \in missed : x = <<o, "notify", v>>}) = 1
<1> DEFINE A == {n \in DOMAIN told[o] : told[o][n] = v}
           B == {j \in Pending(o, "notify") : j.of = v}
           C == {x \in missed : x = <<o, "notify", v>>}
<1>1. ToldOnce(o)
  BY DEF ToldInv
<1>2. IF Told(o, v) THEN \E n : A = {n} ELSE A = {}
  <2>1. CASE Told(o, v)
    <3>1. PICK n \in DOMAIN told[o] : told[o][n] = v
      BY <2>1 DEF Told
    <3>2. A = {n}
      BY <1>1, <3>1 DEF ToldOnce
    <3> QED  BY <2>1, <3>2
  <2>2. CASE ~Told(o, v)
    <3>1. A = {}
      BY <2>2 DEF Told
    <3> QED  BY <2>2, <3>1
  <2> QED  BY <2>1, <2>2
<1>3. B = IF Queued(o, v) THEN {Notice(o, v)} ELSE {}
  BY OneNotice, NoticeOf DEF Queued, Pending, ToldInv, ToldTypeOK
<1>4. C = IF Lost(o, v) THEN {<<o, "notify", v>>} ELSE {}
  BY DEF Lost
<1> HIDE DEF A, B, C
<1>5. /\ Told(o, v) => Cardinality(A) = 1
      /\ ~Told(o, v) => Cardinality(A) = 0
  BY <1>2, FS_Singleton, FS_EmptySet
<1>6. /\ Queued(o, v) => Cardinality(B) = 1
      /\ ~Queued(o, v) => Cardinality(B) = 0
  BY <1>3, FS_Singleton, FS_EmptySet
<1>7. /\ Lost(o, v) => Cardinality(C) = 1
      /\ ~Lost(o, v) => Cardinality(C) = 0
  BY <1>4, FS_Singleton, FS_EmptySet
<1>8. Cardinality(A) + Cardinality(B) + Cardinality(C) = 1
  BY <1>1, <1>5, <1>6, <1>7 DEF ToldOnce
<1> QED  BY <1>8 DEF A, B, C

\* Every change of every order is told its customer once, or its job was lost
\* and is counted so, and the dashboards are right but for a job that is
\* pending, lost, or overtaken by another: for any number of orders and writes.
THEOREM NoticesMatchCommits == EventsSpec => []ToldAsCommitted
<1>1. EventsInit /\ RequestsInit => ToldInv
  BY DEF EventsInit, ToldInv, ToldTypeOK, ToldOnce, Shown, Told, Queued, Lost
<1>2. ToldInv => ToldAsCommitted
  <2> SUFFICES ASSUME ToldInv, NEW o \in Tracked
               PROVE  /\ ToSet(told[o]) \subseteq 1..version[o]
                      /\ \/ board[o] = version[o]
                         \/ Pending(o, "emit") # {} \/ o \in late
                         \/ \E v \in 1..version[o] : <<o, "emit", v>> \in missed
    BY ToldCounted DEF ToldAsCommitted
  <2>1. told[o] \in Seq(Nat) /\ version[o] \in Nat
    BY DEF ToldInv, ToldTypeOK
  <2>2. ToSet(told[o]) \subseteq 1..version[o]
    BY <2>1 DEF ToldInv, ToldOnce, Told, ToSet
  <2>3. Shown(o)
    BY DEF ToldInv
  <2>4. ASSUME NEW j \in jobs, j.order = o, j.kind = "emit"
        PROVE  Pending(o, "emit") # {}
    BY <2>4 DEF Pending
  <2>5. version[o] >= 1 => version[o] \in 1..version[o]
    BY <2>1
  <2> QED  BY <2>2, <2>3, <2>4, <2>5 DEF Shown
<1> QED  BY <1>1, <1>2, ToldNext, PTL DEF EventsSpec

-----------------------------------------------------------------------------
(* The amounts of an order: cart.service.ts and orders.service.ts.          *)

Checkout ==
  [op : {"coupon", "fee", "allow", "again", "commit"}, on : {{}}, subtotal : Nat, discount : Nat,
   code : BOOLEAN, fee : Nat, snapshot : Snapshot \cup {Null}, edited : BOOLEAN]

\* The discount that a checkout has read is the one that the code gives, until
\* the code is edited; the snapshot repeats it.
CheckoutOK(r, t) ==
  /\ r \in Checkout
  /\ r.discount <= r.subtotal /\ (r.code <=> r.discount > 0)
  /\ r.op = "coupon" => ~r.code
  /\ r.op \in {"coupon", "fee", "allow", "again"} => r.snapshot = Null
  /\ r.op = "again" => r.code
  /\ r.op # "commit" /\ r.code /\ ~r.edited => t # Null /\ r.discount = CalculateDiscount(t, r.subtotal)
  /\ r.op = "commit" => (r.code <=> r.snapshot # Null)
  /\ r.snapshot # Null => r.snapshot.edited \/ r.snapshot.amount = r.discount

TotalsInv ==
  /\ DOMAIN request = Handlers
  /\ worth \in Nat /\ terms \in CodeRow \cup {Null} /\ tariff \in TariffRow
  /\ DOMAIN bill = Bills
  /\ \A h \in InFlight : CheckoutOK(request[h], terms)
  /\ DiscountRecorded

\* A discount is at most what it is taken off.
LEMMA DiscountBounds ==
  ASSUME NEW t \in CodeRow, NEW subtotal \in Nat
  PROVE  CalculateDiscount(t, subtotal) \in Nat /\ CalculateDiscount(t, subtotal) <= subtotal
<1> DEFINE off == IF t.type = "PERCENTAGE" THEN (subtotal * t.value + 50) \div 100 ELSE t.value
           capped == IF t.type = "PERCENTAGE" /\ t.cap # Null THEN Min({off, t.cap}) ELSE off
<1>1. t.value \in Nat /\ (t.cap # Null => t.cap \in Nat)
  BY DEF CodeRow, Amount
<1>2. off \in Nat
  <2>1. subtotal * t.value \in Nat
    BY <1>1
  <2>2. \A n \in Nat : (n + 50) \div 100 \in Nat
    OBVIOUS
  <2> QED  BY <1>1, <2>1, <2>2
<1> HIDE DEF off
<1>3. capped \in Nat
  <2>1. \A a, b \in Nat : Min({a, b}) \in Nat
    BY MinOfTwo
  <2> QED  BY <1>1, <1>2, <2>1
<1>4. CalculateDiscount(t, subtotal) = Min({capped, subtotal})
  BY DEF CalculateDiscount, off
<1> HIDE DEF capped
<1> QED  BY <1>3, <1>4, MinOfTwo

\* Checkouts that go on, while the code stays.
LEMMA CheckoutGoesOn ==
  ASSUME TotalsInv, NEW h \in Handlers, NEW r, request' = [request EXCEPT ![h] = r],
         UNCHANGED <<worth, terms, tariff>>, r = Null \/ CheckoutOK(r, terms),
         DOMAIN bill' = Bills, DiscountRecorded'
  PROVE  TotalsInv'
<1>1. \A g \in InFlight' : request'[g] = r \/ (g \in InFlight /\ request'[g] = request[g])
  BY DEF TotalsInv, InFlight
<1>2. \A g \in InFlight' : CheckoutOK(request[g], terms)'
  <2> TAKE g \in InFlight'
  <2>0. PICK q : q = request'[g]
    OBVIOUS
  <2>1. CheckoutOK(q, terms)
    BY <1>1, <2>0 DEF TotalsInv, InFlight
  <2> QED  BY <2>0, <2>1
<1> QED  BY <1>2 DEF TotalsInv

LEMMA CheckoutsUnchanged ==
  ASSUME TotalsInv, UNCHANGED <<request, terms, bill>>, worth' \in Nat, tariff' \in TariffRow
  PROVE  TotalsInv'
BY DEF TotalsInv, InFlight, CheckoutOK, DiscountRecorded

LEMMA PriceLinesKeeps ==
  ASSUME TotalsInv, NEW h \in Handlers, PriceLines(h)
  PROVE  TotalsInv'
<1> DEFINE new == [op |-> "coupon", on |-> {}, subtotal |-> worth, discount |-> 0, code |-> FALSE,
                   fee |-> 0, snapshot |-> Null, edited |-> FALSE]
<1>0. PICK r : r = new
  OBVIOUS
<1>1. request' = [request EXCEPT ![h] = r] /\ UNCHANGED <<worth, terms, tariff, bill>>
  BY <1>0 DEF PriceLines, Begin, totalVars
<1>2. r \in Checkout
  BY <1>0 DEF Checkout, TotalsInv
<1>3. CheckoutOK(r, terms)
  BY <1>0, <1>2 DEF CheckoutOK, TotalsInv
<1>4. DOMAIN bill' = Bills /\ DiscountRecorded'
  BY <1>1 DEF TotalsInv, DiscountRecorded
<1> QED  BY <1>1, <1>3, <1>4, CheckoutGoesOn

LEMMA ReadCouponKeeps ==
  ASSUME TotalsInv, NEW h \in Handlers, ReadCoupon(h)
  PROVE  TotalsInv'
<1>0. PICK r : r = request[h]
  OBVIOUS
<1>1. CheckoutOK(r, terms) /\ r.op = "coupon" /\ r # Null
  BY <1>0 DEF ReadCoupon, Doing, TotalsInv, InFlight
<1>2. r \in Checkout /\ r.subtotal \in Nat /\ r.discount = 0 /\ r.code = FALSE /\ r.snapshot = Null
  BY <1>1 DEF CheckoutOK, Checkout
<1>3. PICK q : q = IF Applies(terms, r.subtotal)
                   THEN [r EXCEPT !.op = "fee", !.code = TRUE, !.edited = FALSE,
                                  !.discount = CalculateDiscount(terms, r.subtotal)]
                   ELSE [r EXCEPT !.op = "fee"]
  OBVIOUS
<1>4. request' = [request EXCEPT ![h] = q] /\ UNCHANGED <<worth, terms, tariff, bill>>
  BY <1>0, <1>3 DEF ReadCoupon, GoOn, totalVars
<1>5. ASSUME Applies(terms, r.subtotal) PROVE CheckoutOK(q, terms)
  <2>1. terms \in CodeRow /\ CalculateDiscount(terms, r.subtotal) > 0 /\ terms # Null
    BY <1>5 DEF Applies, TotalsInv
  <2>2. PICK d : d = CalculateDiscount(terms, r.subtotal)
    OBVIOUS
  <2>3. d \in Nat /\ d <= r.subtotal /\ d > 0
    BY <1>2, <2>1, <2>2, DiscountBounds
  <2>4. q = [r EXCEPT !.op = "fee", !.code = TRUE, !.edited = FALSE, !.discount = d]
    BY <1>3, <1>5, <2>2
  <2>5. q \in Checkout /\ q.op = "fee" /\ q.subtotal = r.subtotal /\ q.discount = d /\ q.code = TRUE
        /\ q.snapshot = Null
    BY <1>2, <2>3, <2>4 DEF Checkout
  <2> QED  BY <2>1, <2>2, <2>3, <2>5 DEF CheckoutOK
<1>6. ASSUME ~Applies(terms, r.subtotal) PROVE CheckoutOK(q, terms)
  <2>1. q \in Checkout /\ q.op = "fee" /\ q.subtotal = r.subtotal /\ q.discount = 0
        /\ q.code = FALSE /\ q.snapshot = Null
    BY <1>2, <1>3, <1>6 DEF Checkout
  <2> QED  BY <1>2, <2>1 DEF CheckoutOK
<1>7. DOMAIN bill' = Bills /\ DiscountRecorded'
  BY <1>4 DEF TotalsInv, DiscountRecorded
<1> QED  BY <1>4, <1>5, <1>6, <1>7, CheckoutGoesOn

LEMMA ReadFeeKeeps ==
  ASSUME TotalsInv, NEW h \in Handlers, ReadFee(h)
  PROVE  TotalsInv'
<1>0. PICK r : r = request[h]
  OBVIOUS
<1>1. CheckoutOK(r, terms) /\ r.op = "fee" /\ r # Null
  BY <1>0 DEF ReadFee, Doing, TotalsInv, InFlight
<1>2. PICK fee : fee = ComputeDeliveryFee(r.subtotal)
  OBVIOUS
<1>3. fee \in Nat
  BY <1>2 DEF ComputeDeliveryFee, TotalsInv, TariffRow
<1>4. PICK q : q = [r EXCEPT !.op = "allow", !.fee = fee]
  OBVIOUS
<1>5. request' = [request EXCEPT ![h] = q] /\ UNCHANGED <<worth, terms, tariff, bill>>
  BY <1>0, <1>2, <1>4 DEF ReadFee, GoOn, totalVars
<1>6. q \in Checkout /\ q.op = "allow" /\ q.subtotal = r.subtotal /\ q.discount = r.discount
      /\ q.code = r.code /\ q.snapshot = r.snapshot /\ q.edited = r.edited
  BY <1>1, <1>3, <1>4 DEF Checkout, CheckoutOK
<1>7. CheckoutOK(q, terms)
  BY <1>1, <1>6 DEF CheckoutOK
<1>8. DOMAIN bill' = Bills /\ DiscountRecorded'
  BY <1>5 DEF TotalsInv, DiscountRecorded
<1> QED  BY <1>5, <1>7, <1>8, CheckoutGoesOn

LEMMA AllowKeeps ==
  ASSUME TotalsInv, NEW h \in Handlers, AssertFulfilmentAllowed(h)
  PROVE  TotalsInv'
<1>0. PICK r : r = request[h]
  OBVIOUS
<1>1. CheckoutOK(r, terms) /\ r.op = "allow" /\ r # Null
  BY <1>0 DEF AssertFulfilmentAllowed, Doing, TotalsInv, InFlight
<1>4. PICK q : q = [r EXCEPT !.op = IF r.code THEN "again" ELSE "commit"]
  OBVIOUS
<1>5. request' = [request EXCEPT ![h] = q] /\ UNCHANGED <<worth, terms, tariff, bill>>
  BY <1>0, <1>4 DEF AssertFulfilmentAllowed, GoOn, totalVars
<1>6. q \in Checkout /\ q.op = (IF r.code THEN "again" ELSE "commit") /\ q.subtotal = r.subtotal
      /\ q.discount = r.discount /\ q.code = r.code /\ q.snapshot = r.snapshot /\ q.edited = r.edited
  BY <1>1, <1>4 DEF Checkout, CheckoutOK
<1>7. CheckoutOK(q, terms)
  BY <1>1, <1>6 DEF CheckoutOK
<1>8. DOMAIN bill' = Bills /\ DiscountRecorded'
  BY <1>5 DEF TotalsInv, DiscountRecorded
<1> QED  BY <1>5, <1>7, <1>8, CheckoutGoesOn

LEMMA ValidateAgainKeeps ==
  ASSUME TotalsInv, NEW h \in Handlers, ValidateAgain(h)
  PROVE  TotalsInv'
<1>0. PICK r : r = request[h]
  OBVIOUS
<1>1. CheckoutOK(r, terms) /\ r.op = "again" /\ r # Null /\ Applies(terms, r.subtotal)
  BY <1>0 DEF ValidateAgain, Doing, TotalsInv, InFlight
<1>2. PICK d : d = CalculateDiscount(terms, r.subtotal)
  OBVIOUS
<1>3. terms \in CodeRow /\ r \in Checkout /\ r.subtotal \in Nat /\ d \in Nat
  BY <1>1, <1>2, DiscountBounds DEF Applies, CheckoutOK, Checkout, TotalsInv
<1>4. PICK snapshot : snapshot = [type |-> terms.type, value |-> terms.value, amount |-> d, edited |-> r.edited]
  OBVIOUS
<1>5. snapshot \in Snapshot /\ snapshot.amount = d /\ snapshot.edited = r.edited
  BY <1>3, <1>4 DEF Snapshot, CodeRow, Checkout
<1>6. snapshot # Null
  BY <1>5, TotalAssumption
<1>7. PICK q : q = [r EXCEPT !.op = "commit", !.snapshot = snapshot]
  OBVIOUS
<1>8. request' = [request EXCEPT ![h] = q] /\ UNCHANGED <<worth, terms, tariff, bill>>
  BY <1>0, <1>2, <1>4, <1>7 DEF ValidateAgain, GoOn, totalVars
<1>9. q \in Checkout /\ q.op = "commit" /\ q.subtotal = r.subtotal
      /\ q.discount = r.discount /\ q.code = r.code /\ q.snapshot = snapshot /\ q.edited = r.edited
  BY <1>3, <1>5, <1>7 DEF Checkout
<1>10. CheckoutOK(q, terms)
  BY <1>1, <1>2, <1>5, <1>6, <1>9 DEF CheckoutOK
<1>11. DOMAIN bill' = Bills /\ DiscountRecorded'
  BY <1>8 DEF TotalsInv, DiscountRecorded
<1> QED  BY <1>8, <1>10, <1>11, CheckoutGoesOn

LEMMA WriteBillKeeps ==
  ASSUME TotalsInv, NEW h \in Handlers, NEW b \in Bills, WriteBill(h, b)
  PROVE  TotalsInv'
<1>0. PICK r : r = request[h]
  OBVIOUS
<1>1. CheckoutOK(r, terms) /\ r.op = "commit" /\ r # Null
  BY <1>0 DEF WriteBill, Doing, TotalsInv, InFlight
<1>2. /\ r.subtotal \in Nat /\ r.discount \in Nat /\ r.fee \in Nat /\ r.discount <= r.subtotal
      /\ (r.snapshot # Null <=> r.discount > 0)
      /\ (r.snapshot # Null => r.snapshot.edited \/ r.snapshot.amount = r.discount)
  BY <1>1 DEF CheckoutOK, Checkout
<1>3. PICK o : o = [subtotal |-> r.subtotal, discount |-> r.discount, fee |-> r.fee,
                    total |-> Max({0, r.subtotal - r.discount + r.fee}), snapshot |-> r.snapshot,
                    usage |-> IF r.snapshot # Null /\ r.discount > 0 THEN r.discount ELSE Null]
  OBVIOUS
<1>4. /\ request' = [request EXCEPT ![h] = Null] /\ UNCHANGED <<worth, terms, tariff>>
      /\ bill' = [bill EXCEPT ![b] = o]
  BY <1>0, <1>3 DEF WriteBill, End, GoOn
<1>5. Max({0, r.subtotal - r.discount + r.fee}) = r.subtotal - r.discount + r.fee
  <2>1. PICK n : n = r.subtotal - r.discount + r.fee
    OBVIOUS
  <2>2. n \in Int /\ n >= 0
    BY <1>2, <2>1
  <2>3. Max({0, n}) = n
    BY <2>2, MaxOfTwo
  <2> QED  BY <2>1, <2>3
<1>6. /\ o.total = o.subtotal - o.discount + o.fee /\ o.discount <= o.subtotal
      /\ (o.snapshot = Null) = (o.discount = 0)
      /\ (o.snapshot # Null => /\ o.usage = o.discount
                               /\ o.snapshot.edited \/ o.snapshot.amount = o.discount)
  BY <1>2, <1>3, <1>5
<1>7. DOMAIN bill' = Bills /\ \A c \in Bills : bill'[c] = IF c = b THEN o ELSE bill[c]
  BY <1>4 DEF TotalsInv
<1>8. DiscountRecorded'
  BY <1>6, <1>7 DEF TotalsInv, DiscountRecorded
<1> QED  BY <1>4, <1>7, <1>8, CheckoutGoesOn

LEMMA EditCodeKeeps ==
  ASSUME TotalsInv, NEW t \in CodeRow \cup {Null}, EditCode(t)
  PROVE  TotalsInv'
<1>1. /\ terms' = t /\ UNCHANGED <<worth, tariff, bill>> /\ DOMAIN request' = Handlers
      /\ \A h \in Handlers : request'[h] = IF request[h] = Null THEN Null
                                           ELSE [request[h] EXCEPT !.edited = TRUE]
  BY DEF EditCode
<1>2. \A h \in InFlight' : CheckoutOK(request[h], terms)'
  <2> TAKE h \in InFlight'
  <2>1. PICK r : r = request[h]
    OBVIOUS
  <2>2. PICK q : q = request'[h]
    OBVIOUS
  <2>3. CheckoutOK(r, terms) /\ q = [r EXCEPT !.edited = TRUE]
    BY <1>1, <2>1, <2>2 DEF TotalsInv, InFlight
  <2>4. q \in Checkout /\ q.op = r.op /\ q.subtotal = r.subtotal /\ q.discount = r.discount
        /\ q.code = r.code /\ q.snapshot = r.snapshot /\ q.edited
    BY <2>3 DEF CheckoutOK, Checkout
  <2>5. CheckoutOK(q, t)
    BY <2>3, <2>4 DEF CheckoutOK
  <2> QED  BY <1>1, <2>2, <2>5
<1>3. DiscountRecorded'
  BY <1>1 DEF TotalsInv, DiscountRecorded
<1> QED  BY <1>1, <1>2, <1>3 DEF TotalsInv

\* The discount of an order is what its snapshot and its usage row say, for
\* any prices, codes and settings and any number of checkouts, unless the code
\* is edited during the checkout; and its total is that of its parts.
THEOREM DiscountAlwaysRecorded == TotalsSpec => []DiscountRecorded
<1>1. TotalsInit /\ RequestsInit => TotalsInv
  BY TotalAssumption DEF TotalsInit, RequestsInit, TotalsInv, InFlight, DiscountRecorded
<1>2. TotalsInv /\ [TotalsNext]_<<requestVars, totalVars>> => TotalsInv'
  <2> SUFFICES ASSUME TotalsInv, [TotalsNext]_<<requestVars, totalVars>> PROVE TotalsInv'
    OBVIOUS
  <2>1. CASE UNCHANGED <<requestVars, totalVars>>
    BY <2>1, CheckoutsUnchanged DEF requestVars, totalVars, TotalsInv
  <2>2. ASSUME NEW h \in Handlers, Abandon(h), UNCHANGED totalVars PROVE TotalsInv'
    <3>1. DOMAIN bill' = Bills /\ DiscountRecorded'
      BY <2>2 DEF TotalsInv, DiscountRecorded, totalVars
    <3> QED  BY <2>2, <3>1, CheckoutGoesOn DEF Abandon, End, GoOn, totalVars
  <2>3. ASSUME NEW w \in Worths, EditPrices(w) PROVE TotalsInv'
    BY <2>3, CheckoutsUnchanged, TotalAssumption DEF EditPrices, TotalsInv, requestVars
  <2>4. ASSUME NEW t \in Tariffs, EditTariff(t) PROVE TotalsInv'
    BY <2>4, CheckoutsUnchanged, TotalAssumption DEF EditTariff, TotalsInv, requestVars
  <2>5. ASSUME NEW t \in CodeTerms \cup {Null}, EditCode(t) PROVE TotalsInv'
    BY <2>5, EditCodeKeeps, TotalAssumption
  <2> QED
    BY <2>1, <2>2, <2>3, <2>4, <2>5, PriceLinesKeeps, ReadCouponKeeps, ReadFeeKeeps, AllowKeeps,
       ValidateAgainKeeps, WriteBillKeeps DEF TotalsNext
<1>3. TotalsInv => DiscountRecorded
  BY DEF TotalsInv
<1> QED  BY <1>1, <1>2, <1>3, PTL DEF TotalsSpec

-----------------------------------------------------------------------------
(* What staff are told of orders: admin-customers.service.ts and            *)
(* admin-analytics.service.ts. The sums of every chart are over the groups  *)
(* of a key: of any orders that all fall into one of its groups, they add   *)
(* up to what is summed at once.                                            *)

LEMMA FiniteImage ==
  ASSUME NEW S, IsFiniteSet(S), NEW f
  PROVE  IsFiniteSet({f[x] : x \in S})
<1> DEFINE T == {f[x] : x \in S}
           g == [x \in S |-> f[x]]
<1>1. g \in Surjection(S, T)
  BY DEF Surjection
<1> HIDE DEF g, T
<1>2. IsFiniteSet(T)
  BY <1>1, FS_Surjection
<1> QED  BY <1>2 DEF T

LEMMA SaleTypes == IsFiniteSet(SaleType)
<1>1. SaleType = ({} \cup {"DELIVERY"}) \cup {"PICKUP"}
  BY DEF SaleType
<1> QED  BY <1>1, FS_EmptySet, FS_AddElement

LEMMA SaleStatuses == IsFiniteSet(SaleStatus) /\ InProgress \in SUBSET SaleStatus
<1>1. IsFiniteSet({"PENDING", "CONFIRMED"})
  <2>1. {"PENDING", "CONFIRMED"} = ({} \cup {"PENDING"}) \cup {"CONFIRMED"}
    OBVIOUS
  <2> QED  BY <2>1, FS_EmptySet, FS_AddElement
<1>2. IsFiniteSet({"PENDING", "CONFIRMED"} \cup {"PREPARING"})
  BY <1>1, FS_AddElement
<1>3. IsFiniteSet(({"PENDING", "CONFIRMED"} \cup {"PREPARING"}) \cup {"READY"})
  BY <1>2, FS_AddElement
<1> DEFINE S == ({"PENDING", "CONFIRMED"} \cup {"PREPARING"}) \cup {"READY"}
<1>4. IsFiniteSet(S)
  BY <1>3
<1> HIDE DEF S
<1>5. IsFiniteSet((S \cup {"OUT_FOR_DELIVERY"}) \cup {"COMPLETED"})
  BY <1>4, FS_AddElement
<1> DEFINE T == (S \cup {"OUT_FOR_DELIVERY"}) \cup {"COMPLETED"}
<1>6. IsFiniteSet(T)
  BY <1>5
<1> HIDE DEF T
<1>7. IsFiniteSet(T \cup {"CANCELLED"})
  BY <1>6, FS_AddElement
<1>8. SaleStatus = T \cup {"CANCELLED"}
  BY DEF S, T, SaleStatus
<1>9. InProgress \in SUBSET SaleStatus
  BY DEF InProgress, SaleStatus
<1> QED  BY <1>7, <1>8, <1>9

Takings == [o \in Sales |-> sale[o].total]

LEMMA TotalOf ==
  ASSUME ReportsTypeOK, NEW os \in SUBSET Sales
  PROVE  /\ IsFiniteSet(os)
         /\ \A o \in os : Takings[o] \in Int
         /\ Total(os) = SumFunctionOnSet(Takings, os)
         /\ Total(os) \in Int
<1>1. IsFiniteSet(os)
  BY ReportAssumption, FS_Subset
<1>2. \A o \in os : Takings[o] \in Int
  BY DEF Takings, ReportsTypeOK
<1> DEFINE f == [o \in os |-> sale[o].total]
<1>3. \A o \in os : f[o] = Takings[o]
  BY DEF Takings
<1>4. Total(os) = SumFunctionOnSet(f, os)
  BY DEF Total, SumFunction
<1> HIDE DEF f
<1>5. SumFunctionOnSet(f, os) = SumFunctionOnSet(Takings, os)
  BY <1>1, <1>3, SumSame
<1>6. SumFunctionOnSet(Takings, os) \in Int
  BY <1>1, <1>2, SumInt
<1> QED  BY <1>1, <1>2, <1>4, <1>5, <1>6

\* A chart of amounts by a key adds up,
LEMMA TotalByKey ==
  ASSUME ReportsTypeOK, NEW os \in SUBSET Sales, NEW K, IsFiniteSet(K),
         NEW key, \A o \in os : key[o] \in K,
         NEW part, \A k \in K : part[k] = Total({o \in os : key[o] = k})
  PROVE  SumFunctionOnSet(part, K) = Total(os)
<1>1. /\ IsFiniteSet(os) /\ Total(os) = SumFunctionOnSet(Takings, os)
      /\ \A o \in os : Takings[o] \in Int
  BY TotalOf
<1>2. SumsOfGroups(part, Takings, os, key, K)
  <2>1. ASSUME NEW k \in K PROVE part[k] = SumFunctionOnSet(Takings, Keyed(os, key, k))
    <3>1. Keyed(os, key, k) \in SUBSET Sales /\ part[k] = Total(Keyed(os, key, k))
      BY DEF Keyed
    <3> QED  BY <3>1, TotalOf
  <2> QED  BY <2>1 DEF SumsOfGroups
<1>3. SumFunctionOnSet(part, K) = SumFunctionOnSet(Takings, os)
  BY <1>1, <1>2, SumOfParts
<1> QED  BY <1>1, <1>3

\* and so does one of numbers of orders.
LEMMA CountByKey ==
  ASSUME NEW os \in SUBSET Sales, NEW K, IsFiniteSet(K),
         NEW key, \A o \in os : key[o] \in K,
         NEW part, \A k \in K : part[k] = Cardinality({o \in os : key[o] = k})
  PROVE  SumFunctionOnSet(part, K) = Cardinality(os)
<1>1. IsFiniteSet(os)
  BY ReportAssumption, FS_Subset
<1>2. CountsOfGroups(part, os, key, K)
  BY DEF CountsOfGroups, Keyed
<1> QED  BY <1>1, <1>2, CountOfParts

DayOf == [o \in Sales |-> UtcDay(sale[o].time)]
StatusOf == [o \in Sales |-> sale[o].status]
TypeOf == [o \in Sales |-> sale[o].type]
UserOf == [o \in Sales |-> sale[o].user]
CodeOf == [o \in Sales |-> sale[o].code]

\* The days of some orders are finitely many, and so are their codes.
LEMMA DaysOf ==
  ASSUME NEW os \in SUBSET Sales
  PROVE  IsFiniteSet(UtcDays(os)) /\ IsFiniteSet({sale[o].code : o \in os})
<1>1. IsFiniteSet(os)
  BY ReportAssumption, FS_Subset
<1>2. UtcDays(os) = {DayOf[o] : o \in os}
  BY DEF UtcDays, DayOf
<1>3. {sale[o].code : o \in os} = {CodeOf[o] : o \in os}
  BY DEF CodeOf
<1>4. IsFiniteSet({DayOf[o] : o \in os})
  BY <1>1, FiniteImage
<1>5. IsFiniteSet({CodeOf[o] : o \in os})
  BY <1>1, FiniteImage
<1> QED  BY <1>2, <1>3, <1>4, <1>5

\* By the server's clock every instant has its day.
LEMMA ClockFacts == ThisDay \in Int /\ \A t \in Int : LocalDay(t) \in Int
<1>1. Now \in Int /\ Offset \in Int /\ DayLength \in Nat \ {0}
  BY ReportAssumption
<1>2. \A n \in Int : n \div DayLength \in Int
  BY ONLY <1>1
<1>3. ASSUME NEW t \in Int PROVE LocalDay(t) \in Int
  <2>1. t + Offset \in Int
    BY <1>1
  <2> QED  BY <1>2, <2>1 DEF LocalDay
<1> QED  BY <1>1, <1>3 DEF ThisDay

-----------------------------------------------------------------------------
(* Lists that are cut.                                                      *)

\* There is a top of any length: take the least away until so many are left.
LEMMA TopExists ==
  ASSUME NEW f, IsFiniteSet(DOMAIN f), \A x \in DOMAIN f : f[x] \in Nat,
         NEW n \in Nat, n <= Cardinality(DOMAIN f)
  PROVE  \E S \in SUBSET DOMAIN f : IsTop(S, f, n)
<1> DEFINE B == {S \in SUBSET DOMAIN f : /\ n <= Cardinality(S)
                                        /\ \A x \in S, y \in DOMAIN f \ S : f[x] >= f[y]}
<1>1. B \in SUBSET SUBSET DOMAIN f /\ DOMAIN f \in B
  OBVIOUS
<1>2. PICK T \in B : \A U \in SUBSET T : U # T => U \notin B
  <2> HIDE DEF B
  <2> QED  BY <1>1, SmallestSubset
<1>3. IsFiniteSet(T) /\ Cardinality(T) \in Nat
  BY FS_Subset, FS_CardinalityType
<1>4. ASSUME Cardinality(T) # n PROVE FALSE
  <2>1. n < Cardinality(T)
    BY <1>3, <1>4
  <2>2. T # {}
    BY <2>1, FS_EmptySet
  <2> DEFINE V == {f[x] : x \in T}
  <2>3. V \in SUBSET Nat /\ V # {}
    BY <2>2
  <2> HIDE DEF V
  <2>4. PICK v \in V : \A w \in V : v <= w
    BY <2>3, SmallestOf
  <2>5. PICK x \in T : v = f[x]
    BY <2>4 DEF V
  <2>6. \A y \in T : f[y] >= f[x]
    <3> TAKE y \in T
    <3>1. f[x] <= f[y] /\ f[x] \in Nat /\ f[y] \in Nat
      BY <2>4, <2>5 DEF V
    <3> QED  BY <3>1
  <2>7. Cardinality(T \ {x}) = Cardinality(T) - 1
    BY <1>3, FS_RemoveElement
  <2>8. n <= Cardinality(T \ {x})
    BY <1>3, <2>1, <2>7
  <2>9. ASSUME NEW a \in T \ {x}, NEW b \in DOMAIN f \ (T \ {x}) PROVE f[a] >= f[b]
    <3>1. CASE b = x
      BY <2>6, <3>1
    <3>2. CASE b # x
      <4>1. b \in DOMAIN f \ T
        BY <3>2
      <4> QED  BY <4>1
    <3> QED  BY <3>1, <3>2
  <2>10. T \ {x} \in B
    BY <2>8, <2>9
  <2> QED  BY <1>2, <2>10
<1> QED  BY <1>4 DEF IsTop

\* What is cut off a list makes its sum no greater.
LEMMA TopSum ==
  ASSUME NEW f, f = [x \in DOMAIN f |-> f[x]], IsFiniteSet(DOMAIN f), \A x \in DOMAIN f : f[x] \in Nat
  PROVE  /\ SumFunction(f) \in Nat /\ SumFunction(Top(f)) \in Nat
         /\ SumFunction(Top(f)) <= SumFunction(f)
         /\ Cardinality(DOMAIN f) <= TopSize => SumFunction(Top(f)) = SumFunction(f)
<1>1. SumFunction(f) = SumFunctionOnSet(f, DOMAIN f) /\ SumFunctionOnSet(f, DOMAIN f) \in Nat
  BY SumNat DEF SumFunction
<1>2. Cardinality(DOMAIN f) \in Nat /\ TopSize \in Nat
  BY FS_CardinalityType, ReportAssumption
<1>3. CASE Cardinality(DOMAIN f) <= TopSize
  BY <1>1, <1>3 DEF Top
<1>4. CASE ~(Cardinality(DOMAIN f) <= TopSize)
  <2>1. TopSize <= Cardinality(DOMAIN f)
    BY <1>2, <1>4
  <2>2. PICK S : S = CHOOSE T \in SUBSET DOMAIN f : IsTop(T, f, TopSize)
    OBVIOUS
  <2>3. S \in SUBSET DOMAIN f
    BY <1>2, <2>1, <2>2, TopExists
  <2>4. PICK g : g = [x \in S |-> f[x]]
    OBVIOUS
  <2>5. Top(f) = g
    BY <1>4, <2>2, <2>4 DEF Top, Restrict
  <2>6. DOMAIN g = S /\ IsFiniteSet(S) /\ \A x \in S : g[x] = f[x]
    BY <2>3, <2>4, FS_Subset
  <2>7. SumFunction(g) = SumFunctionOnSet(g, S)
    BY <2>6 DEF SumFunction
  <2>8. SumFunctionOnSet(g, S) = SumFunctionOnSet(f, S)
    BY <2>6, SumSame
  <2>9. SumFunctionOnSet(f, DOMAIN f) = SumFunctionOnSet(f, S) + SumFunctionOnSet(f, DOMAIN f \ S)
    BY <2>3, SumSplit
  <2>10. SumFunctionOnSet(f, S) \in Nat /\ SumFunctionOnSet(f, DOMAIN f \ S) \in Nat
    <3>1. IsFiniteSet(DOMAIN f \ S)
      BY FS_Subset
    <3>2. \A x \in S : f[x] \in Nat
      BY <2>3
    <3>3. PICK R : R = DOMAIN f \ S
      OBVIOUS
    <3>4. IsFiniteSet(R) /\ \A x \in R : f[x] \in Nat
      BY <3>1, <3>3
    <3> QED  BY <2>6, <3>2, <3>3, <3>4, SumNat
  <2> QED  BY <1>1, <1>4, <2>5, <2>7, <2>8, <2>9, <2>10
<1> QED  BY <1>3, <1>4

-----------------------------------------------------------------------------
(* A customer. *)

LEMMA OrdersByStatus ==
  ASSUME ReportsTypeOK, NEW os \in SUBSET Sales
  PROVE  SumFunction([s \in SaleStatus |-> Cardinality(Having(os, {s}))]) = Cardinality(os)
<1> DEFINE part == [s \in SaleStatus |-> Cardinality(Having(os, {s}))]
<1>1. \A s \in SaleStatus : part[s] = Cardinality({o \in os : StatusOf[o] = s})
  <2> TAKE s \in SaleStatus
  <2>1. Having(os, {s}) = {o \in os : StatusOf[o] = s}
    BY DEF Having, StatusOf
  <2> QED  BY <2>1
<1>2. \A o \in os : StatusOf[o] \in SaleStatus
  BY DEF StatusOf, ReportsTypeOK
<1>3. SumFunction(part) = SumFunctionOnSet(part, SaleStatus)
  BY DEF SumFunction
<1> HIDE DEF part
<1>4. SumFunctionOnSet(part, SaleStatus) = Cardinality(os)
  BY <1>1, <1>2, SaleStatuses, CountByKey
<1> QED  BY <1>3, <1>4 DEF part

\* What is done, what is cancelled and what is in progress are all orders.
LEMMA StatusesAddUp ==
  ASSUME ReportsTypeOK, NEW u \in Buyers
  PROVE  LET short == Summary(u) IN
         /\ short.orders = Cardinality(Of(u))
         /\ short.orders = short.completed + short.cancelled + short.inProgress
<1> DEFINE b == [s \in SaleStatus |-> Cardinality(Having(Of(u), {s}))]
           rest == SaleStatus \ InProgress
<1>1. Of(u) \in SUBSET Sales
  BY DEF Of
<1>2. SumFunction(b) = Cardinality(Of(u))
  BY <1>1, OrdersByStatus
<1>3. /\ Summary(u).orders = SumFunction(b)
      /\ Summary(u).completed = b["COMPLETED"] /\ Summary(u).cancelled = b["CANCELLED"]
      /\ Summary(u).inProgress = SumFunctionOnSet(b, InProgress)
  BY DEF Summary
<1>4. SumFunction(b) = SumFunctionOnSet(b, SaleStatus)
  BY DEF SumFunction
<1>5. \A s \in SaleStatus : b[s] \in Int
  <2> TAKE s \in SaleStatus
  <2>1. Having(Of(u), {s}) \in SUBSET Sales
    BY DEF Having, Of
  <2>2. IsFiniteSet(Having(Of(u), {s}))
    BY <2>1, ReportAssumption, FS_Subset
  <2> QED  BY <2>2, FS_CardinalityType
<1> HIDE DEF b
<1>6. SumFunctionOnSet(b, SaleStatus) = SumFunctionOnSet(b, InProgress) + SumFunctionOnSet(b, rest)
  BY <1>5, SaleStatuses, SumSplit
<1>7. /\ rest = {"COMPLETED"} \cup {"CANCELLED"} /\ "CANCELLED" \notin {"COMPLETED"}
      /\ rest \in SUBSET SaleStatus
  BY DEF SaleStatus, InProgress
<1>8. SumFunctionOnSet(b, rest) = b["CANCELLED"] + b["COMPLETED"]
  <2>1. IsFiniteSet({"COMPLETED"}) /\ IsFiniteSet({})
    BY FS_Singleton, FS_EmptySet
  <2>2. \A s \in {"COMPLETED"} \cup {"CANCELLED"} : b[s] \in Int
    BY <1>5, <1>7
  <2>3. SumFunctionOnSet(b, {"COMPLETED"} \cup {"CANCELLED"})
          = b["CANCELLED"] + SumFunctionOnSet(b, {"COMPLETED"})
    BY <1>7, <2>1, <2>2, SumAdd
  <2>4. SumFunctionOnSet(b, {} \cup {"COMPLETED"}) = b["COMPLETED"] + SumFunctionOnSet(b, {})
    BY <2>1, <2>2, SumAdd
  <2>5. {} \cup {"COMPLETED"} = {"COMPLETED"}
    OBVIOUS
  <2>6. SumFunctionOnSet(b, {"COMPLETED"}) = b["COMPLETED"] + 0 /\ b["COMPLETED"] \in Int
    BY <2>2, <2>4, <2>5, SumEmpty
  <2> QED  BY <1>7, <2>3, <2>6
<1>9. b["COMPLETED"] \in Int /\ b["CANCELLED"] \in Int /\ SumFunctionOnSet(b, InProgress) \in Int
  <2>1. IsFiniteSet(InProgress) /\ \A s \in InProgress : b[s] \in Int
    BY <1>5, SaleStatuses, FS_Subset
  <2> QED  BY <1>5, <1>7, <2>1, SumInt
<1> HIDE DEF rest
<1>10. SumFunctionOnSet(b, SaleStatus) = b["COMPLETED"] + b["CANCELLED"] + SumFunctionOnSet(b, InProgress)
  BY ONLY <1>6, <1>8, <1>9
<1> QED  BY <1>2, <1>3, <1>4, <1>10

LEMMA DaysAddUp ==
  ASSUME ReportsTypeOK, NEW u \in Buyers
  PROVE  /\ SumFunction(Charts(u).orders) = Cardinality(Of(u))
         /\ SumFunction(Charts(u).spend) = Total(Kept(Of(u)))
         /\ SumFunction(Charts(u).types) = Cardinality(Of(u))
<1> DEFINE all == Of(u)
           paid == Kept(Of(u))
           days == UtcDays(all)
           paidDays == UtcDays(paid)
           orders == [d \in days |-> Cardinality(OnUtc(all, d))]
           spend == [d \in paidDays |-> Total(OnUtc(paid, d))]
           types == [t \in SaleType |-> Cardinality({o \in all : sale[o].type = t})]
<1>1. all \in SUBSET Sales /\ paid \in SUBSET Sales
  BY DEF Of, Kept, Having
<1>2. /\ Charts(u).orders = orders /\ Charts(u).spend = spend /\ Charts(u).types = types
  BY DEF Charts
<1>3. IsFiniteSet(days) /\ IsFiniteSet(paidDays)
  BY <1>1, DaysOf
<1>4. \A d \in days : orders[d] = Cardinality({o \in all : DayOf[o] = d})
  <2> TAKE d \in days
  <2>1. OnUtc(all, d) = {o \in all : DayOf[o] = d}
    BY <1>1 DEF OnUtc, DayOf
  <2> QED  BY <2>1
<1>5. \A d \in paidDays : spend[d] = Total({o \in paid : DayOf[o] = d})
  <2> TAKE d \in paidDays
  <2>1. OnUtc(paid, d) = {o \in paid : DayOf[o] = d}
    BY <1>1 DEF OnUtc, DayOf
  <2> QED  BY <2>1
<1>6. \A t \in SaleType : types[t] = Cardinality({o \in all : TypeOf[o] = t})
  <2> TAKE t \in SaleType
  <2>1. {o \in all : sale[o].type = t} = {o \in all : TypeOf[o] = t}
    BY <1>1 DEF TypeOf
  <2> QED  BY <2>1
<1>7. /\ \A o \in all : DayOf[o] \in days /\ TypeOf[o] \in SaleType
      /\ \A o \in paid : DayOf[o] \in paidDays
  BY <1>1 DEF DayOf, TypeOf, UtcDays, ReportsTypeOK
<1>8. /\ SumFunction(orders) = SumFunctionOnSet(orders, days)
      /\ SumFunction(spend) = SumFunctionOnSet(spend, paidDays)
      /\ SumFunction(types) = SumFunctionOnSet(types, SaleType)
  BY DEF SumFunction
<1> HIDE DEF days, paidDays, orders, spend, types
<1>9. SumFunctionOnSet(orders, days) = Cardinality(all)
  <2>1. \A o \in all : DayOf[o] \in days
    BY <1>7
  <2> QED  BY <1>1, <1>3, <1>4, <2>1, CountByKey
<1>10. SumFunctionOnSet(spend, paidDays) = Total(paid)
  BY <1>1, <1>3, <1>5, <1>7, TotalByKey
<1>11. SumFunctionOnSet(types, SaleType) = Cardinality(all)
  BY <1>1, <1>6, <1>7, SaleTypes, CountByKey
<1> QED  BY <1>2, <1>8, <1>9, <1>10, <1>11 DEF all, paid

\* A usage row goes with every order whose code takes something off.
LEMMA CodedOrders ==
  ASSUME ReportsTypeOK, NEW u \in Buyers
  PROVE  Cardinality(CouponUsages(u)) + Cardinality({o \in WithCode(Of(u)) : sale[o].discount = 0})
           = Cardinality(WithCode(Of(u)))
<1>1. PICK some, none : some = CouponUsages(u) /\ none = {o \in WithCode(Of(u)) : sale[o].discount = 0}
  OBVIOUS
<1>2. \A o \in Sales : sale[o].discount = 0 <=> ~(sale[o].discount > 0)
  BY DEF ReportsTypeOK
<1>3. some \cup none = WithCode(Of(u)) /\ some \cap none = {} /\ some \in SUBSET Sales /\ none \in SUBSET Sales
  BY <1>1, <1>2 DEF CouponUsages, WithCode, Of, ReportsTypeOK
<1>4. IsFiniteSet(some) /\ IsFiniteSet(none)
  BY <1>3, ReportAssumption, FS_Subset
<1>5. Cardinality(some \cup none) = Cardinality(some) + Cardinality(none) - Cardinality(some \cap none)
  BY <1>4, FS_Union
<1>6. Cardinality(some \cap none) = 0 /\ Cardinality(some) \in Nat /\ Cardinality(none) \in Nat
  BY <1>3, <1>4, FS_EmptySet, FS_CardinalityType
<1>7. Cardinality(some \cup none) = Cardinality(some) + Cardinality(none)
  BY ONLY <1>5, <1>6
<1> QED  BY <1>1, <1>3, <1>7

LEMMA CodesAddUp ==
  ASSUME ReportsTypeOK, NEW u \in Buyers
  PROVE  /\ SumFunction(Charts(u).coupons) <= Cardinality(WithCode(Of(u)))
         /\ Cardinality(CodesOf(Of(u))) <= TopSize
              => SumFunction(Charts(u).coupons) = Cardinality(WithCode(Of(u)))
<1> DEFINE coded == WithCode(Of(u))
           codes == CodesOf(Of(u))
           coupons == [c \in codes |-> Cardinality({o \in WithCode(Of(u)) : sale[o].code = c})]
<1>1. coded \in SUBSET Sales
  BY DEF Of, WithCode
<1>2. Charts(u).coupons = Top(coupons)
  BY DEF Charts
<1>3. IsFiniteSet(codes)
  BY <1>1, DaysOf DEF CodesOf
<1>4. \A c \in codes : coupons[c] = Cardinality({o \in coded : CodeOf[o] = c})
  <2> TAKE c \in codes
  <2>1. {o \in WithCode(Of(u)) : sale[o].code = c} = {o \in coded : CodeOf[o] = c}
    BY <1>1 DEF CodeOf
  <2> QED  BY <2>1
<1>5. \A o \in coded : CodeOf[o] \in codes
  BY <1>1 DEF CodeOf, CodesOf
<1>6. SumFunction(coupons) = SumFunctionOnSet(coupons, codes)
  BY DEF SumFunction
<1>7. DOMAIN coupons = codes /\ coupons = [c \in DOMAIN coupons |-> coupons[c]]
  OBVIOUS
<1>8. \A c \in codes : coupons[c] \in Nat
  <2> TAKE c \in codes
  <2>1. PICK os : os = {o \in coded : CodeOf[o] = c}
    OBVIOUS
  <2>2. os \in SUBSET Sales
    BY <1>1, <2>1
  <2>3. IsFiniteSet(os)
    BY <2>2, ReportAssumption, FS_Subset
  <2> QED  BY <1>4, <2>1, <2>3, FS_CardinalityType
<1> HIDE DEF coded, codes, coupons
<1>9. SumFunctionOnSet(coupons, codes) = Cardinality(coded)
  <2>1. PICK os, K, key, part : os = coded /\ K = codes /\ key = CodeOf /\ part = coupons
    OBVIOUS
  <2>2. os \in SUBSET Sales /\ IsFiniteSet(K) /\ \A o \in os : key[o] \in K
    BY <1>1, <1>3, <1>5, <2>1
  <2>3. \A k \in K : part[k] = Cardinality({o \in os : key[o] = k})
    BY <1>4, <2>1
  <2>4. SumFunctionOnSet(part, K) = Cardinality(os)
    BY <2>2, <2>3, CountByKey
  <2> QED  BY <2>1, <2>4
<1>10. /\ SumFunction(Top(coupons)) <= SumFunction(coupons)
       /\ Cardinality(DOMAIN coupons) <= TopSize => SumFunction(Top(coupons)) = SumFunction(coupons)
  <2>1. IsFiniteSet(DOMAIN coupons) /\ \A c \in DOMAIN coupons : coupons[c] \in Nat
    BY <1>3, <1>7, <1>8
  <2> QED  BY <1>7, <2>1, TopSum
<1> QED  BY <1>2, <1>6, <1>7, <1>9, <1>10 DEF coded, codes

\* The two periods that are compared meet and have no day in common.
LEMMA PeriodsMeet ==
  ASSUME ReportsTypeOK, NEW os \in SUBSET Sales
  PROVE  Cardinality(On(os, Window(1))) + Cardinality(On(os, Window(2)))
           = Cardinality(On(os, (ThisDay - 59)..ThisDay))
<1> DEFINE a == On(os, Window(1))
           b == On(os, Window(2))
<1>1. ThisDay \in Int
  BY ClockFacts
<1>2. Window(1) = (ThisDay - 29)..ThisDay /\ Window(2) = (ThisDay - 29 - 1 - 29)..(ThisDay - 29 - 1)
  BY DEF Window
<1>3. \A d \in Int : /\ d \in (ThisDay - 59)..ThisDay <=> d \in Window(1) \/ d \in Window(2)
                     /\ ~(d \in Window(1) /\ d \in Window(2))
  <2> TAKE d \in Int
  <2>1. PICK day : day = ThisDay
    OBVIOUS
  <2>2. day \in Int
    BY <1>1, <2>1
  <2>3. /\ d \in (day - 59)..day <=> d \in (day - 29)..day \/ d \in (day - 29 - 1 - 29)..(day - 29 - 1)
        /\ ~(d \in (day - 29)..day /\ d \in (day - 29 - 1 - 29)..(day - 29 - 1))
    BY ONLY <2>2, d \in Int
  <2> QED  BY <1>2, <2>1, <2>3
<1>4. \A o \in os : LocalDay(sale[o].time) \in Int
  BY ClockFacts DEF ReportsTypeOK
<1>5. a \cup b = On(os, (ThisDay - 59)..ThisDay) /\ a \cap b = {}
  BY <1>3, <1>4 DEF On
<1>6. IsFiniteSet(a) /\ IsFiniteSet(b)
  <2>1. a \in SUBSET Sales /\ b \in SUBSET Sales
    BY DEF On
  <2> HIDE DEF a, b
  <2> QED  BY <2>1, ReportAssumption, FS_Subset
<1> HIDE DEF a, b
<1>7. Cardinality(a \cup b) = Cardinality(a) + Cardinality(b)
  <2>1. Cardinality(a \cup b) = Cardinality(a) + Cardinality(b) - Cardinality({})
    BY <1>5, <1>6, FS_Union
  <2>2. Cardinality({}) = 0 /\ Cardinality(a) \in Nat /\ Cardinality(b) \in Nat
    BY <1>6, FS_EmptySet, FS_CardinalityType
  <2> QED  BY ONLY <2>1, <2>2
<1> QED  BY <1>5, <1>7 DEF a, b

LEMMA CustomersAgree == ASSUME ReportsTypeOK PROVE CustomerFiguresAgree
<1> SUFFICES ASSUME NEW u \in Buyers
             PROVE  LET row == ListRow(u)
                        short == Summary(u)
                        charts == Charts(u)
                        coded == Customer(u).coupons
                                   + Cardinality({o \in WithCode(Of(u)) : sale[o].discount = 0}) IN
                    /\ row = [orders |-> Customer(u).orders, spend |-> Customer(u).spend, last |-> Customer(u).last]
                    /\ row = [orders |-> short.orders, spend |-> short.spend, last |-> short.last]
                    /\ short.orders = short.completed + short.cancelled + short.inProgress
                    /\ row.orders = SumFunction(charts.orders) /\ row.spend = SumFunction(charts.spend)
                    /\ row.orders = SumFunction(charts.types)
                    /\ short.coupons = Customer(u).coupons /\ SumFunction(charts.coupons) <= coded
                    /\ Cardinality(CodesOf(Of(u))) <= TopSize => SumFunction(charts.coupons) = coded
                    /\ short.completed > 0 => short.average = charts.average
                    /\ charts.last30.orders + charts.previous30.orders
                         = Cardinality(On(Of(u), (ThisDay - 59)..ThisDay))
  BY DEF CustomerFiguresAgree
<1>1. Of(u) \in SUBSET Sales
  BY DEF Of
<1>2. /\ ListRow(u) = [orders |-> Cardinality(Of(u)), spend |-> Total(Kept(Of(u))), last |-> LastOrderAt(Kept(Of(u)))]
      /\ Customer(u).orders = Cardinality(Of(u)) /\ Customer(u).spend = Total(Kept(Of(u)))
      /\ Customer(u).last = LastOrderAt(Kept(Of(u)))
      /\ Customer(u).coupons = Cardinality(CouponUsages(u))
  BY DEF ListRow, Customer
<1>3. Summary(u).spend = Total(Kept(Of(u))) /\ Summary(u).last = LastOrderAt(Kept(Of(u)))
      /\ Summary(u).coupons = Cardinality(CouponUsages(u))
  BY DEF Summary
<1>4. Summary(u).completed > 0 => Summary(u).average = Charts(u).average
  <2>1. Summary(u).completed = Cardinality(Completed(Of(u)))
    BY DEF Summary, Completed, SaleStatus
  <2>2. Charts(u).average = Average(Completed(Of(u)))
    BY DEF Charts
  <2>3. CASE Completed(Of(u)) = {}
    <3>1. Cardinality(Completed(Of(u))) = 0
      BY <2>3, FS_EmptySet
    <3> QED  BY <2>1, <3>1
  <2>4. CASE Completed(Of(u)) # {}
    BY <2>2, <2>4 DEF Summary
  <2> QED  BY <2>3, <2>4
<1>5. /\ Charts(u).last30.orders = Cardinality(On(Of(u), Window(1)))
      /\ Charts(u).previous30.orders = Cardinality(On(Of(u), Window(2)))
  BY DEF Charts
<1>6. /\ Summary(u).orders = Cardinality(Of(u))
      /\ Summary(u).orders = Summary(u).completed + Summary(u).cancelled + Summary(u).inProgress
  BY StatusesAddUp
<1>7. /\ SumFunction(Charts(u).orders) = Cardinality(Of(u))
      /\ SumFunction(Charts(u).spend) = Total(Kept(Of(u)))
      /\ SumFunction(Charts(u).types) = Cardinality(Of(u))
  BY DaysAddUp
<1>8. LET coded == Customer(u).coupons
                     + Cardinality({o \in WithCode(Of(u)) : sale[o].discount = 0}) IN
      /\ SumFunction(Charts(u).coupons) <= coded
      /\ Cardinality(CodesOf(Of(u))) <= TopSize => SumFunction(Charts(u).coupons) = coded
  BY <1>2, CodesAddUp, CodedOrders
<1>9. Cardinality(On(Of(u), Window(1))) + Cardinality(On(Of(u), Window(2)))
        = Cardinality(On(Of(u), (ThisDay - 59)..ThisDay))
  BY <1>1, PeriodsMeet
<1>10. ListRow(u).orders = Cardinality(Of(u)) /\ ListRow(u).spend = Total(Kept(Of(u)))
  BY <1>2
<1>11. /\ ListRow(u) = [orders |-> Customer(u).orders, spend |-> Customer(u).spend, last |-> Customer(u).last]
       /\ ListRow(u) = [orders |-> Summary(u).orders, spend |-> Summary(u).spend, last |-> Summary(u).last]
  BY <1>2, <1>3, <1>6
<1> QED  BY <1>2, <1>3, <1>4, <1>5, <1>6, <1>7, <1>8, <1>9, <1>10, <1>11

-----------------------------------------------------------------------------
(* The shop.                                                                *)

\* There is a year for every day that is looked at.
LEMMA YearKnown ==
  ASSUME ReportsTypeOK, NEW t \in Int, t >= ThisDay - 60
  PROVE  YearOf(t) \in Int
<1> DEFINE Y == {y \in year : y <= t}
           T == {t - y : y \in Y}
<1>1. ThisDay \in Int /\ year \subseteq Int
  BY ClockFacts DEF ReportsTypeOK
<1>2. T \in SUBSET Nat /\ T # {}
  <2>1. ASSUME NEW y \in Y PROVE t - y \in Nat
    <3>1. y \in Int /\ y <= t
      BY <1>1
    <3> QED  BY ONLY <3>1, t \in Int
  <2>2. PICK y \in year : y < ThisDay - 60
    BY DEF ReportsTypeOK
  <2>3. y \in Int
    BY <1>1
  <2>4. y <= t
    BY ONLY <1>1, <2>2, <2>3, t \in Int, t >= ThisDay - 60
  <2> QED  BY <2>1, <2>4
<1> HIDE DEF T
<1>3. PICK n \in T : \A k \in T : n <= k
  BY <1>2, SmallestOf
<1>4. PICK m \in Y : n = t - m
  BY DEF T
<1>5. \A y \in Y : m >= y
  <2> TAKE y \in Y
  <2>1. t - m <= t - y
    BY <1>3, <1>4 DEF T
  <2>2. y \in Int /\ m \in Int
    BY <1>1
  <2> QED  BY ONLY <2>1, <2>2, t \in Int
<1>6. Max(Y) \in Y
  BY <1>5 DEF Max
<1> QED  BY <1>1, <1>6 DEF YearOf

\* isoWeekKey tells weeks apart as they begin on Mondays.
LEMMA WeekOfMonday ==
  ASSUME ReportsTypeOK, NEW d \in Int, d >= ThisDay - 29, NEW e \in Int, e >= ThisDay - 29
  PROVE  IsoWeekKey(d) = IsoWeekKey(e) <=> d \div 7 = e \div 7
<1> DEFINE thursday(x) == 7 * (x \div 7) + 3
           key(x) == <<YearOf(thursday(x)), (thursday(x) - YearOf(thursday(x)) + 1 + 6) \div 7>>
<1>1. ASSUME NEW x \in Int, x >= ThisDay - 29
      PROVE  IsoWeekKey(x) = key(x) /\ thursday(x) \in Int /\ YearOf(thursday(x)) \in Int
  <2>1. ThisDay \in Int
    BY ClockFacts
  <2>2. x + 4 - (IF (x + 1) % 7 = 0 THEN 7 ELSE (x + 1) % 7) = thursday(x)
    BY ONLY x \in Int
  <2>3. IsoWeekKey(x) = key(x)
    BY <2>2 DEF IsoWeekKey
  <2>4. thursday(x) \in Int /\ thursday(x) >= ThisDay - 60
    BY ONLY <2>1, x \in Int, x >= ThisDay - 29
  <2> HIDE DEF thursday
  <2> QED  BY <2>3, <2>4, YearKnown
<1>2. IsoWeekKey(d) = key(d) /\ IsoWeekKey(e) = key(e)
  BY <1>1
<1>3. d \div 7 = e \div 7 => IsoWeekKey(d) = IsoWeekKey(e)
  BY <1>2
<1>4. ASSUME key(d) = key(e) PROVE d \div 7 = e \div 7
  <2> DEFINE y == YearOf(thursday(d))
  <2>1. y \in Int /\ YearOf(thursday(e)) = y
    BY <1>1, <1>4
  <2>2. y \in Int
    BY <2>1
  <2>3. (thursday(d) - y + 1 + 6) \div 7 = (thursday(e) - y + 1 + 6) \div 7
    BY <1>4, <2>1
  <2>4. d \div 7 \in Int /\ e \div 7 \in Int
    BY ONLY d \in Int, e \in Int
  <2>5. PICK q \in Int, r \in Int : q = d \div 7 /\ r = e \div 7
    BY ONLY <2>4
  <2>6. thursday(d) = 7 * q + 3 /\ thursday(e) = 7 * r + 3
    BY <2>5
  <2>7. (7 * q + 3 - y + 1 + 6) \div 7 = (7 * r + 3 - y + 1 + 6) \div 7
    <3> HIDE DEF y, thursday
    <3> QED  BY ONLY <2>3, <2>2, <2>6, q \in Int, r \in Int
  <2> HIDE DEF y
  <2>8. q = r
    BY ONLY <2>7, <2>2, q \in Int, r \in Int
  <2> QED  BY <2>5, <2>8
<1> HIDE DEF key
<1> QED  BY <1>2, <1>3, <1>4

\* The days of the shop's charts.
LEMMA DailyAddsUp ==
  ASSUME ReportsTypeOK, NEW days
  PROVE  LET daily == DailySeries(days) IN
         /\ IsFiniteSet(DOMAIN daily)
         /\ \A d \in DOMAIN daily : daily[d].sales \in Int
         /\ SumFunction([d \in DOMAIN daily |-> daily[d].sales]) = Total(Completed(On(Sales, days)))
         /\ SumFunction([d \in DOMAIN daily |-> daily[d].orders]) = Cardinality(On(Sales, days))
<1> DEFINE all == On(Sales, days)
           done == Completed(On(Sales, days))
           K == UtcDays(all)
           daily == DailySeries(days)
           sales == [d \in K |-> daily[d].sales]
           orders == [d \in K |-> daily[d].orders]
<1>1. all \in SUBSET Sales /\ done \in SUBSET Sales
  BY DEF On, Completed, Having
<1>2. /\ DOMAIN daily = K
      /\ \A d \in K : /\ daily[d].sales = Total(Completed(OnUtc(all, d)))
                      /\ daily[d].orders = Cardinality(OnUtc(all, d))
  BY DEF DailySeries
<1>3. IsFiniteSet(K)
  BY <1>1, DaysOf
<1>5. \A d \in K : sales[d] = Total({o \in done : DayOf[o] = d})
  <2> TAKE d \in K
  <2>1. Completed(OnUtc(all, d)) = {o \in done : DayOf[o] = d}
    BY <1>1 DEF OnUtc, DayOf, Completed, Having
  <2> QED  BY <1>2, <2>1
<1>6. \A d \in K : orders[d] = Cardinality({o \in all : DayOf[o] = d})
  <2> TAKE d \in K
  <2>1. OnUtc(all, d) = {o \in all : DayOf[o] = d}
    BY <1>1 DEF OnUtc, DayOf
  <2> QED  BY <1>2, <2>1
<1>7. \A o \in all : DayOf[o] \in K
  BY <1>1 DEF DayOf, UtcDays
<1>8. \A o \in done : DayOf[o] \in K
  BY <1>1 DEF DayOf, UtcDays, Completed, Having
<1>9. \A d \in K : daily[d].sales \in Int
  <2> TAKE d \in K
  <2>1. Completed(OnUtc(all, d)) \in SUBSET Sales
    BY <1>1 DEF OnUtc, Completed, Having
  <2> QED  BY <1>2, <2>1, TotalOf
<1>10. /\ SumFunction(sales) = SumFunctionOnSet(sales, K)
       /\ SumFunction(orders) = SumFunctionOnSet(orders, K)
  BY DEF SumFunction
<1>11. /\ SumFunction([d \in DOMAIN daily |-> daily[d].sales]) = SumFunction(sales)
       /\ SumFunction([d \in DOMAIN daily |-> daily[d].orders]) = SumFunction(orders)
  BY <1>2
<1> HIDE DEF K, sales, orders
<1>12. SumFunctionOnSet(sales, K) = Total(done)
  BY <1>1, <1>3, <1>5, <1>8, TotalByKey
<1>13. SumFunctionOnSet(orders, K) = Cardinality(all)
  BY <1>1, <1>3, <1>6, <1>7, CountByKey
<1> HIDE DEF daily
<1>14. IsFiniteSet(DOMAIN daily) /\ \A d \in DOMAIN daily : daily[d].sales \in Int
  BY <1>2, <1>3, <1>9
<1> QED  BY <1>10, <1>11, <1>12, <1>13, <1>14 DEF daily

\* What a series adds up to, its buckets add up to.
LEMMA BucketsAddUp ==
  ASSUME NEW daily, IsFiniteSet(DOMAIN daily), \A d \in DOMAIN daily : daily[d].sales \in Int,
         NEW key
  PROVE  LET weekly == BucketSeries(daily, key) IN
         SumFunction([k \in DOMAIN weekly |-> weekly[k].sales])
           = SumFunction([d \in DOMAIN daily |-> daily[d].sales])
<1> DEFINE D == DOMAIN daily
           K == {key[d] : d \in D}
           weekly == BucketSeries(daily, key)
           f == [d \in D |-> daily[d].sales]
           part == [k \in K |-> weekly[k].sales]
<1>1. IsFiniteSet(K)
  BY FiniteImage
<1>2. \A d \in D : f[d] \in Int /\ key[d] \in K
  OBVIOUS
<1>3. DOMAIN weekly = K
  BY DEF BucketSeries
<1>4. ASSUME NEW k \in K PROVE part[k] = SumFunctionOnSet(f, Keyed(D, key, k))
  <2> DEFINE days == {d \in D : key[d] = k}
             g == [d \in days |-> daily[d].sales]
  <2>1. part[k] = SumFunctionOnSet(g, days)
    BY DEF BucketSeries, SumFunction
  <2>2. days = Keyed(D, key, k)
    BY DEF Keyed
  <2>3. \A d \in days : g[d] = f[d]
    OBVIOUS
  <2>4. IsFiniteSet(days)
    <3>1. days \in SUBSET D
      OBVIOUS
    <3> HIDE DEF days
    <3> QED  BY <3>1, FS_Subset
  <2> HIDE DEF days, g
  <2>5. SumFunctionOnSet(g, days) = SumFunctionOnSet(f, days)
    BY <2>3, <2>4, SumSame
  <2> QED  BY <2>1, <2>2, <2>5
<1>5. SumFunction(f) = SumFunctionOnSet(f, D) /\ SumFunction(part) = SumFunctionOnSet(part, K)
  BY DEF SumFunction
<1>6. SumFunction([k \in DOMAIN weekly |-> weekly[k].sales]) = SumFunction(part)
  BY <1>3
<1>7. IsFiniteSet(D)
  OBVIOUS
<1> HIDE DEF K, f, part, weekly, D
<1>8. SumsOfGroups(part, f, D, key, K)
  BY <1>4 DEF SumsOfGroups
<1>9. SumFunctionOnSet(part, K) = SumFunctionOnSet(f, D)
  BY <1>1, <1>2, <1>7, <1>8, SumOfParts
<1> QED  BY <1>5, <1>6, <1>9 DEF weekly, f, D

LEMMA FulfilmentsAddUp ==
  ASSUME ReportsTypeOK, NEW days
  PROVE  LET done == Completed(On(Sales, days)) IN
         /\ SumFunction([t \in SaleType |-> ByFulfilment(days)[t].revenue]) = Total(done)
         /\ SumFunction([t \in SaleType |-> ByFulfilment(days)[t].count]) = Cardinality(done)
<1> DEFINE done == Completed(On(Sales, days))
           revenue == [t \in SaleType |-> ByFulfilment(days)[t].revenue]
           count == [t \in SaleType |-> ByFulfilment(days)[t].count]
<1>1. done \in SUBSET Sales
  BY DEF On, Completed, Having
<1>2. \A t \in SaleType : /\ revenue[t] = Total({o \in done : TypeOf[o] = t})
                          /\ count[t] = Cardinality({o \in done : TypeOf[o] = t})
  <2> TAKE t \in SaleType
  <2>1. {o \in done : sale[o].type = t} = {o \in done : TypeOf[o] = t}
    BY <1>1 DEF TypeOf
  <2>2. /\ revenue[t] = Total({o \in done : sale[o].type = t})
        /\ count[t] = Cardinality({o \in done : sale[o].type = t})
    BY DEF ByFulfilment
  <2> QED  BY <2>1, <2>2
<1>3. \A o \in done : TypeOf[o] \in SaleType
  BY <1>1 DEF TypeOf, ReportsTypeOK
<1>4. /\ SumFunction(revenue) = SumFunctionOnSet(revenue, SaleType)
      /\ SumFunction(count) = SumFunctionOnSet(count, SaleType)
  BY DEF SumFunction
<1>5. \A t \in SaleType : revenue[t] = Total({o \in done : TypeOf[o] = t})
  BY <1>2
<1>6. \A t \in SaleType : count[t] = Cardinality({o \in done : TypeOf[o] = t})
  BY <1>2
<1>7. IsFiniteSet(SaleType)
  BY SaleTypes
<1> HIDE DEF revenue, count
<1>8. SumFunctionOnSet(revenue, SaleType) = Total(done)
  BY <1>1, <1>3, <1>5, <1>7, TotalByKey
<1>9. SumFunctionOnSet(count, SaleType) = Cardinality(done)
  BY <1>1, <1>3, <1>6, <1>7, CountByKey
<1> QED  BY <1>4, <1>8, <1>9 DEF revenue, count

\* Some orders are those of the customers, one after the other.
LEMMA CustomersAddUp ==
  ASSUME ReportsTypeOK, NEW os \in SUBSET Sales,
         NEW part, part = [u \in Buyers |-> Cardinality({o \in os : sale[o].user = u})]
  PROVE  SumFunction(part) = Cardinality(os)
<1>1. \A u \in Buyers : part[u] = Cardinality({o \in os : UserOf[o] = u})
  <2> TAKE u \in Buyers
  <2>1. {o \in os : sale[o].user = u} = {o \in os : UserOf[o] = u}
    BY DEF UserOf
  <2> QED  BY <2>1
<1>2. \A o \in os : UserOf[o] \in Buyers
  BY DEF UserOf, ReportsTypeOK
<1>3. SumFunction(part) = SumFunctionOnSet(part, Buyers)
  BY DEF SumFunction
<1>4. IsFiniteSet(Buyers)
  BY ReportAssumption
<1>5. PICK key, K : key = UserOf /\ K = Buyers
  OBVIOUS
<1>6. os \in SUBSET Sales /\ IsFiniteSet(K) /\ \A o \in os : key[o] \in K
  BY <1>2, <1>4, <1>5
<1>7. \A k \in K : part[k] = Cardinality({o \in os : key[o] = k})
  BY <1>1, <1>5
<1>8. SumFunctionOnSet(part, K) = Cardinality(os)
  BY ONLY <1>6, <1>7, CountByKey
<1> QED  BY <1>3, <1>5, <1>8

\* The thirty days of the shop are those of its customers.
LEMMA ThirtyDaysAddUp ==
  ASSUME ReportsTypeOK
  PROVE  CancellationRate((ThisDay - 29)..ThisDay)[2]
           = SumFunction([u \in Buyers |-> Charts(u).last30.orders])
<1>1. PICK os : os = On(Sales, (ThisDay - 29)..ThisDay)
  OBVIOUS
<1>2. os \in SUBSET Sales /\ CancellationRate((ThisDay - 29)..ThisDay)[2] = Cardinality(os)
  BY <1>1 DEF On, CancellationRate
<1>3. ASSUME NEW u \in Buyers
      PROVE  Charts(u).last30.orders = Cardinality({o \in os : sale[o].user = u})
  <2>1. Charts(u).last30.orders = Cardinality(On(Of(u), (ThisDay - 29)..ThisDay))
    BY DEF Charts, Window
  <2>2. On(Of(u), (ThisDay - 29)..ThisDay) = {o \in os : sale[o].user = u}
    BY <1>1 DEF On, Of
  <2> QED  BY <2>1, <2>2
<1>4. [u \in Buyers |-> Charts(u).last30.orders]
        = [u \in Buyers |-> Cardinality({o \in os : sale[o].user = u})]
  BY <1>3
<1> QED  BY <1>2, <1>4, CustomersAddUp

LEMMA ShopAgrees == ASSUME ReportsTypeOK PROVE ShopFiguresAgree
<1> SUFFICES ASSUME NEW days \in {(ThisDay - 6)..ThisDay, (ThisDay - 29)..ThisDay}
             PROVE  LET daily == DailySeries(days)
                        weekly == BucketSeries(daily, [d \in DOMAIN daily |-> IsoWeekKey(d)])
                        sales == Overview(days).sales
                        week == [d \in days |-> IsoWeekKey(d)] IN
                    /\ sales.total = SumFunction([d \in DOMAIN daily |-> daily[d].sales])
                    /\ sales.total = SumFunction([k \in DOMAIN weekly |-> weekly[k].sales])
                    /\ sales.total = SumFunction([t \in SaleType |-> ByFulfilment(days)[t].revenue])
                    /\ sales.count = SumFunction([t \in SaleType |-> ByFulfilment(days)[t].count])
                    /\ CancellationRate(days)[2] = SumFunction([d \in DOMAIN daily |-> daily[d].orders])
                    /\ Overview(days).totalOrders = SumFunction(Overview(days).byStatus)
                    /\ Overview(days).totalOrders = SumFunction([u \in Buyers |-> ListRow(u).orders])
                    /\ \A d, e \in days : week[d] = week[e] <=> d \div 7 = e \div 7
  BY ThirtyDaysAddUp DEF ShopFiguresAgree
<1> DEFINE daily == DailySeries(days)
           key == [d \in DOMAIN daily |-> IsoWeekKey(d)]
           done == Completed(On(Sales, days))
<1>1. /\ Overview(days).sales.total = Total(done) /\ Overview(days).sales.count = Cardinality(done)
      /\ Overview(days).totalOrders = Cardinality(Sales)
      /\ Overview(days).byStatus = [s \in SaleStatus |-> Cardinality(Having(Sales, {s}))]
  BY DEF Overview, CompletedSales
<1>2. CancellationRate(days)[2] = Cardinality(On(Sales, days))
  BY DEF CancellationRate
<1>3. /\ IsFiniteSet(DOMAIN daily) /\ \A d \in DOMAIN daily : daily[d].sales \in Int
      /\ SumFunction([d \in DOMAIN daily |-> daily[d].sales]) = Total(done)
      /\ SumFunction([d \in DOMAIN daily |-> daily[d].orders]) = Cardinality(On(Sales, days))
  BY DailyAddsUp
<1>4. LET weekly == BucketSeries(daily, key) IN
      SumFunction([k \in DOMAIN weekly |-> weekly[k].sales])
        = SumFunction([d \in DOMAIN daily |-> daily[d].sales])
  <2> HIDE DEF daily, key
  <2> QED  BY <1>3, BucketsAddUp
<1>5. /\ SumFunction([t \in SaleType |-> ByFulfilment(days)[t].revenue]) = Total(done)
      /\ SumFunction([t \in SaleType |-> ByFulfilment(days)[t].count]) = Cardinality(done)
  BY FulfilmentsAddUp
<1>6. SumFunction([s \in SaleStatus |-> Cardinality(Having(Sales, {s}))]) = Cardinality(Sales)
  BY OrdersByStatus
<1>7. SumFunction([u \in Buyers |-> ListRow(u).orders]) = Cardinality(Sales)
  <2>1. PICK part : part = [u \in Buyers |-> Cardinality({o \in Sales : sale[o].user = u})]
    OBVIOUS
  <2>2. [u \in Buyers |-> ListRow(u).orders] = part
    BY <2>1 DEF ListRow, Of
  <2>3. \A os : os = Sales => SumFunction(part) = Cardinality(os)
    <3> SUFFICES ASSUME NEW os, os = Sales PROVE SumFunction(part) = Cardinality(os)
      OBVIOUS
    <3>1. os \in SUBSET Sales /\ part = [u \in Buyers |-> Cardinality({o \in os : sale[o].user = u})]
      BY <2>1
    <3> QED  BY <3>1, CustomersAddUp
  <2> QED  BY <2>2, <2>3
<1>8. ASSUME NEW d \in days, NEW e \in days
      PROVE  [x \in days |-> IsoWeekKey(x)][d] = [x \in days |-> IsoWeekKey(x)][e] <=> d \div 7 = e \div 7
  <2>1. ThisDay \in Int
    BY ClockFacts
  <2>2. \A x \in days : x \in Int /\ x >= ThisDay - 29
    <3>1. CASE days = (ThisDay - 6)..ThisDay
      BY <2>1, <3>1
    <3>2. CASE days = (ThisDay - 29)..ThisDay
      BY <2>1, <3>2
    <3> QED  BY <3>1, <3>2
  <2>3. IsoWeekKey(d) = IsoWeekKey(e) <=> d \div 7 = e \div 7
    BY <2>2, WeekOfMonday
  <2> QED  BY <2>3
<1> HIDE DEF done
<1> QED  BY <1>1, <1>2, <1>3, <1>4, <1>5, <1>6, <1>7, <1>8

\* Whatever orders there are, the views that staff have of a customer and of the
\* shop tell the same numbers and the same money: each is worked out by a query
\* or a loop of its own, by status, by day, by week, by way of delivery, by code
\* or by customer, and every order falls into one group of each.
THEOREM FiguresAlwaysAdd == ReportsSpec => []FiguresAdd
<1>1. ReportsTypeOK => FiguresAdd
  BY CustomersAgree, ShopAgrees DEF FiguresAdd
<1>2. ReportsTypeOK /\ [ReportsTypeOK']_reportVars => ReportsTypeOK'
  BY DEF ReportsTypeOK, reportVars
<1> QED  BY <1>1, <1>2, PTL DEF ReportsSpec

-----------------------------------------------------------------------------
(* The scripts: products-excel.importer.ts, organize-subcategories.ts.      *)

Items == [Codes -> ItemRow \cup {Null}]
Importing ==
  [op : {"import"}, file : Seq(FileLine), at : Nat, step : {"product", "stock"},
   before : Items \cup {Null}]
Announcement == [group : Groups, moves : Nat]
Organizing ==
  [op : {"create", "move"}, group : Groups, at : Nat, todo : SUBSET (Codes \X Place), moved : Nat,
   known : SUBSET Place, foretold : Announcement \cup {Null}, before : Items \cup {Null}]

\* A product as the rows that are done have it.
SoFar(s, x) == AsRow(s.before[x], LastRow(s.file, s.at - 1, x))

\* What a dry run counts when it knows of these subcategories, and what is
\* out of place once there are all of them.
Announced(g, known) ==
  {x \in Scanned(item, g, SubsOf(g) \cap known) :
    IF Target(g, x[2]) \in known THEN item[x].at # Target(g, x[2]) ELSE item[x].at = <<g>>}
Foretells(f, g, known, moves) ==
  f # Null /\ f.group = g =>
    f.moves = moves \/ (~(SubsOf(g) \subseteq known) /\ moves > f.moves)
ToMove(s) ==
  {x \in Codes : \E p \in Place : <<x, p>> \in s.todo /\ p # Target(s.group, x[2])}

ImportOK(s) ==
  /\ s \in Importing /\ s.at >= 1 /\ s.at <= Len(s.file) + 1
  /\ s.step = "stock" => /\ s.at <= Len(s.file) /\ s.file[s.at].quantity # Null
                         /\ item[Sku(s.file[s.at])] # Null
  /\ s.before # Null => \A x \in Codes :
       IF s.step = "stock" /\ x = Sku(s.file[s.at])
       THEN /\ SoFar(s, x) # Null
            /\ item[x] = [AsRow(SoFar(s, x), s.file[s.at]) EXCEPT !.quantity = SoFar(s, x).quantity]
       ELSE item[x] = SoFar(s, x)

CreateOK(s) ==
  /\ s.todo = {} /\ s.moved = 0
  /\ \A n \in 1..(s.at - 1) : n \in DOMAIN Plans[s.group] => <<s.group, Plans[s.group][n].key>> \in subs
  /\ s.before # Null =>
       /\ item = s.before
       /\ \A x \in Codes : item[x] # Null =>
            item[x].at \in {<<g>> : g \in Groups} \cup s.known \cup (Groups \X Own)
       /\ s.foretold # Null /\ s.foretold.group = s.group
            => s.foretold.moves = Cardinality(Announced(s.group, s.known))

MoveOK(s) ==
  /\ SubsOf(s.group) \subseteq subs
  /\ \A t \in s.todo : item[t[1]] \in ItemRow
  /\ s.before # Null =>
       /\ \A t \in s.todo : /\ item[t[1]] # Null /\ ~item[t[1]].deleted
                            /\ item[t[1]].at = t[2] /\ item[t[1]] = s.before[t[1]]
                            /\ t[2] \in {<<s.group>>} \cup SubsOf(s.group)
       /\ \A x \in Codes :
            \/ item[x] = AsPlanned(s.before, s.group, x)
            \/ (item[x] = s.before[x] /\ <<x, item[x].at>> \in s.todo)
       /\ Foretells(s.foretold, s.group, s.known, s.moved + Cardinality(ToMove(s)))

OrganizeOK(s) ==
  /\ s \in Organizing /\ s.at >= 1
  /\ s.op = "create" => CreateOK(s)
  /\ s.op = "move" => MoveOK(s)

ScriptTypeOK ==
  /\ item \in Items
  /\ mains \subseteq Groups /\ subs \subseteq UNION {SubsOf(g) : g \in Groups}
  /\ \A x \in Codes : item[x] # Null =>
       item[x].at \in {<<g>> : g \in Groups} \cup subs \cup (Groups \X Own)

\* What is left of a script that has ended.
Settled == ScriptsConverge /\ DryRunTells

ScriptInv ==
  /\ ScriptTypeOK
  /\ script # Null => /\ settled = Null /\ foretold = Null
                      /\ ImportOK(script) \/ OrganizeOK(script)
  /\ foretold # Null => /\ foretold \in Announcement
                        /\ foretold.moves = Cardinality(Announced(foretold.group, subs))
  /\ Settled

-----------------------------------------------------------------------------
(* Places and targets.                                                      *)
LEMMA PlaceFacts ==
  /\ \A g \in Groups : <<g>> \in Place /\ SubsOf(g) \subseteq Place
  /\ \A g, h : \A p \in SubsOf(g) : Head(p) = g /\ p # <<h>>
  /\ \A g \in Groups : Head(<<g>>) = g
  /\ \A p \in Groups \X Own : \A g \in Groups : p # <<g>> /\ p \notin SubsOf(g)
<1>1. \A g \in Groups : <<g>> \in Place /\ SubsOf(g) \subseteq Place
  BY DEF Place
<1>2. \A a, b, c : <<a, b>> # <<c>>
  <2> SUFFICES ASSUME NEW a, NEW b, NEW c PROVE <<a, b>> # <<c>>
    OBVIOUS
  <2>1. Len(<<a, b>>) = 2 /\ Len(<<c>>) = 1
    OBVIOUS
  <2> QED  BY <2>1
<1>3. ASSUME NEW g, NEW h, NEW p \in SubsOf(g) PROVE Head(p) = g /\ p # <<h>>
  <2>1. PICK key : p = <<g, key>>
    BY DEF SubsOf
  <2> QED  BY <1>2, <2>1
<1>4. ASSUME NEW p \in Groups \X Own, NEW g \in Groups PROVE p # <<g>> /\ p \notin SubsOf(g)
  <2>1. PICK h \in Groups, key \in Own : p = <<h, key>>
    OBVIOUS
  <2>2. ASSUME p \in SubsOf(g) PROVE FALSE
    <3>1. PICK n \in DOMAIN Plans[g] : p = <<g, Plans[g][n].key>>
      BY <2>2 DEF SubsOf
    <3>2. Plans[g][n].key = key
      BY <2>1, <3>1
    <3> QED  BY <3>2, ScriptAssumption
  <2> QED  BY <1>2, <2>1, <2>2
<1>5. \A g \in Groups : Head(<<g>>) = g
  OBVIOUS
<1> QED  BY <1>1, <1>3, <1>4, <1>5

\* Every product has its place under the category.
LEMMA TargetIsSub ==
  ASSUME NEW g \in Groups, NEW name
  PROVE  Target(g, name) \in SubsOf(g)
<1> DEFINE rules == Plans[g]
           hits == {n \in DOMAIN rules : name \in rules[n].words \/ rules[n].fallback}
<1>1. hits \in SUBSET Nat /\ hits # {}
  BY ScriptAssumption
<1>2. \E n \in hits : \A k \in hits : n <= k
  <2> HIDE DEF hits
  <2> QED  BY <1>1, SmallestOf
<1>3. (CHOOSE n \in hits : \A k \in hits : n <= k) \in DOMAIN rules
  BY <1>2
<1> QED  BY <1>3 DEF Target, MatchRule, SubsOf

LEMMA CodeFacts ==
  /\ IsFiniteSet(Codes)
  /\ \A x \in Codes : x = <<x[1], x[2]>> /\ x[1] \in Groups /\ x[2] \in Names
BY FS_Product, ScriptAssumption DEF Codes

LEMMA FiniteCodes ==
  ASSUME NEW S \in SUBSET Codes
  PROVE  IsFiniteSet(S) /\ Cardinality(S) \in Nat
BY CodeFacts, FS_Subset, FS_CardinalityType

-----------------------------------------------------------------------------
(* The importer.                                                            *)
LEMMA LastRowNone == ASSUME NEW file, NEW x PROVE LastRow(file, 0, x) = Null
<1>1. {k \in 1..0 : Sku(file[k]) = x /\ file[k].quantity # Null} = {}
  OBVIOUS
<1> QED  BY <1>1 DEF LastRow

\* The last of n rows of a code is the nth or the last of those before it.
LEMMA LastRowNext ==
  ASSUME NEW file, NEW n \in Nat, n >= 1, NEW x
  PROVE  LastRow(file, n, x) = IF Sku(file[n]) = x /\ file[n].quantity # Null THEN file[n]
                               ELSE LastRow(file, n - 1, x)
<1> DEFINE ks(m) == {k \in 1..m : Sku(file[k]) = x /\ file[k].quantity # Null}
<1>1. \A k : k \in 1..n <=> k \in 1..(n - 1) \/ k = n
  OBVIOUS
<1>2. CASE Sku(file[n]) = x /\ file[n].quantity # Null
  <2>1. n \in ks(n) /\ \A k \in ks(n) : k <= n /\ k \in Nat
    BY <1>1, <1>2
  <2>2. PICK last : last = CHOOSE k \in ks(n) : \A j \in ks(n) : j <= k
    OBVIOUS
  <2>3. last \in ks(n) /\ \A j \in ks(n) : j <= last
    <3> HIDE DEF ks
    <3> QED  BY <2>1, <2>2
  <2> HIDE DEF ks
  <2>4. last = n
    BY <2>1, <2>3
  <2> QED  BY <1>2, <2>1, <2>2, <2>4 DEF LastRow, ks
<1>3. CASE ~(Sku(file[n]) = x /\ file[n].quantity # Null)
  <2>1. PICK A, B : A = ks(n) /\ B = ks(n - 1)
    OBVIOUS
  <2>2. A = B
    BY <1>1, <1>3, <2>1
  <2>3. LastRow(file, n, x) = IF A = {} THEN Null ELSE file[CHOOSE k \in A : \A j \in A : j <= k]
    BY <2>1 DEF LastRow
  <2>4. LastRow(file, n - 1, x) = IF B = {} THEN Null ELSE file[CHOOSE k \in B : \A j \in B : j <= k]
    BY <2>1 DEF LastRow
  <2> QED  BY <1>3, <2>2, <2>3, <2>4
<1> QED  BY <1>2, <1>3

\* The last of some rows is one of them.
LEMMA LastRowIsRow ==
  ASSUME NEW file \in Seq(FileLine), NEW n \in 0..Len(file), NEW x
  PROVE  \/ LastRow(file, n, x) = Null
         \/ /\ LastRow(file, n, x) \in FileLine /\ LastRow(file, n, x).quantity # Null
<1> DEFINE ks == {k \in 1..n : Sku(file[k]) = x /\ file[k].quantity # Null}
<1>1. ks \in SUBSET (1..n) /\ n \in Nat
  OBVIOUS
<1>2. ASSUME ks # {} PROVE \E k \in ks : \A j \in ks : j <= k
  <2> HIDE DEF ks
  <2> QED  BY <1>1, <1>2, LargestOf
<1>3. PICK last : last = CHOOSE k \in ks : \A j \in ks : j <= k
  OBVIOUS
<1>4. ks # {} => last \in ks
  <2> HIDE DEF ks
  <2> QED  BY <1>2, <1>3
<1>5. LastRow(file, n, x) = IF ks = {} THEN Null ELSE file[last]
  BY <1>3 DEF LastRow
<1>6. ks # {} => file[last] \in FileLine /\ file[last].quantity # Null
  BY <1>4
<1> QED  BY <1>5, <1>6

\* A row makes a product of whatever was there, and the last row counts.
LEMMA AsRowIs ==
  ASSUME NEW old \in ItemRow \cup {Null}, NEW row \in FileLine, row.quantity # Null, row # Null
  PROVE  AsRow(old, row) \in ItemRow
<1>1. row.group \in Groups /\ row.quantity \in Nat /\ <<row.group>> \in Place
  BY PlaceFacts DEF FileLine
<1>2. old # Null => old.reserved \in Nat
  BY DEF ItemRow
<1> QED  BY <1>1, <1>2 DEF AsRow, ItemRow

LEMMA AsRowTwice ==
  ASSUME NEW old \in ItemRow \cup {Null}, NEW first \in FileLine \cup {Null},
         first # Null => first.quantity # Null, NEW row, row # Null
  PROVE  /\ AsRow(AsRow(old, first), row) = AsRow(old, row)
         /\ AsRow(old, first) \in ItemRow \cup {Null}
<1>1. CASE first = Null
  BY <1>1 DEF AsRow
<1>2. CASE first # Null
  <2>1. PICK new : new = AsRow(old, first)
    OBVIOUS
  <2>2. new \in ItemRow /\ new # Null
    BY <1>2, <2>1, AsRowIs, ItemAssumption
  <2>3. new.reserved = IF old = Null THEN 0 ELSE old.reserved
    BY <1>2, <2>1 DEF AsRow
  <2>4. AsRow(new, row) = AsRow(old, row)
    BY <2>2, <2>3 DEF AsRow
  <2> QED  BY <2>1, <2>2, <2>4
<1> QED  BY <1>1, <1>2

\* What an import at a row reads, and what it finds once the row is done.
LEMMA AtRowFacts ==
  ASSUME ScriptInv, script # Null, script.op = "import", NEW s, s = script, s.at <= Len(s.file),
         NEW row, row = s.file[s.at], NEW x, x = Sku(row)
  PROVE  /\ ImportOK(s) /\ settled = Null /\ foretold = Null /\ s \in Importing
         /\ s.at \in 1..Len(s.file) /\ row \in FileLine /\ x \in Codes /\ row.group \in Groups
         /\ \A y : \A q : q.before = s.before /\ q.file = s.file /\ q.at = s.at + 1
              => SoFar(q, y) = IF y = x /\ row.quantity # Null THEN AsRow(s.before[y], row) ELSE SoFar(s, y)
         /\ s.before # Null /\ row # Null => \A y \in Codes :
              /\ SoFar(s, y) \in ItemRow \cup {Null}
              /\ AsRow(SoFar(s, y), row) = AsRow(s.before[y], row)
<1>1. ImportOK(s) /\ settled = Null /\ foretold = Null
  BY DEF ScriptInv, OrganizeOK, Organizing
<1>2. s \in Importing /\ s.at >= 1 /\ s.at \in Nat /\ s.file \in Seq(FileLine) /\ Len(s.file) \in Nat
  BY <1>1 DEF ImportOK, Importing
<1>3. s.at \in 1..Len(s.file)
  BY <1>2
<1>4. row \in FileLine
  BY <1>2, <1>3
<1>5. x \in Codes /\ row.group \in Groups
  BY <1>4 DEF FileLine, Sku, Codes
<1>6. ASSUME NEW y, NEW q, q.before = s.before, q.file = s.file, q.at = s.at + 1
      PROVE  SoFar(q, y) = IF y = x /\ row.quantity # Null THEN AsRow(s.before[y], row) ELSE SoFar(s, y)
  <2>1. q.at - 1 = s.at
    BY <1>2, <1>6
  <2>2. LastRow(s.file, s.at, y) = IF Sku(s.file[s.at]) = y /\ s.file[s.at].quantity # Null
                                   THEN s.file[s.at] ELSE LastRow(s.file, s.at - 1, y)
    BY <1>2, LastRowNext
  <2> QED  BY <1>6, <2>1, <2>2 DEF SoFar
<1>7. ASSUME s.before # Null, row # Null, NEW y \in Codes
      PROVE  /\ SoFar(s, y) \in ItemRow \cup {Null}
             /\ AsRow(SoFar(s, y), row) = AsRow(s.before[y], row)
  <2>1. PICK n, first : n = s.at - 1 /\ first = LastRow(s.file, n, y)
    OBVIOUS
  <2>2. n \in 0..Len(s.file)
    BY <1>3, <2>1
  <2>3. first \in FileLine \cup {Null} /\ (first # Null => first.quantity # Null)
    BY <1>2, <2>1, <2>2, LastRowIsRow
  <2>4. s.before[y] \in ItemRow \cup {Null}
    BY <1>2, <1>7 DEF Importing, Items
  <2>5. PICK old : old = s.before[y]
    OBVIOUS
  <2>6. SoFar(s, y) = AsRow(old, first)
    BY <2>1, <2>5 DEF SoFar
  <2>7. AsRow(AsRow(old, first), row) = AsRow(old, row) /\ AsRow(old, first) \in ItemRow \cup {Null}
    BY <1>7, <2>3, <2>4, <2>5, AsRowTwice
  <2> QED  BY <2>5, <2>6, <2>7
<1> QED  BY <1>1, <1>2, <1>3, <1>4, <1>5, <1>6, <1>7

\* A step of an import that stays at work.
LEMMA ImportGoesOn ==
  ASSUME ScriptInv, script # Null, script.op = "import", NEW q, ImportOK(q)', script' = q,
         UNCHANGED <<foretold, settled>>, ScriptTypeOK'
  PROVE  ScriptInv'
<1>1. settled' = Null /\ foretold' = Null
  BY DEF ScriptInv
<1> QED  BY <1>1 DEF ScriptInv, Settled, ScriptsConverge, DryRunTells

LEMMA StartImportKeeps ==
  ASSUME ScriptInv, NEW file \in Seq(FileLine), StartImport(file) PROVE ScriptInv'
<1>1. PICK s : s = [op |-> "import", file |-> file, at |-> 1, step |-> "product", before |-> item]
  OBVIOUS
<1>2. script' = s /\ settled' = Null /\ foretold' = Null /\ UNCHANGED <<mains, subs, item>>
  BY <1>1 DEF StartImport, Run
<1>3. /\ s \in Importing /\ s.at = 1 /\ s.file = file /\ s.step = "product" /\ s.before = item
      /\ s.at - 1 = 0
  BY <1>1 DEF Importing, ScriptInv, ScriptTypeOK
<1>4. \A x : SoFar(s, x) = item[x]
  BY <1>3, LastRowNone DEF SoFar, AsRow
<1>5. ImportOK(s)
  <2>1. s.at >= 1 /\ s.at <= Len(s.file) + 1
    BY <1>3
  <2> QED  BY <1>3, <1>4, <2>1 DEF ImportOK
<1>6. ImportOK(s)'
  BY <1>2, <1>5 DEF ImportOK, SoFar
<1>7. ScriptTypeOK'
  BY <1>2 DEF ScriptInv, ScriptTypeOK
<1>8. Settled'
  BY <1>2 DEF Settled, ScriptsConverge, DryRunTells
<1> QED  BY <1>2, <1>6, <1>7, <1>8 DEF ScriptInv

LEMMA SkipRowKeeps == ASSUME ScriptInv, SkipRow PROVE ScriptInv'
<1>1. PICK s, row, x : s = script /\ row = s.file[s.at] /\ x = Sku(row)
  OBVIOUS
<1>2. PICK q : q = [s EXCEPT !.at = s.at + 1, !.step = "product"]
  OBVIOUS
<1>3. /\ script # Null /\ script.op = "import" /\ s.at <= Len(s.file) /\ row.quantity = Null
      /\ script' = q /\ UNCHANGED <<mains, subs, item, foretold, settled>>
  BY <1>1, <1>2 DEF SkipRow, ThisRow, NextRow, Run
<1>4. /\ ImportOK(s) /\ s \in Importing /\ s.at \in 1..Len(s.file)
      /\ \A y : \A t : t.before = s.before /\ t.file = s.file /\ t.at = s.at + 1
           => SoFar(t, y) = IF y = x /\ row.quantity # Null THEN AsRow(s.before[y], row) ELSE SoFar(s, y)
  BY <1>1, <1>3, AtRowFacts
<1>5. /\ q \in Importing /\ q.at = s.at + 1 /\ q.file = s.file /\ q.before = s.before
      /\ q.step = "product" /\ s.step \in {"product", "stock"} /\ s.at \in Nat
  <2>1. s.at \in Nat /\ s.at + 1 \in Nat /\ s.step \in {"product", "stock"}
    BY <1>4 DEF Importing
  <2> QED  BY <1>2, <1>4, <2>1 DEF Importing
<1>6. s.step = "product"
  BY <1>1, <1>3, <1>4, <1>5 DEF ImportOK
<1>7. ImportOK(q)'
  <2>1. q.at >= 1 /\ q.at <= Len(q.file) + 1
    BY <1>4, <1>5
  <2>2. ASSUME q.before # Null, NEW y \in Codes PROVE item[y] = SoFar(q, y)
    <3>1. item[y] = SoFar(s, y)
      BY <1>4, <1>5, <1>6, <2>2 DEF ImportOK
    <3> QED  BY <1>3, <1>4, <1>5, <3>1
  <2> QED  BY <1>3, <1>5, <2>1, <2>2 DEF ImportOK, SoFar
<1>8. ScriptTypeOK'
  BY <1>3 DEF ScriptInv, ScriptTypeOK
<1> QED  BY <1>3, <1>7, <1>8, ImportGoesOn

LEMMA CreateMainKeeps == ASSUME ScriptInv, CreateMain PROVE ScriptInv'
<1>1. PICK s, row, x : s = script /\ row = s.file[s.at] /\ x = Sku(row)
  OBVIOUS
<1>2. /\ script # Null /\ script.op = "import" /\ s.at <= Len(s.file)
      /\ mains' = mains \cup {row.group} /\ script' = s
      /\ UNCHANGED <<subs, item, foretold, settled>>
  BY <1>1 DEF CreateMain, AtRow, ThisRow
<1>3. ImportOK(s) /\ row.group \in Groups
  BY <1>1, <1>2, AtRowFacts
<1>4. ImportOK(s)'
  BY <1>2, <1>3 DEF ImportOK, SoFar
<1>5. ScriptTypeOK'
  BY <1>2, <1>3 DEF ScriptInv, ScriptTypeOK
<1> QED  BY <1>2, <1>4, <1>5, ImportGoesOn

\* A row whose product is written, and is as the row has it.
LEMMA RowDone ==
  ASSUME ScriptInv, script # Null, script.op = "import", NEW s, s = script, s.at <= Len(s.file),
         NEW row, row = s.file[s.at], NEW x, x = Sku(row), row.quantity # Null,
         NEW new \in ItemRow, item' = [item EXCEPT ![x] = new],
         new.at \in {<<g>> : g \in Groups} \cup subs \cup (Groups \X Own),
         s.before # Null => new = AsRow(s.before[x], row),
         NEW q \in Importing, q.at = s.at + 1, q.file = s.file, q.before = s.before,
         q.step = "product", script' = q,
         UNCHANGED <<mains, subs, foretold, settled>>
  PROVE  ScriptInv'
<1>1. /\ ImportOK(s) /\ s \in Importing /\ s.at \in 1..Len(s.file) /\ x \in Codes /\ row.group \in Groups
      /\ \A y : \A t : t.before = s.before /\ t.file = s.file /\ t.at = s.at + 1
           => SoFar(t, y) = IF y = x /\ row.quantity # Null THEN AsRow(s.before[y], row) ELSE SoFar(s, y)
  BY AtRowFacts
<1>2. \A y \in Codes : item'[y] = IF y = x THEN new ELSE item[y]
  BY DEF ScriptInv, ScriptTypeOK, Items
<1>3. ImportOK(q)'
  <2>1. q.at >= 1 /\ q.at <= Len(q.file) + 1
    BY <1>1
  <2>2. ASSUME q.before # Null, NEW y \in Codes PROVE item'[y] = SoFar(q, y)
    <3>1. SoFar(q, y) = IF y = x THEN AsRow(s.before[y], row) ELSE SoFar(s, y)
      BY <1>1
    <3>2. y # x => item[y] = SoFar(s, y)
      BY <1>1, <2>2 DEF ImportOK
    <3> QED  BY <1>2, <2>2, <3>1, <3>2
  <2> QED  BY <2>1, <2>2 DEF ImportOK, SoFar
<1>4. ScriptTypeOK'
  <2>1. item' \in Items
    BY <1>1 DEF ScriptInv, ScriptTypeOK, Items
  <2> QED  BY <1>1, <1>2, <2>1 DEF ScriptInv, ScriptTypeOK
<1> QED  BY <1>3, <1>4, ImportGoesOn

LEMMA CreateProductKeeps == ASSUME ScriptInv, CreateProduct PROVE ScriptInv'
<1>1. PICK s, row, x : s = script /\ row = s.file[s.at] /\ x = Sku(row)
  OBVIOUS
<1>2. PICK new : new = Created(row)
  OBVIOUS
<1>3. /\ script # Null /\ script.op = "import" /\ s.at <= Len(s.file) /\ row.quantity # Null
      /\ s.step = "product" /\ item[x] = Null /\ item' = [item EXCEPT ![x] = new]
      /\ script' = [s EXCEPT !.at = s.at + 1, !.step = "product"]
      /\ UNCHANGED <<mains, subs, foretold, settled>>
  BY <1>1, <1>2 DEF CreateProduct, AtRow, ThisRow, NextRow, Run
<1>4. /\ ImportOK(s) /\ s \in Importing /\ row \in FileLine /\ x \in Codes
      /\ s.before # Null /\ row # Null => \A y \in Codes :
           /\ SoFar(s, y) \in ItemRow \cup {Null}
           /\ AsRow(SoFar(s, y), row) = AsRow(s.before[y], row)
  BY <1>1, <1>3, AtRowFacts
<1>5. new \in ItemRow /\ new.at \in {<<g>> : g \in Groups}
  BY <1>2, <1>3, <1>4, PlaceFacts DEF Created, ItemRow, FileLine
<1>6. ASSUME s.before # Null PROVE new = AsRow(s.before[x], row)
  <2>1. CASE row # Null
    <3>1. SoFar(s, x) = Null
      BY <1>3, <1>4, <1>6 DEF ImportOK
    <3>2. AsRow(Null, row) = new
      BY <1>2, <2>1 DEF AsRow, Created
    <3> QED  BY <1>4, <1>6, <2>1, <3>1, <3>2
  <2>2. row # Null
    BY <1>4, ItemAssumption
  <2> QED  BY <2>1, <2>2
<1>7. new.at \in {<<g>> : g \in Groups} \cup subs \cup (Groups \X Own)
  BY <1>5
<1>8. s = script /\ row = s.file[s.at] /\ x = Sku(row) /\ s.at <= Len(s.file)
  BY <1>1, <1>3
<1>9. script # Null /\ script.op = "import" /\ row.quantity # Null /\ new \in ItemRow
  BY <1>3, <1>5
<1>10. item' = [item EXCEPT ![x] = new]
  BY <1>3
<1>11. PICK q : q = [s EXCEPT !.at = s.at + 1, !.step = "product"]
  OBVIOUS
<1>12. /\ q \in Importing /\ q.at = s.at + 1 /\ q.file = s.file /\ q.before = s.before
       /\ q.step = "product"
  <2>1. s.at + 1 \in Nat
    BY <1>4 DEF Importing
  <2> QED  BY <1>4, <1>11, <2>1 DEF Importing
<1>13. script' = q /\ UNCHANGED <<mains, subs, foretold, settled>>
  BY <1>3, <1>11
<1>14. s.before # Null => new = AsRow(s.before[x], row)
  BY <1>6
<1> QED  BY <1>7, <1>8, <1>9, <1>10, <1>12, <1>13, <1>14, RowDone

LEMMA UpdateProductKeeps == ASSUME ScriptInv, UpdateProduct PROVE ScriptInv'
<1>1. PICK s, row, x : s = script /\ row = s.file[s.at] /\ x = Sku(row)
  OBVIOUS
<1>2. PICK old, new : old = item[x] /\ new = Updated(old, row)
  OBVIOUS
<1>3. PICK q : q = [s EXCEPT !.step = "stock"]
  OBVIOUS
<1>4. /\ script # Null /\ script.op = "import" /\ s.at <= Len(s.file) /\ row.quantity # Null
      /\ s.step = "product" /\ old # Null /\ item' = [item EXCEPT ![x] = new]
      /\ script' = q /\ UNCHANGED <<mains, subs, foretold, settled>>
  BY <1>1, <1>2, <1>3 DEF UpdateProduct, AtRow, ThisRow, Run
<1>5. /\ ImportOK(s) /\ s \in Importing /\ row \in FileLine /\ x \in Codes
      /\ s.at \in 1..Len(s.file) /\ row.group \in Groups /\ row # Null
  BY <1>1, <1>4, AtRowFacts, ItemAssumption
<1>6. old \in ItemRow
  BY <1>2, <1>4, <1>5 DEF ScriptInv, ScriptTypeOK, Items
<1>7. /\ new \in ItemRow /\ new.at = <<row.group>>
      /\ new = [AsRow(old, row) EXCEPT !.quantity = old.quantity]
  <2>1. <<row.group>> \in Place /\ row.quantity \in Nat
    BY <1>4, <1>5, PlaceFacts DEF FileLine
  <2>2. PICK to, on, n : to = <<row.group>> /\ on = (row.quantity > 0) /\ n = row.quantity
    OBVIOUS
  <2>3. on \in BOOLEAN /\ to \in Place
    BY <2>1, <2>2
  <2>4. new = [old EXCEPT !.at = to, !.active = on, !.deleted = FALSE]
    BY <1>2, <2>2 DEF Updated
  <2>5. new = [at |-> to, quantity |-> old.quantity, active |-> on, deleted |-> FALSE, reserved |-> old.reserved]
    BY <1>6, <2>4 DEF ItemRow
  <2>6. old.quantity \in Nat /\ old.reserved \in Nat
    BY <1>6 DEF ItemRow
  <2>7. new \in ItemRow /\ new.at = to
    BY <2>3, <2>5, <2>6 DEF ItemRow
  <2>8. PICK done : done = AsRow(old, row)
    OBVIOUS
  <2>9. done = [at |-> to, quantity |-> n, active |-> on, deleted |-> FALSE, reserved |-> old.reserved]
    BY <1>4, <1>5, <2>2, <2>8 DEF AsRow
  <2>10. PICK m, c : m = old.quantity /\ c = old.reserved
    OBVIOUS
  <2>11. /\ done = [at |-> to, quantity |-> n, active |-> on, deleted |-> FALSE, reserved |-> c]
         /\ new = [at |-> to, quantity |-> m, active |-> on, deleted |-> FALSE, reserved |-> c]
    BY <2>5, <2>9, <2>10
  <2>12. done \in ItemRow /\ n \in Nat /\ m \in Nat /\ c \in Nat
    BY <2>1, <2>2, <2>3, <2>6, <2>10, <2>11 DEF ItemRow
  <2>13. PICK set : set = [done EXCEPT !.quantity = m]
    OBVIOUS
  <2>14. set = new
    <3>1. set = [at |-> done.at, quantity |-> m, active |-> done.active, deleted |-> done.deleted,
                 reserved |-> done.reserved]
      BY ONLY <2>12, <2>13 DEF ItemRow
    <3> QED  BY <2>11, <3>1
  <2> QED  BY <2>2, <2>7, <2>8, <2>10, <2>13, <2>14
<1>8. /\ q \in Importing /\ q.at = s.at /\ q.file = s.file /\ q.before = s.before /\ q.step = "stock"
  BY <1>3, <1>5 DEF Importing
<1>9. \A y \in Codes : item'[y] = IF y = x THEN new ELSE item[y]
  BY <1>4 DEF ScriptInv, ScriptTypeOK, Items
<1>10. \A y : SoFar(q, y) = SoFar(s, y)
  BY <1>8 DEF SoFar
<1>11. ImportOK(q)'
  <2>1. /\ q.at >= 1 /\ q.at <= Len(q.file) + 1 /\ q.at <= Len(q.file)
        /\ q.file[q.at].quantity # Null /\ x = Sku(q.file[q.at]) /\ row = q.file[q.at]
    BY <1>1, <1>4, <1>5, <1>8
  <2>2. item'[x] # Null
    BY <1>5, <1>7, <1>9, ItemAssumption
  <2>3. ASSUME q.before # Null, NEW y \in Codes
        PROVE  IF y = x
               THEN /\ SoFar(q, y) # Null
                    /\ item'[y] = [AsRow(SoFar(q, y), row) EXCEPT !.quantity = SoFar(q, y).quantity]
               ELSE item'[y] = SoFar(q, y)
    <3>1. item[y] = SoFar(s, y)
      BY <1>4, <1>5, <1>8, <2>3 DEF ImportOK
    <3> QED  BY <1>2, <1>4, <1>7, <1>9, <1>10, <3>1
  <2> QED  BY <1>8, <2>1, <2>2, <2>3 DEF ImportOK, SoFar
<1>12. ScriptTypeOK'
  <2>1. item' \in Items
    BY <1>4, <1>7 DEF ScriptInv, ScriptTypeOK, Items
  <2>2. new.at \in {<<g>> : g \in Groups}
    BY <1>5, <1>7
  <2> QED  BY <1>4, <1>9, <2>1, <2>2 DEF ScriptInv, ScriptTypeOK
<1> QED  BY <1>4, <1>11, <1>12, ImportGoesOn

LEMMA UpdateStockKeeps == ASSUME ScriptInv, UpdateStock PROVE ScriptInv'
<1>1. PICK s, row, x : s = script /\ row = s.file[s.at] /\ x = Sku(row)
  OBVIOUS
<1>2. PICK old, new : old = item[x] /\ new = [old EXCEPT !.quantity = row.quantity]
  OBVIOUS
<1>3. /\ script # Null /\ script.op = "import" /\ s.at <= Len(s.file) /\ row.quantity # Null
      /\ s.step = "stock" /\ item' = [item EXCEPT ![x] = new]
      /\ script' = [s EXCEPT !.at = s.at + 1, !.step = "product"]
      /\ UNCHANGED <<mains, subs, foretold, settled>>
  BY <1>1, <1>2 DEF UpdateStock, AtRow, ThisRow, NextRow, Run
<1>4. /\ ImportOK(s) /\ s \in Importing /\ row \in FileLine /\ x \in Codes /\ row # Null
      /\ s.before # Null => \A y \in Codes :
           /\ SoFar(s, y) \in ItemRow \cup {Null}
           /\ AsRow(SoFar(s, y), row) = AsRow(s.before[y], row)
  BY <1>1, <1>3, AtRowFacts, ItemAssumption
<1>5. old \in ItemRow
  BY <1>1, <1>2, <1>3, <1>4 DEF ImportOK, ScriptInv, ScriptTypeOK, Items
<1>6. new \in ItemRow /\ new.at \in {<<g>> : g \in Groups} \cup subs \cup (Groups \X Own)
  <2>1. new \in ItemRow /\ new.at = old.at
    BY <1>2, <1>3, <1>4, <1>5 DEF ItemRow, FileLine
  <2>2. old.at \in {<<g>> : g \in Groups} \cup subs \cup (Groups \X Own)
    BY <1>1, <1>2, <1>3, <1>4 DEF ImportOK, ScriptInv, ScriptTypeOK
  <2> QED  BY <2>1, <2>2
<1>7. ASSUME s.before # Null PROVE new = AsRow(s.before[x], row)
  <2>1. PICK mid, half : mid = SoFar(s, x) /\ half = AsRow(mid, row)
    OBVIOUS
  <2>2. mid # Null /\ old = [half EXCEPT !.quantity = mid.quantity] /\ half = AsRow(s.before[x], row)
    BY <1>1, <1>2, <1>3, <1>4, <1>7, <2>1 DEF ImportOK
  <2>3. half = [at |-> <<row.group>>, quantity |-> row.quantity, active |-> row.quantity > 0,
                deleted |-> FALSE, reserved |-> mid.reserved]
    BY <1>4, <2>1, <2>2 DEF AsRow
  <2>4. PICK n, m : n = row.quantity /\ m = mid.quantity
    OBVIOUS
  <2>5. new = [[half EXCEPT !.quantity = m] EXCEPT !.quantity = n] /\ half.quantity = n
    BY <1>2, <2>2, <2>3, <2>4
  <2>6. PICK a, b, c : a = half.at /\ b = half.active /\ c = half.reserved
    OBVIOUS
  <2>7. half = [at |-> a, quantity |-> n, active |-> b, deleted |-> FALSE, reserved |-> c]
    BY <2>3, <2>4, <2>6
  <2>8. new = half
    BY ONLY <2>5, <2>7
  <2> QED  BY <2>2, <2>8
<1>8. s = script /\ row = s.file[s.at] /\ x = Sku(row) /\ s.at <= Len(s.file)
  BY <1>1, <1>3
<1>9. script # Null /\ script.op = "import" /\ row.quantity # Null /\ new \in ItemRow
  BY <1>3, <1>6
<1>10. new.at \in {<<g>> : g \in Groups} \cup subs \cup (Groups \X Own)
  BY <1>6
<1>11. item' = [item EXCEPT ![x] = new]
  BY <1>3
<1>12. PICK q : q = [s EXCEPT !.at = s.at + 1, !.step = "product"]
  OBVIOUS
<1>13. /\ q \in Importing /\ q.at = s.at + 1 /\ q.file = s.file /\ q.before = s.before
       /\ q.step = "product"
  <2>1. s.at + 1 \in Nat
    BY <1>4 DEF Importing
  <2> QED  BY <1>4, <1>12, <2>1 DEF Importing
<1>14. script' = q /\ UNCHANGED <<mains, subs, foretold, settled>>
  BY <1>3, <1>12
<1>15. s.before # Null => new = AsRow(s.before[x], row)
  BY <1>7
<1> QED  BY <1>8, <1>9, <1>10, <1>11, <1>13, <1>14, <1>15, RowDone

LEMMA EndImportKeeps ==
  ASSUME ScriptInv, EndImport PROVE ScriptInv'
<1>1. PICK s : s = script
  OBVIOUS
<1>2. PICK done : done = [by |-> "import", file |-> s.file, before |-> s.before]
  OBVIOUS
<1>3. /\ s # Null /\ s.op = "import" /\ s.at > Len(s.file)
      /\ settled' = (IF s.before # Null THEN done ELSE Null)
      /\ script' = Null /\ UNCHANGED <<mains, subs, item, foretold>>
  BY <1>1, <1>2 DEF EndImport, Run, Settle
<1>4. ImportOK(s) /\ settled = Null /\ foretold = Null
  BY <1>1, <1>3 DEF ScriptInv, OrganizeOK, Organizing
<1>5. /\ s.file \in Seq(FileLine) /\ Len(s.file) \in Nat /\ s.at - 1 = Len(s.file)
      /\ s.step # "stock"
  BY <1>3, <1>4 DEF ImportOK, Importing
<1>6. ScriptTypeOK'
  BY <1>3 DEF ScriptInv, ScriptTypeOK
<1>7. ASSUME s.before # Null, NEW x \in Codes
      PROVE  item[x] = AsRow(s.before[x], LastRow(s.file, Len(s.file), x))
  BY <1>4, <1>5, <1>7 DEF ImportOK, SoFar
<1>8. ScriptsConverge'
  <2> SUFFICES ASSUME settled' # Null, NEW x \in Codes
               PROVE  item'[x] = IF settled'.by = "import"
                 THEN AsRow(settled'.before[x], LastRow(settled'.file, Len(settled'.file), x))
                 ELSE AsPlanned(settled'.before, settled'.group, x)
    BY DEF ScriptsConverge, AsPlanned
  <2>1. s.before # Null /\ settled' = done
    BY <1>3
  <2>2. settled'.by = "import" /\ settled'.file = s.file /\ settled'.before = s.before
    BY <1>2, <2>1
  <2> QED  BY <1>3, <1>7, <2>1, <2>2
<1>9. DryRunTells'
  BY <1>2, <1>3 DEF DryRunTells
<1> QED  BY <1>3, <1>4, <1>6, <1>8, <1>9 DEF ScriptInv, Settled

-----------------------------------------------------------------------------
(* The shop, and scripts that are cut short.                                *)
LEMMA MeanwhileKeeps ==
  ASSUME ScriptInv, NEW x \in Codes, NEW row \in ItemRow, Meanwhile(x, row),
         row.at \in {<<g>> : g \in Groups} \cup subs \cup (Groups \X Own)
  PROVE  ScriptInv'
<1>1. PICK s : s = script
  OBVIOUS
<1>2. /\ item' = [item EXCEPT ![x] = row] /\ settled' = Null /\ foretold' = Null
      /\ script' = (IF s = Null THEN Null ELSE [s EXCEPT !.before = Null])
      /\ UNCHANGED <<mains, subs>>
  BY <1>1 DEF Meanwhile, Run
<1>3. ScriptTypeOK'
  BY <1>2 DEF ScriptInv, ScriptTypeOK, Items
<1>4. Settled'
  BY <1>2 DEF Settled, ScriptsConverge, DryRunTells
<1>5. PICK q : q = [s EXCEPT !.before = Null]
  OBVIOUS
<1>6. ASSUME ImportOK(s) PROVE ImportOK(q)'
  <2>1. q \in Importing /\ q.at = s.at /\ q.file = s.file /\ q.step = s.step /\ q.before = Null
    BY <1>5, <1>6 DEF ImportOK, Importing
  <2>2. row # Null
    BY ItemAssumption
  <2>3. \A y \in Codes : item[y] # Null => item'[y] # Null
    BY <1>2, <2>2 DEF ScriptInv, ScriptTypeOK, Items
  <2>4. ASSUME s.step = "stock" PROVE item'[Sku(s.file[s.at])] # Null
    <3>1. s.at \in 1..Len(s.file) /\ item[Sku(s.file[s.at])] # Null
      BY <1>6, <2>4 DEF ImportOK, Importing
    <3>2. PICK line : line = s.file[s.at]
      OBVIOUS
    <3>3. s.file \in Seq(FileLine)
      BY <1>6 DEF ImportOK, Importing
    <3>4. line \in FileLine
      BY <3>1, <3>2, <3>3
    <3>5. Sku(line) \in Codes
      BY <3>4 DEF FileLine, Sku, Codes
    <3> QED  BY <2>3, <3>1, <3>2, <3>5
  <2> QED  BY <1>6, <2>1, <2>4 DEF ImportOK
<1>7. ASSUME OrganizeOK(s) PROVE OrganizeOK(q)'
  <2>1. /\ q \in Organizing /\ q.at = s.at /\ q.group = s.group /\ q.op = s.op /\ q.todo = s.todo
        /\ q.moved = s.moved /\ q.before = Null
    BY <1>5, <1>7 DEF OrganizeOK, Organizing
  <2>2. ASSUME q.op = "create" PROVE CreateOK(q)'
    BY <1>2, <1>7, <2>1, <2>2 DEF OrganizeOK, CreateOK
  <2>3. ASSUME q.op = "move" PROVE MoveOK(q)'
    <3>1. SubsOf(q.group) \subseteq subs' /\ \A t \in q.todo : item[t[1]] \in ItemRow
      BY <1>2, <1>7, <2>1, <2>3 DEF OrganizeOK, MoveOK
    <3>2. \A t \in q.todo : item'[t[1]] \in ItemRow
      BY <1>2, <3>1 DEF ScriptInv, ScriptTypeOK
    <3> QED  BY <2>1, <3>1, <3>2 DEF MoveOK, SubsOf
  <2> QED  BY <1>7, <2>1, <2>2, <2>3 DEF OrganizeOK
<1>8. script' = Null \/ (script' = q /\ (ImportOK(s) \/ OrganizeOK(s)))
  BY <1>1, <1>2, <1>5 DEF ScriptInv
<1> QED  BY <1>2, <1>3, <1>4, <1>6, <1>7, <1>8 DEF ScriptInv

LEMMA ShopKeeps ==
  ASSUME ScriptInv, NEW x \in Codes,
         Sold(x) \/ Removed(x) \/ (\E at \in Places : Moved(x, at))
  PROVE  ScriptInv'
<1>1. item[x] \in ItemRow /\ item[x].at \in {<<g>> : g \in Groups} \cup subs \cup (Groups \X Own)
  BY DEF Sold, Removed, Moved, Meanwhile, ScriptInv, ScriptTypeOK, Items
<1>2. PICK old : old = item[x]
  OBVIOUS
<1>3. CASE Sold(x)
  <2>1. PICK row : row = [old EXCEPT !.reserved = old.reserved + 1]
    OBVIOUS
  <2>2. row \in ItemRow /\ row.at = old.at
    BY <1>1, <1>2, <2>1 DEF ItemRow
  <2>3. Meanwhile(x, row)
    BY <1>2, <1>3, <2>1 DEF Sold
  <2> QED  BY <1>1, <1>2, <2>2, <2>3, MeanwhileKeeps
<1>4. CASE Removed(x)
  <2>1. PICK row : row = [old EXCEPT !.deleted = TRUE, !.active = FALSE]
    OBVIOUS
  <2>2. row \in ItemRow /\ row.at = old.at
    BY <1>1, <1>2, <2>1 DEF ItemRow
  <2>3. Meanwhile(x, row)
    BY <1>2, <1>4, <2>1 DEF Removed
  <2> QED  BY <1>1, <1>2, <2>2, <2>3, MeanwhileKeeps
<1>5. ASSUME NEW at \in Places, Moved(x, at) PROVE ScriptInv'
  <2>1. PICK row : row = [old EXCEPT !.at = at]
    OBVIOUS
  <2>2. at \in {<<g>> : g \in Groups} \cup subs \cup (Groups \X Own) /\ at \in Place
    <3>1. mains \subseteq Groups /\ subs \subseteq UNION {SubsOf(g) : g \in Groups}
      BY DEF ScriptInv, ScriptTypeOK
    <3>2. mains \X Own \subseteq Groups \X Own
      BY <3>1
    <3>3. CASE at \in {<<g>> : g \in mains}
      <4>1. at \in {<<g>> : g \in Groups}
        BY <3>1, <3>3
      <4> QED  BY <4>1 DEF Place
    <3>4. CASE at \in subs
      <4>1. PICK h \in Groups : at \in SubsOf(h)
        BY <3>1, <3>4
      <4>2. at \in Place
        BY <4>1, PlaceFacts
      <4> QED  BY <3>4, <4>2
    <3>5. CASE at \in mains \X Own
      <4> DEFINE both == Groups \X Own
      <4>1. both \subseteq Place
        BY DEF Place
      <4>2. at \in both
        BY <3>2, <3>5
      <4> HIDE DEF both
      <4>3. at \in Place
        BY <4>1, <4>2
      <4> QED  BY <3>5, <4>2, <4>3 DEF both
    <3> QED  BY <3>3, <3>4, <3>5 DEF Places
  <2>3. row \in ItemRow /\ row.at = at
    BY <1>1, <1>2, <2>1, <2>2 DEF ItemRow
  <2>4. Meanwhile(x, row)
    BY <1>2, <1>5, <2>1 DEF Moved
  <2> QED  BY <2>2, <2>3, <2>4, MeanwhileKeeps
<1> QED  BY <1>3, <1>4, <1>5

LEMMA CutShortKeeps == ASSUME ScriptInv, CutShort PROVE ScriptInv'
<1>1. script # Null /\ script' = Null /\ foretold' = Null /\ UNCHANGED <<mains, subs, item, settled>>
  BY DEF CutShort, Run
<1> QED  BY <1>1 DEF ScriptInv, ScriptTypeOK, Settled, ScriptsConverge, DryRunTells

-----------------------------------------------------------------------------
(* The organizer.                                                           *)
LEMMA DryRunKeeps == ASSUME ScriptInv, NEW g \in Groups, DryRun(g) PROVE ScriptInv'
<1>1. PICK n : n = Cardinality(Announced(g, subs))
  OBVIOUS
<1>2. n \in Nat
  BY <1>1, FiniteCodes DEF Announced, Scanned
<1>3. /\ script = Null /\ foretold' = [group |-> g, moves |-> n] /\ settled' = Null
      /\ UNCHANGED <<mains, subs, item, script>>
  BY <1>1 DEF DryRun, DryRunMoves, Announced
<1>4. Announced(g, subs)' = Announced(g, subs)
  BY <1>3 DEF Announced, Scanned
<1>5. /\ foretold' \in Announcement /\ foretold'.group = g
      /\ foretold'.moves = Cardinality(Announced(foretold'.group, subs))
  BY <1>1, <1>2, <1>3 DEF Announcement
<1>6. foretold'.moves = Cardinality(Announced(foretold.group, subs)')
  BY <1>3, <1>5 DEF Announced, Scanned
<1>7. ScriptTypeOK' /\ Settled'
  BY <1>3 DEF ScriptInv, ScriptTypeOK, Settled, ScriptsConverge, DryRunTells
<1> QED  BY <1>3, <1>5, <1>6, <1>7 DEF ScriptInv

LEMMA StartOrganizeKeeps == ASSUME ScriptInv, NEW g \in Groups, StartOrganize(g) PROVE ScriptInv'
<1>1. PICK f : f = foretold
  OBVIOUS
<1>2. PICK s : s = [op |-> "create", group |-> g, at |-> 1, todo |-> {}, moved |-> 0, known |-> subs,
                    foretold |-> f, before |-> item]
  OBVIOUS
<1>3. script' = s /\ settled' = Null /\ foretold' = Null /\ UNCHANGED <<mains, subs, item>>
  BY <1>1, <1>2 DEF StartOrganize, Run
<1>4. f # Null => f \in Announcement /\ f.moves = Cardinality(Announced(f.group, subs))
  BY <1>1 DEF ScriptInv
<1>5. subs \subseteq Place
  BY DEF ScriptInv, ScriptTypeOK, Place
<1>6. /\ s \in Organizing /\ s.at = 1 /\ s.op = "create" /\ s.todo = {} /\ s.moved = 0
      /\ s.known = subs /\ s.foretold = f /\ s.group = g /\ s.before = item
  BY <1>2, <1>4, <1>5 DEF Organizing, ScriptInv, ScriptTypeOK
<1>7. CreateOK(s)
  <2>1. 1..(s.at - 1) = {}
    BY <1>6
  <2> QED  BY <1>4, <1>6, <2>1 DEF CreateOK, ScriptInv, ScriptTypeOK
<1>8. OrganizeOK(s)'
  BY <1>3, <1>6, <1>7 DEF OrganizeOK, CreateOK, Announced, Scanned
<1>9. ScriptTypeOK' /\ Settled'
  BY <1>3 DEF ScriptInv, ScriptTypeOK, Settled, ScriptsConverge, DryRunTells
<1> QED  BY <1>3, <1>8, <1>9 DEF ScriptInv

\* A step of a script that stays at work.
LEMMA OrganizeGoesOn ==
  ASSUME ScriptInv, script # Null, NEW q, OrganizeOK(q)', script' = q,
         UNCHANGED <<foretold, settled>>, ScriptTypeOK'
  PROVE  ScriptInv'
<1>1. settled' = Null /\ foretold' = Null
  BY DEF ScriptInv
<1> QED  BY <1>1 DEF ScriptInv, Settled, ScriptsConverge, DryRunTells

\* Once every subcategory is there, what is out of place is what the dry run
\* counted, or more if it did not know of them all.
LEMMA DryRunCounts ==
  ASSUME ScriptInv, NEW g \in Groups, NEW known \in SUBSET Place,
         \A x \in Codes : item[x] # Null =>
           item[x].at \in {<<h>> : h \in Groups} \cup known \cup (Groups \X Own),
         NEW out, out = {x \in Scanned(item, g, SubsOf(g)) : item[x].at # Target(g, x[2])}
  PROVE  /\ SubsOf(g) \subseteq known => Cardinality(Announced(g, known)) = Cardinality(out)
         /\ \/ Cardinality(Announced(g, known)) = Cardinality(out)
            \/ Cardinality(out) > Cardinality(Announced(g, known))
<1> DEFINE announced == Announced(g, known)
<1>1. Scanned(item, g, SubsOf(g) \cap known) = Scanned(item, g, SubsOf(g))
  <2>1. ASSUME NEW x \in Codes, item[x] # Null, item[x].at \in SubsOf(g) PROVE item[x].at \in known
    <3>1. PICK at : at = item[x].at
      OBVIOUS
    <3>2. at \notin Groups \X Own /\ at \notin {<<h>> : h \in Groups}
      BY <2>1, <3>1, PlaceFacts
    <3> QED  BY <2>1, <3>1, <3>2
  <2> QED  BY <2>1 DEF Scanned
<1>2. announced \subseteq out
  <2>1. ASSUME NEW x \in announced PROVE item[x].at # Target(g, x[2])
    <3>1. item[x].at # Target(g, x[2]) \/ item[x].at = <<g>>
      BY <2>1 DEF Announced
    <3>2. PICK to : to = Target(g, x[2])
      OBVIOUS
    <3>3. to # <<g>>
      <4>1. to \in SubsOf(g)
        BY <3>2, TargetIsSub
      <4> QED  BY <4>1, PlaceFacts
    <3> QED  BY <3>1, <3>2, <3>3
  <2> QED  BY <1>1, <2>1 DEF Announced
<1>3. SubsOf(g) \subseteq known => announced = out
  BY <1>1, <1>2, TargetIsSub DEF Announced
<1>4. out \in SUBSET Codes
  BY DEF Scanned
<1> HIDE DEF announced
<1>5. IsFiniteSet(out) /\ Cardinality(out) \in Nat /\ Cardinality(announced) \in Nat
  BY <1>2, <1>4, FiniteCodes
<1>6. Cardinality(announced) <= Cardinality(out)
  BY <1>2, <1>5, FS_Subset
<1>7. PICK m, n : m = Cardinality(announced) /\ n = Cardinality(out)
  OBVIOUS
<1>8. m = n \/ n > m
  BY <1>5, <1>6, <1>7
<1>9. SubsOf(g) \subseteq known => m = n
  BY <1>3, <1>7
<1> QED  BY <1>7, <1>8, <1>9 DEF announced

LEMMA CreateSubKeeps == ASSUME ScriptInv, CreateSub PROVE ScriptInv'
<1>1. PICK s : s = script
  OBVIOUS
<1>2. PICK g : g = s.group
  OBVIOUS
<1>3. s # Null /\ s.op = "create" /\ UNCHANGED <<mains, item, foretold, settled>>
  BY <1>1 DEF CreateSub
<1>4. OrganizeOK(s) /\ CreateOK(s) /\ s \in Organizing /\ g \in Groups /\ s.at \in Nat /\ s.at >= 1
  BY <1>1, <1>2, <1>3 DEF ScriptInv, ImportOK, Importing, OrganizeOK, Organizing
<1>5. PICK at : at = s.at
  OBVIOUS
<1>6. PICK N : N = Len(Plans[g])
  OBVIOUS
<1>7. N \in Nat /\ DOMAIN Plans[g] = 1..N /\ at \in Nat /\ at >= 1
  BY <1>4, <1>5, <1>6, ScriptAssumption
<1>8. CASE at <= N
  <2>1. PICK new : new = <<g, Plans[g][at].key>>
    OBVIOUS
  <2>2. PICK q : q = [s EXCEPT !.at = at + 1]
    OBVIOUS
  <2>3. subs' = subs \cup {new} /\ script' = q
    BY <1>1, <1>2, <1>5, <1>6, <1>8, <2>1, <2>2 DEF CreateSub, Run
  <2>4. at \in DOMAIN Plans[g]
    BY <1>7, <1>8
  <2>5. new \in SubsOf(g)
    BY <2>1, <2>4 DEF SubsOf
  <2>6. ScriptTypeOK'
    BY <1>3, <1>4, <2>3, <2>5 DEF ScriptInv, ScriptTypeOK, SubsOf
  <2>7. /\ q \in Organizing /\ q.at = at + 1 /\ q.op = "create" /\ q.group = g /\ q.todo = s.todo
        /\ q.moved = s.moved /\ q.before = s.before /\ q.known = s.known /\ q.foretold = s.foretold
    BY <1>2, <1>3, <1>4, <1>7, <2>2 DEF Organizing
  <2>8. \A n \in 1..(q.at - 1) : n \in DOMAIN Plans[g] => <<g, Plans[g][n].key>> \in subs'
    <3> SUFFICES ASSUME NEW n \in 1..(q.at - 1), n \in DOMAIN Plans[g]
                 PROVE  <<g, Plans[g][n].key>> \in subs'
      OBVIOUS
    <3>1. n = at \/ n \in 1..(at - 1)
      BY <1>7, <2>7
    <3> QED  BY <1>2, <1>4, <1>5, <2>1, <2>3, <3>1 DEF CreateOK
  <2>9. CreateOK(q)'
    BY <1>2, <1>3, <1>4, <2>7, <2>8 DEF CreateOK, Announced, Scanned, SubsOf
  <2>10. OrganizeOK(q)'
    <3>1. q.at >= 1
      BY <1>7, <2>7
    <3> QED  BY <2>7, <2>9, <3>1 DEF OrganizeOK
  <2> QED  BY <1>1, <1>3, <2>3, <2>6, <2>10, OrganizeGoesOn
<1>9. CASE at > N
  <2>1. PICK todo : todo = {<<x, item[x].at>> : x \in Scanned(item, g, SubsOf(g))}
    OBVIOUS
  <2>2. PICK q : q = [s EXCEPT !.op = "move", !.todo = todo]
    OBVIOUS
  <2>3. UNCHANGED subs /\ script' = q
    BY <1>1, <1>2, <1>5, <1>6, <1>7, <1>9, <2>1, <2>2 DEF CreateSub, Run
  <2>4. ScriptTypeOK'
    BY <1>3, <2>3 DEF ScriptInv, ScriptTypeOK
  <2>5. \A x \in Scanned(item, g, SubsOf(g)) : x \in Codes /\ item[x] # Null /\ ~item[x].deleted
           /\ item[x] \in ItemRow /\ item[x].at \in Place
    BY DEF Scanned, ScriptInv, ScriptTypeOK, Items, ItemRow
  <2>6. /\ q \in Organizing /\ q.at = at /\ q.op = "move" /\ q.group = g /\ q.todo = todo
        /\ q.moved = 0 /\ q.before = s.before /\ q.known = s.known /\ q.foretold = s.foretold
    <3>1. todo \in SUBSET (Codes \X Place)
      BY <2>1, <2>5
    <3>2. s.moved = 0
      BY <1>4 DEF CreateOK
    <3> QED  BY <1>2, <1>4, <1>5, <2>2, <3>1, <3>2 DEF Organizing
  <2>7. SubsOf(g) \subseteq subs
    <3>1. \A n \in DOMAIN Plans[g] : n \in 1..(at - 1)
      BY <1>7, <1>9
    <3> QED  BY <1>2, <1>4, <1>5, <3>1 DEF CreateOK, SubsOf
  <2>8. \A t \in todo : item[t[1]] \in ItemRow /\ item[t[1]] # Null /\ ~item[t[1]].deleted
                        /\ item[t[1]].at = t[2] /\ t[2] \in {<<g>>} \cup SubsOf(g)
    <3> SUFFICES ASSUME NEW x \in Scanned(item, g, SubsOf(g)), NEW t, t = <<x, item[x].at>>
                 PROVE  /\ item[t[1]] \in ItemRow /\ item[t[1]] # Null /\ ~item[t[1]].deleted
                        /\ item[t[1]].at = t[2] /\ t[2] \in {<<g>>} \cup SubsOf(g)
      BY <2>1
    <3>1. t[1] = x /\ t[2] = item[x].at
      OBVIOUS
    <3>2. item[x].at \in {<<g>>} \cup SubsOf(g)
      BY DEF Scanned
    <3> QED  BY <2>5, <3>1, <3>2
  <2>9. ASSUME s.before # Null
        PROVE  /\ item = s.before
               /\ \A x \in Codes : \/ item[x] = AsPlanned(s.before, g, x)
                                  \/ (item[x] = s.before[x] /\ <<x, item[x].at>> \in todo)
               /\ Foretells(s.foretold, g, s.known, 0 + Cardinality(ToMove(q)))
    <3>0. item = s.before
      BY <1>4, <2>9 DEF CreateOK
    <3>1. \A x \in Codes : item[x] # Null =>
            item[x].at \in {<<h>> : h \in Groups} \cup s.known \cup (Groups \X Own)
      BY <1>4, <2>9 DEF CreateOK
    <3>2. s.known \subseteq Place /\ s.known \in SUBSET Place
      BY <1>4 DEF Organizing
    <3>3. ASSUME NEW x \in Codes, item[x] # AsPlanned(item, g, x)
          PROVE  <<x, item[x].at>> \in todo
      BY <2>1, <3>3 DEF AsPlanned, Scanned
    <3>4. PICK out : out = {x \in Scanned(item, g, SubsOf(g)) : item[x].at # Target(g, x[2])}
      OBVIOUS
    <3>5. ToMove(q) = out
      BY <2>1, <2>5, <2>6, <3>4 DEF ToMove
    <3>6. PICK announced : announced = Cardinality(Announced(g, s.known))
      OBVIOUS
    <3>7. /\ SubsOf(g) \subseteq s.known => announced = Cardinality(out)
          /\ announced = Cardinality(out) \/ Cardinality(out) > announced
      BY <1>4, <3>1, <3>2, <3>4, <3>6, DryRunCounts
    <3>8. Cardinality(out) \in Nat
      BY <3>4, FiniteCodes DEF Scanned
    <3>9. s.foretold # Null /\ s.foretold.group = g => s.foretold.moves = announced
      BY <1>2, <1>4, <2>9, <3>6 DEF CreateOK
    <3>10. 0 + Cardinality(out) = Cardinality(out)
      BY <3>8
    <3> QED  BY <3>0, <3>3, <3>5, <3>7, <3>9, <3>10 DEF Foretells
  <2>10. MoveOK(q)'
    BY <1>3, <2>3, <2>6, <2>7, <2>8, <2>9 DEF MoveOK, ToMove, Foretells, SubsOf, AsPlanned
  <2>11. OrganizeOK(q)'
    BY <1>7, <2>6, <2>10 DEF OrganizeOK
  <2> QED  BY <1>1, <1>3, <2>3, <2>4, <2>11, OrganizeGoesOn
<1> QED  BY <1>7, <1>8, <1>9

LEMMA MoveProductKeeps ==
  ASSUME ScriptInv, NEW x \in Codes, NEW from, MoveProduct(x, from) PROVE ScriptInv'
<1>1. PICK s : s = script
  OBVIOUS
<1>2. PICK g : g = s.group
  OBVIOUS
<1>3. PICK to : to = Target(g, x[2])
  OBVIOUS
<1>4. PICK q : q = [s EXCEPT !.todo = s.todo \ {<<x, from>>},
                             !.moved = IF from = to THEN s.moved ELSE s.moved + 1]
  OBVIOUS
<1>5. /\ s # Null /\ s.op = "move" /\ <<x, from>> \in s.todo /\ script' = q
      /\ item' = (IF from = to THEN item ELSE [item EXCEPT ![x].at = to])
      /\ UNCHANGED <<mains, subs, foretold, settled>>
  BY <1>1, <1>2, <1>3, <1>4 DEF MoveProduct, Run
<1>6. /\ OrganizeOK(s) /\ MoveOK(s) /\ s \in Organizing /\ g \in Groups /\ s.moved \in Nat
      /\ s.todo \subseteq Codes \X Place /\ s.at >= 1
  BY <1>1, <1>2, <1>5 DEF ScriptInv, ImportOK, Importing, OrganizeOK, Organizing
<1>7. to \in SubsOf(g) /\ to \in subs /\ to \in Place
  BY <1>2, <1>3, <1>6, TargetIsSub, PlaceFacts DEF MoveOK
<1>8. item[x] \in ItemRow /\ from \in Place
  BY <1>5, <1>6 DEF MoveOK
<1>9. PICK new : new = IF from = to THEN item[x] ELSE [item[x] EXCEPT !.at = to]
  OBVIOUS
<1>10. /\ item' = [item EXCEPT ![x] = new] /\ new \in ItemRow
       /\ new.deleted = item[x].deleted
       /\ from = to => new = item[x]
       /\ from # to => new.at = to
  <2>1. DOMAIN item = Codes
    BY DEF ScriptInv, ScriptTypeOK, Items
  <2>2. CASE from = to
    <3>1. item' = item /\ new = item[x]
      BY <1>5, <1>9, <2>2
    <3>2. item = [item EXCEPT ![x] = item[x]]
      BY DEF ScriptInv, ScriptTypeOK, Items
    <3>3. item' = [item EXCEPT ![x] = new]
      BY <3>1, <3>2
    <3> QED  BY <1>8, <2>2, <3>1, <3>3
  <2>3. CASE from # to
    <3>1. new = [item[x] EXCEPT !.at = to] /\ item' = [item EXCEPT ![x] = new]
      BY <1>5, <1>9, <2>3
    <3> QED  BY <1>7, <1>8, <2>3, <3>1 DEF ItemRow
  <2> QED  BY <2>2, <2>3
<1>11. ScriptTypeOK'
  BY <1>5, <1>7, <1>10 DEF ScriptInv, ScriptTypeOK, Items
<1>12. /\ q \in Organizing /\ q.at = s.at /\ q.op = "move" /\ q.group = g
       /\ q.todo = s.todo \ {<<x, from>>} /\ q.before = s.before /\ q.known = s.known
       /\ q.foretold = s.foretold
       /\ q.moved = IF from = to THEN s.moved ELSE s.moved + 1
  <2>1. PICK todo, moved : todo = s.todo \ {<<x, from>>} /\ moved = IF from = to THEN s.moved ELSE s.moved + 1
    OBVIOUS
  <2>2. todo \in SUBSET (Codes \X Place) /\ moved \in Nat
    BY <1>6, <2>1
  <2>3. q = [s EXCEPT !.todo = todo, !.moved = moved]
    BY <1>4, <2>1
  <2>4. /\ q \in Organizing /\ q.at = s.at /\ q.op = "move" /\ q.group = g
        /\ q.todo = todo /\ q.before = s.before /\ q.known = s.known
        /\ q.foretold = s.foretold /\ q.moved = moved
    BY <1>2, <1>5, <1>6, <2>2, <2>3 DEF Organizing
  <2> QED  BY <2>1, <2>4
<1>13. \A y \in Codes : item'[y] = IF y = x THEN new ELSE item[y]
  BY <1>10 DEF ScriptInv, ScriptTypeOK, Items
<1>14. \A t \in q.todo : t \in s.todo /\ t = <<t[1], t[2]>> /\ t[1] \in Codes
  BY <1>6, <1>12
<1>15. SubsOf(g) \subseteq subs' /\ \A t \in q.todo : item'[t[1]] \in ItemRow
  BY <1>2, <1>5, <1>6, <1>10, <1>13, <1>14 DEF MoveOK
<1>16. ASSUME s.before # Null
       PROVE  /\ \A t \in q.todo : /\ item'[t[1]] # Null /\ ~item'[t[1]].deleted
                                   /\ item'[t[1]].at = t[2] /\ item'[t[1]] = s.before[t[1]]
                                   /\ t[2] \in {<<g>>} \cup SubsOf(g)
              /\ \A y \in Codes : \/ item'[y] = AsPlanned(s.before, g, y)
                                 \/ (item'[y] = s.before[y] /\ <<y, item'[y].at>> \in q.todo)
              /\ Foretells(q.foretold, g, q.known, q.moved + Cardinality(ToMove(q)))
  <2>1. /\ \A t \in s.todo : /\ item[t[1]] # Null /\ ~item[t[1]].deleted /\ item[t[1]].at = t[2]
                              /\ item[t[1]] = s.before[t[1]] /\ t[2] \in {<<g>>} \cup SubsOf(g)
        /\ \A y \in Codes : \/ item[y] = AsPlanned(s.before, g, y)
                           \/ (item[y] = s.before[y] /\ <<y, item[y].at>> \in s.todo)
        /\ Foretells(s.foretold, g, s.known, s.moved + Cardinality(ToMove(s)))
    BY <1>2, <1>6, <1>16 DEF MoveOK
  <2>2. item[x].at = from
    <3>1. item[<<x, from>>[1]].at = <<x, from>>[2]
      BY <1>5, <2>1
    <3> QED  BY <3>1
  <2>3. ASSUME NEW p, <<x, p>> \in s.todo PROVE p = from
    <3>1. item[<<x, p>>[1]].at = <<x, p>>[2]
      BY <2>1, <2>3
    <3> QED  BY <2>2, <3>1
  <2>4. \A t \in q.todo : t[1] # x
    BY <1>12, <1>14, <2>3
  <2>5. new.at = to
    BY <1>10, <2>2
  <2>6. \A t \in q.todo : item'[t[1]] = item[t[1]]
    BY <1>13, <1>14, <2>4
  <2>14. new = AsPlanned(s.before, g, x)
    <3>1. PICK old : old = item[x]
      OBVIOUS
    <3>2. LET u == <<x, from>> IN item[u[1]] # Null /\ ~item[u[1]].deleted /\ item[u[1]].at = u[2]
             /\ item[u[1]] = s.before[u[1]] /\ u[2] \in {<<g>>} \cup SubsOf(g)
      BY <1>5, <2>1
    <3>3. /\ s.before[x] = old /\ old # Null /\ ~old.deleted /\ old.at = from
          /\ from \in {<<g>>} \cup SubsOf(g) /\ old \in ItemRow
      BY <1>8, <3>1, <3>2
    <3>4. AsPlanned(s.before, g, x) = [old EXCEPT !.at = to]
      BY <1>3, <3>3 DEF AsPlanned
    <3>5. new = [old EXCEPT !.at = to]
      BY <1>9, <3>1, <3>3 DEF ItemRow
    <3> QED  BY <3>4, <3>5
  <2>7. ASSUME NEW y \in Codes
        PROVE  \/ item'[y] = AsPlanned(s.before, g, y)
               \/ (item'[y] = s.before[y] /\ <<y, item'[y].at>> \in q.todo)
    <3>1. CASE y = x
      BY <1>13, <2>14, <3>1
    <3>2. CASE y # x
      <4>1. item'[y] = item[y]
        BY <1>13, <3>2
      <4>2. <<y, item[y].at>> # <<x, from>>
        BY <3>2
      <4> QED  BY <1>12, <2>1, <4>1, <4>2
    <3> QED  BY <3>1, <3>2
  <2>8. ToMove(q) = ToMove(s) \ {x}
    <3>1. \A y \in Codes : \A p : <<y, p>> \in q.todo <=> <<y, p>> \in s.todo /\ y # x
      BY <1>12, <2>3
    <3> QED  BY <1>2, <1>12, <3>1 DEF ToMove
  <2>9. x \in ToMove(s) <=> from # to
    BY <1>2, <1>3, <1>5, <1>8, <2>3 DEF ToMove
  <2>10. IsFiniteSet(ToMove(s)) /\ Cardinality(ToMove(s)) \in Nat
    BY FiniteCodes DEF ToMove
  <2>11. Cardinality(ToMove(q)) = IF from # to THEN Cardinality(ToMove(s)) - 1 ELSE Cardinality(ToMove(s))
    BY <2>8, <2>9, <2>10, FS_RemoveElement
  <2>12. q.moved + Cardinality(ToMove(q)) = s.moved + Cardinality(ToMove(s))
    BY <1>6, <1>12, <2>10, <2>11
  <2>13. Foretells(q.foretold, g, q.known, q.moved + Cardinality(ToMove(q)))
    BY <1>12, <2>1, <2>12
  <2> QED  BY <1>14, <2>1, <2>6, <2>7, <2>13
<1>17. MoveOK(q)'
  BY <1>12, <1>15, <1>16 DEF MoveOK, ToMove, Foretells, SubsOf, AsPlanned
<1>18. OrganizeOK(q)'
  BY <1>6, <1>12, <1>17 DEF OrganizeOK
<1> QED  BY <1>1, <1>5, <1>11, <1>18, OrganizeGoesOn

LEMMA EndOrganizeKeeps == ASSUME ScriptInv, EndOrganize PROVE ScriptInv'
<1>1. PICK s : s = script
  OBVIOUS
<1>2. PICK done : done = [by |-> "organize", group |-> s.group, moved |-> s.moved, known |-> s.known,
                          foretold |-> s.foretold, before |-> s.before]
  OBVIOUS
<1>3. /\ s # Null /\ s.op = "move" /\ s.todo = {} /\ script' = Null
      /\ settled' = (IF s.before # Null THEN done ELSE Null)
      /\ UNCHANGED <<mains, subs, item, foretold>>
  BY <1>1, <1>2 DEF EndOrganize, Run, Settle
<1>4. OrganizeOK(s) /\ MoveOK(s) /\ s.moved \in Nat /\ foretold = Null
  BY <1>1, <1>3 DEF ScriptInv, ImportOK, Importing, OrganizeOK, Organizing
<1>5. ScriptTypeOK'
  BY <1>3 DEF ScriptInv, ScriptTypeOK
<1>6. ASSUME s.before # Null
      PROVE  /\ \A x \in Codes : item[x] = AsPlanned(s.before, s.group, x)
             /\ Foretells(s.foretold, s.group, s.known, s.moved)
  <2>1. ToMove(s) = {}
    BY <1>3 DEF ToMove
  <2>2. s.moved + Cardinality(ToMove(s)) = s.moved
    BY <1>4, <2>1, FS_EmptySet
  <2> QED  BY <1>3, <1>4, <1>6, <2>2 DEF MoveOK
<1>7. settled' # Null => settled' = done /\ s.before # Null
  BY <1>3
<1>8. /\ done.by = "organize" /\ done.group = s.group /\ done.moved = s.moved /\ done.known = s.known
      /\ done.foretold = s.foretold /\ done.before = s.before
  BY <1>2
<1>9. ScriptsConverge'
  BY <1>3, <1>6, <1>7, <1>8 DEF ScriptsConverge, AsPlanned
<1>10. DryRunTells'
  BY <1>6, <1>7, <1>8 DEF DryRunTells, Foretells, SubsOf
<1> QED  BY <1>3, <1>4, <1>5, <1>9, <1>10 DEF ScriptInv, Settled

\* A script that reaches its end leaves what the file or the plan asks for and
\* nothing else changed, an import that is cut leaves one product half written
\* at most, and the organizer moves what a dry run announced: for any file, any
\* plans and any number of products, and however often it was cut short. As long
\* as nobody else writes, the rows that were read are as the file says (the
\* importer), and what is out of place is still on the organizer's list.
THEOREM ScriptsAlwaysRerun ==
  ASSUME NEW files \in SUBSET Seq(FileLine)
  PROVE  ScriptsSpec(files) => []ScriptsRerun
<1>1. ScriptsInit => ScriptInv
  BY DEF ScriptsInit, ScriptInv, ScriptTypeOK, Settled, ScriptsConverge, DryRunTells, Codes, Items
<1>2. ASSUME ScriptInv, ScriptsNext(files) PROVE ScriptInv'
  <2>1. ASSUME NEW file \in files, StartImport(file) PROVE ScriptInv'
    BY <1>2, <2>1, StartImportKeeps
  <2>2. ASSUME NEW g \in Groups, DryRun(g) \/ StartOrganize(g) PROVE ScriptInv'
    BY <1>2, <2>2, DryRunKeeps, StartOrganizeKeeps
  <2>3. ASSUME NEW x \in Codes, NEW from, MoveProduct(x, from) PROVE ScriptInv'
    BY <1>2, <2>3, MoveProductKeeps
  <2>4. ASSUME NEW x \in Codes,
               Sold(x) \/ Removed(x) \/ (\E at \in Places : Moved(x, at))
        PROVE  ScriptInv'
    BY <1>2, <2>4, ShopKeeps
  <2> QED  BY <1>2, <2>1, <2>2, <2>3, <2>4, SkipRowKeeps, CreateMainKeeps, CreateProductKeeps,
              UpdateProductKeeps, UpdateStockKeeps, EndImportKeeps, CreateSubKeeps,
              EndOrganizeKeeps, CutShortKeeps DEF ScriptsNext
<1>3. ASSUME ScriptInv, UNCHANGED scriptVars PROVE ScriptInv'
  BY <1>3 DEF scriptVars, ScriptInv, ScriptTypeOK, Settled, ScriptsConverge, DryRunTells, ImportOK,
              OrganizeOK, CreateOK, MoveOK, Announced, Scanned, AsPlanned, SoFar
<1>4. ScriptInv => ScriptsRerun
  <2> SUFFICES ASSUME ScriptInv PROVE CutLeavesOneHalf
    BY DEF ScriptInv, Settled, ScriptsRerun
  <2> SUFFICES ASSUME script # Null, script.op = "import", script.before # Null, NEW x \in Codes
               PROVE  LET done == SoFar(script, x) IN
                      \/ item[x] = done
                      \/ /\ script.step = "stock" /\ x = Sku(ThisRow) /\ done # Null
                         /\ item[x] = [AsRow(done, ThisRow) EXCEPT !.quantity = done.quantity]
    BY DEF CutLeavesOneHalf, SoFar
  <2>1. ImportOK(script)
    BY DEF ScriptInv, OrganizeOK, Organizing
  <2> QED  BY <2>1 DEF ImportOK, ThisRow
<1> QED  BY <1>1, <1>2, <1>3, <1>4, PTL DEF ScriptsSpec
=============================================================================
