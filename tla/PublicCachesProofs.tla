-------------------------- MODULE PublicCachesProofs --------------------------
(***************************************************************************)
(* The public caches and the settings rows, for any number of requests,    *)
(* sections, fields and values.                                            *)
(***************************************************************************)
EXTENDS PublicCaches, SequenceTheorems, TLAPS

-----------------------------------------------------------------------------
(* The requests in flight.                                                  *)

SectionOps == {"readSection", "upsert", "dropBootstrap"}
RowOps == {"createRow", "writeRow"}

IsStore(r) ==
  /\ r = [op |-> "store", on |-> {}, key |-> r.key, view |-> r.view]
  /\ r.key \in Keys /\ r.view \in {"fresh", "stale"}
IsInvalidate(r) == r \in Deletion
IsRow(r) ==
  /\ r.op \in RowOps
  /\ r = [f \in {"op", "on", "row", "value"} |-> r[f]]
  /\ r.on = {"row"}
  /\ r.value \in Fees \cup {Null}
IsSection(r) == r \in Patch /\ r.section \in r.on /\ r.more \subseteq r.on
IsRequest(r) == IsStore(r) \/ IsInvalidate(r) \/ IsRow(r) \/ IsSection(r)

ShapeOK ==
  /\ DOMAIN request = Handlers
  /\ DOMAIN cache = Keys
  /\ setting \in [Sections -> [Fields -> Values \cup {Null}]]
  /\ row \in Seq(Fees)
  /\ \A h \in InFlight : IsRequest(request[h])
  /\ \A h, g \in InFlight : h # g => request[h].on \cap request[g].on \subseteq overlapped

\* A section that one request at a time works on is as that request read it.
ReadCurrent ==
  \A h \in InFlight :
    LET r == request[h] IN
    /\ r.op = "upsert" /\ r.seen # Null /\ r.section \notin overlapped
    => r.seen = setting[r.section]

\* One request at a time on the settings: it makes the first row or writes it.
RowsOK ==
  "row" \notin overlapped =>
    /\ \A h \in InFlight : request[h].op = "createRow" => row = << >>
    /\ \A h \in InFlight : request[h].op = "writeRow" => request[h].row = 1 /\ row # << >>
    /\ asked # Null => row # << >> /\ row[1] = asked

IInv == ShapeOK /\ ReadCurrent /\ RowsOK /\ StaleExplained

-----------------------------------------------------------------------------
(* The steps, by what they do to the requests.                              *)

\* Request g goes on, with what it holds perhaps out of date.
Kept(g) ==
  \/ request'[g] = request[g]
  \/ IsStore(request[g]) /\ request'[g] = [request[g] EXCEPT !.view = "stale"]

\* Handler h ends its request or goes on with it, or takes up one that works
\* on nothing; the other requests go on.
StepOf(h) ==
  /\ DOMAIN request' = Handlers
  /\ overlapped' = overlapped
  /\ InFlight' \subseteq InFlight \cup {h}
  /\ \A g \in InFlight \ {h} : Kept(g)
  /\ h \in InFlight' =>
       /\ IsRequest(request'[h])
       /\ \/ request'[h].on = {}
          \/ h \in InFlight /\ request'[h].on = request[h].on

StartOf(h, r) ==
  /\ DOMAIN request' = Handlers
  /\ request[h] = Null /\ request'[h] = r /\ IsRequest(r)
  /\ overlapped \subseteq overlapped'
  /\ \A g \in InFlight : r.on \cap request[g].on \subseteq overlapped'
  /\ \A g \in Handlers \ {h} : request'[g] = request[g]

LEMMA KeptKeeps ==
  ASSUME ShapeOK, NEW g \in InFlight, Kept(g)
  PROVE  /\ request'[g].op = request[g].op
         /\ request'[g].on = request[g].on
         /\ IsRequest(request'[g])
         /\ request[g].op # "store" => request'[g] = request[g]
         /\ IsStore(request[g]) => IsStore(request'[g]) /\ request'[g].key = request[g].key
<1>1. CASE request'[g] = request[g]
  BY <1>1 DEF ShapeOK, IsStore
<1>2. ASSUME IsStore(request[g]), request'[g] = [request[g] EXCEPT !.view = "stale"]
      PROVE  /\ request'[g] = [op |-> "store", on |-> {}, key |-> request[g].key, view |-> "stale"]
             /\ request[g].op = "store" /\ request[g].on = {} /\ request[g].key \in Keys
  BY <1>2 DEF IsStore
<1>3. CASE IsStore(request[g]) /\ request'[g] = [request[g] EXCEPT !.view = "stale"]
  BY <1>2, <1>3 DEF IsStore, IsRequest
<1> QED  BY <1>1, <1>3 DEF Kept

LEMMA RequestOfOp ==
  ASSUME NEW r, IsRequest(r)
  PROVE  /\ r.op = "store" => IsStore(r)
         /\ r.op = "invalidate" => IsInvalidate(r)
         /\ r.op \in RowOps => IsRow(r) /\ r.on = {"row"}
         /\ r.op \in SectionOps => IsSection(r)
<1>1. IsStore(r) => r.op = "store"
  BY DEF IsStore
<1>2. IsInvalidate(r) => r.op = "invalidate"
  BY DEF IsInvalidate, Deletion
<1>3. IsRow(r) => r.op \in RowOps /\ r.on = {"row"}
  BY DEF IsRow
<1>4. IsSection(r) => r.op \in SectionOps
  BY DEF IsSection, Patch, SectionOps
<1> QED  BY <1>1, <1>2, <1>3, <1>4 DEF IsRequest, RowOps, SectionOps

LEMMA BeginStarts ==
  ASSUME ShapeOK, NEW h \in Handlers, NEW r, IsRequest(r), Begin(h, r)
  PROVE  StartOf(h, r)
BY DEF ShapeOK, Begin, StartOf, InFlight

LEMMA StepShape ==
  ASSUME ShapeOK, NEW h, StepOf(h), DOMAIN cache' = Keys,
         setting' \in [Sections -> [Fields -> Values \cup {Null}]], row' \in Seq(Fees)
  PROVE  ShapeOK'
<1>1. ASSUME NEW g \in InFlight' PROVE IsRequest(request'[g])
  BY <1>1, KeptKeeps DEF StepOf
<1>2. ASSUME NEW f \in InFlight', NEW g \in InFlight', f # g
      PROVE  request'[f].on \cap request'[g].on \subseteq overlapped
  <2>1. \A e \in InFlight' : request'[e].on = {} \/ (e \in InFlight /\ request'[e].on = request[e].on)
    BY KeptKeeps DEF StepOf
  <2> QED  BY <1>2, <2>1 DEF ShapeOK
<1> QED  BY <1>1, <1>2 DEF ShapeOK, StepOf

LEMMA StartShape ==
  ASSUME ShapeOK, NEW h \in Handlers, NEW r, StartOf(h, r), UNCHANGED cacheVars
  PROVE  ShapeOK'
<1>1. \A g \in InFlight' \ {h} : g \in InFlight /\ request'[g] = request[g]
  BY DEF StartOf, InFlight
<1>2. \A g \in InFlight' : IsRequest(request'[g])
  BY <1>1 DEF StartOf, ShapeOK
<1>3. \A f, g \in InFlight' : f # g => request'[f].on \cap request'[g].on \subseteq overlapped'
  BY <1>1 DEF StartOf, ShapeOK
<1> QED  BY <1>2, <1>3 DEF ShapeOK, StartOf, cacheVars

-----------------------------------------------------------------------------
(* What a step of handler h leaves alone.                                   *)
LEMMA ReadKept ==
  ASSUME ShapeOK, ReadCurrent, NEW h, StepOf(h), UNCHANGED setting,
         h \in InFlight' /\ request'[h].op = "upsert" =>
           \/ request'[h].seen \in {Null, setting[request'[h].section]}
           \/ Kept(h) /\ h \in InFlight
  PROVE  ReadCurrent'
BY KeptKeeps DEF ReadCurrent, StepOf

LEMMA RowsKept ==
  ASSUME ShapeOK, RowsOK, NEW h, StepOf(h), UNCHANGED <<row, asked>>,
         h \in InFlight' => request'[h].op \notin RowOps \/ (Kept(h) /\ h \in InFlight)
  PROVE  RowsOK'
<1>1. \A g \in InFlight' : request'[g].op \in RowOps =>
        g \in InFlight /\ request'[g] = request[g]
  BY KeptKeeps DEF StepOf, RowOps
<1> QED  BY <1>1 DEF RowsOK, StepOf, RowOps

Drops(h, k) ==
  /\ h \in InFlight
  /\ \/ Doing(h, "invalidate") /\ k \in request[h].drops
     \/ Doing(h, "dropBootstrap") /\ k = "bootstrap"

LEMMA DropperKept ==
  ASSUME ShapeOK, NEW h, StepOf(h), NEW k, AboutToDrop(k), ~Drops(h, k) \/ Kept(h)
  PROVE  AboutToDrop(k)'
<1>1. PICK g \in InFlight : Drops(g, k)
  BY DEF AboutToDrop, Drops, Doing, InFlight
<1>2. request'[g] = request[g]
  BY <1>1, KeptKeeps DEF StepOf, Drops, Doing
<1> QED  BY <1>1, <1>2 DEF AboutToDrop, Drops, Doing, InFlight

LEMMA StaleKept ==
  ASSUME ShapeOK, StaleExplained, NEW h, StepOf(h), DOMAIN cache' = Keys,
         "moved" \in overtaken \ overtaken' => cache'["categories"] # "stale",
         \A k \in Keys : /\ cache'[k] = "stale"
                         /\ k \notin overtaken'
                         => \/ AboutToDrop(k)'
                            \/ /\ cache[k] = "stale" /\ k \notin overtaken
                               /\ ~Drops(h, k) \/ Kept(h)
  PROVE  StaleExplained'
<1> SUFFICES ASSUME NEW k \in Keys, k \notin overtaken', cache'[k] = "stale", ~AboutToDrop(k)'
             PROVE  k = "categories" /\ "moved" \in overtaken'
  BY DEF StaleExplained
<1>1. cache[k] = "stale" /\ k \notin overtaken /\ (~Drops(h, k) \/ Kept(h))
  OBVIOUS
<1>2. k = "categories" /\ "moved" \in overtaken
  BY <1>1, DropperKept DEF StaleExplained
<1> QED  BY <1>2

-----------------------------------------------------------------------------
(* Handler h begins a request.                                              *)
LEMMA StartKeeps ==
  ASSUME IInv, NEW h \in Handlers, NEW r, IsRequest(r), Begin(h, r), UNCHANGED cacheVars,
         r.op = "upsert" => r.seen = Null,
         r.op = "createRow" => row = << >>,
         r.op = "writeRow" => row # << >> /\ r.row = 1
  PROVE  IInv'
<1> USE DEF IInv
<1>1. StartOf(h, r)
  BY BeginStarts
<1>2. /\ InFlight' \subseteq InFlight \cup {h} /\ request'[h] = r
      /\ \A g \in InFlight' \ {h} : g \in InFlight /\ request'[g] = request[g]
      /\ \A g \in InFlight : g # h /\ g \in InFlight' /\ request'[g] = request[g]
      /\ overlapped \subseteq overlapped'
  BY <1>1 DEF StartOf, InFlight
<1>3. ShapeOK'
  BY <1>1, StartShape
<1>4. ReadCurrent'
  BY <1>2 DEF ReadCurrent, cacheVars
<1>5. RowsOK'
  BY <1>2 DEF RowsOK, cacheVars
<1>6. \A k \in Keys : AboutToDrop(k) => AboutToDrop(k)'
  BY <1>2 DEF AboutToDrop, Doing, InFlight
<1>7. StaleExplained'
  BY <1>6 DEF StaleExplained, cacheVars
<1> QED  BY <1>3, <1>4, <1>5, <1>7

-----------------------------------------------------------------------------
(* Handler h ends a request, or goes on, without touching what others hold. *)
LEMMA GoOnSteps ==
  ASSUME ShapeOK, NEW h \in InFlight, NEW r, GoOn(h, r),
         r = Null \/ (IsRequest(r) /\ r.on = request[h].on)
  PROVE  StepOf(h) /\ request'[h] = r
BY DEF ShapeOK, GoOn, StepOf, Kept, InFlight

LEMMA StoreViewKeeps ==
  ASSUME IInv, NEW h \in Handlers, StoreView(h)
  PROVE  IInv'
<1> USE DEF IInv
<1>1. h \in InFlight /\ StepOf(h) /\ request'[h] = Null /\ h \notin InFlight' /\ IsStore(request[h])
  BY GoOnSteps, RequestOfOp DEF StoreView, Doing, End, InFlight, ShapeOK
<1>2. DOMAIN cache' = Keys /\ UNCHANGED <<setting, row, asked>>
  BY DEF StoreView, ShapeOK
<1>3. /\ "moved" \in overtaken => "moved" \in overtaken'
      /\ \A k \in Keys : cache'[k] = "stale" /\ k \notin overtaken' =>
           cache[k] = "stale" /\ k \notin overtaken /\ ~Drops(h, k)
  BY <1>1 DEF StoreView, ShapeOK, IsStore, Drops, Doing, Keys
<1> QED
  BY <1>1, <1>2, <1>3, StepShape, ReadKept, RowsKept, StaleKept DEF ShapeOK

LEMMA InvalidateKeeps ==
  ASSUME IInv, NEW h \in Handlers, Invalidate(h)
  PROVE  IInv'
<1> USE DEF IInv
<1>1. h \in InFlight /\ StepOf(h) /\ request'[h] = Null /\ h \notin InFlight'
  BY GoOnSteps DEF Invalidate, Doing, End, InFlight, ShapeOK
<1>2. DOMAIN cache' = Keys /\ UNCHANGED <<setting, row, asked>>
  BY DEF Invalidate, Drop
<1>3. /\ "moved" \in overtaken \ overtaken' => cache'["categories"] # "stale"
      /\ \A k \in Keys : cache'[k] = "stale" /\ k \notin overtaken' =>
           cache[k] = "stale" /\ k \notin overtaken /\ ~Drops(h, k)
  <2>1. request[h].op = "invalidate" /\ IsInvalidate(request[h])
    BY RequestOfOp DEF Invalidate, Doing, ShapeOK, InFlight
  <2> QED  BY <2>1, CacheAssumption DEF Invalidate, Drop, Drops, Doing, Keys, IsInvalidate, Deletion
<1> QED
  BY <1>1, <1>2, <1>3, StepShape, ReadKept, RowsKept, StaleKept DEF ShapeOK

LEMMA AbandonKeeps ==
  ASSUME IInv, NEW h \in Handlers, AbandonWrite(h)
  PROVE  IInv'
<1> USE DEF IInv
<1>1. h \in InFlight /\ StepOf(h) /\ request'[h] = Null /\ h \notin InFlight'
  BY GoOnSteps DEF AbandonWrite, Abandon, End, InFlight, ShapeOK
<1>2. UNCHANGED <<cache, setting, row, asked>> /\ overtaken \subseteq overtaken'
  BY DEF AbandonWrite
<1>3. \A k \in Keys : cache'[k] = "stale" /\ k \notin overtaken' =>
        cache[k] = "stale" /\ k \notin overtaken /\ ~Drops(h, k)
  BY DEF AbandonWrite, Drops, Doing, Keys
<1> QED
  BY <1>1, <1>2, <1>3, StepShape, ReadKept, RowsKept, StaleKept DEF ShapeOK

LEMMA ReadSectionKeeps ==
  ASSUME IInv, NEW h \in Handlers, ReadSection(h)
  PROVE  IInv'
<1> USE DEF IInv
<1> DEFINE r == request[h]
           q == [r EXCEPT !.op = "upsert", !.seen = setting[r.section]]
<1>1. h \in InFlight /\ IsSection(r)
  BY RequestOfOp DEF ReadSection, Doing, InFlight, ShapeOK, SectionOps
<1>2. IsSection(q) /\ q.on = r.on /\ q.op = "upsert" /\ q.seen = setting[q.section]
  BY <1>1 DEF IsSection, SectionOps, Patch, ShapeOK
<1>3. StepOf(h) /\ request'[h] = q
  BY <1>1, <1>2, GoOnSteps DEF ReadSection, IsRequest
<1>4. ~\E k : Drops(h, k)
  BY DEF ReadSection, Drops, Doing
<1> HIDE DEF q
<1>5. ShapeOK' /\ ReadCurrent' /\ RowsOK'
  BY <1>2, <1>3, StepShape, ReadKept, RowsKept DEF ReadSection, cacheVars, ShapeOK, RowOps
<1>6. StaleExplained'
  BY <1>3, <1>4, StaleKept DEF ReadSection, cacheVars, ShapeOK
<1> QED  BY <1>5, <1>6

LEMMA NextSectionKeeps ==
  ASSUME IInv, NEW h \in Handlers, NextSection(h)
  PROVE  IInv'
<1> USE DEF IInv
<1> DEFINE r == request[h]
           q(s) == [r EXCEPT !.op = IF r.seen = Null THEN "upsert" ELSE "readSection",
                             !.section = s, !.more = @ \ {s}]
<1>1. h \in InFlight /\ IsSection(r) /\ r.op = "dropBootstrap"
  BY RequestOfOp DEF NextSection, Doing, InFlight, ShapeOK, SectionOps
<1>2. ASSUME NEW s \in r.more
      PROVE  /\ IsSection(q(s)) /\ q(s).on = r.on
             /\ q(s).op = "upsert" => q(s).seen = Null
  BY <1>1 DEF IsSection, SectionOps, Patch, ShapeOK
<1>3. \/ GoOn(h, Null)
      \/ \E s \in r.more : GoOn(h, q(s))
  BY DEF NextSection, End
<1> HIDE DEF q
<1>4. /\ StepOf(h)
      /\ h \in InFlight' => \E s \in r.more : request'[h] = q(s)
  <2>1. CASE GoOn(h, Null)
    BY <1>1, <2>1, GoOnSteps DEF InFlight
  <2>2. ASSUME NEW s \in r.more, GoOn(h, q(s)) PROVE StepOf(h) /\ request'[h] = q(s)
    BY <1>1, <1>2, <2>2, GoOnSteps DEF IsRequest
  <2> QED  BY <1>3, <2>1, <2>2
<1>5. ASSUME h \in InFlight'
      PROVE  /\ request'[h].op \in SectionOps
             /\ request'[h].op = "upsert" =>
                  request'[h].seen \in {Null, setting[request'[h].section]}
  BY <1>2, <1>4, <1>5 DEF IsSection, Patch, SectionOps
<1>6. /\ DOMAIN cache' = Keys /\ UNCHANGED <<setting, row, asked>>
      /\ "moved" \in overtaken => "moved" \in overtaken'
      /\ \A k \in Keys : cache'[k] = "stale" /\ k \notin overtaken' =>
           cache[k] = "stale" /\ k \notin overtaken /\ ~Drops(h, k)
  BY <1>1, CacheAssumption DEF NextSection, Drop, Drops, Doing, Keys
<1>7. ShapeOK'
  BY <1>4, <1>6, StepShape DEF ShapeOK
<1>8. RowsOK'
  <2>1. h \in InFlight' => request'[h].op \notin RowOps
    BY <1>5 DEF RowOps, SectionOps
  <2>2. UNCHANGED <<row, asked>>
    BY <1>6
  <2> QED  BY <1>4, <2>1, <2>2, RowsKept
<1>9. ReadCurrent'
  BY <1>4, <1>5, <1>6, ReadKept
<1> QED  BY <1>4, <1>6, <1>7, <1>8, <1>9, StaleKept

LEMMA CreateRowKeeps ==
  ASSUME IInv, NEW h \in Handlers, NEW default \in Fees, CreateRow(h, default)
  PROVE  IInv'
<1> USE DEF IInv
<1> DEFINE r == request[h]
           q == [r EXCEPT !.op = "writeRow", !.row = Len(row) + 1]
<1>1. h \in InFlight /\ IsRow(r) /\ r.op = "createRow"
  BY RequestOfOp DEF CreateRow, Doing, InFlight, ShapeOK, RowOps
<1>2. IsRow(q) /\ q.on = r.on /\ q.op = "writeRow" /\ q.row = Len(row) + 1
  BY <1>1 DEF IsRow, RowOps
<1>3. StepOf(h) /\ request'[h] \in {Null, q}
  <2>1. CASE r.value = Null
    BY <1>1, <2>1, GoOnSteps DEF CreateRow, End
  <2>2. CASE r.value # Null
    BY <1>1, <1>2, <2>2, GoOnSteps DEF CreateRow, IsRequest
  <2> QED  BY <2>1, <2>2
<1> HIDE DEF q
<1>4. /\ row \in Seq(Fees) /\ row' = Append(row, default) /\ row' \in Seq(Fees)
      /\ UNCHANGED <<cache, setting, asked, overtaken>>
  BY DEF CreateRow, ShapeOK
<1>5. \A k : ~Drops(h, k)
  BY DEF CreateRow, Drops, Doing
<1>6. ShapeOK' /\ ReadCurrent'
  BY <1>2, <1>3, <1>4, StepShape, ReadKept DEF ShapeOK, InFlight
<1>7. RowsOK'
  <2> SUFFICES ASSUME "row" \notin overlapped
               PROVE  /\ \A g \in InFlight' : request'[g].op # "createRow"
                      /\ \A g \in InFlight' : request'[g].op = "writeRow" => request'[g].row = 1 /\ row' # << >>
                      /\ asked = Null
    BY <1>3, <1>4 DEF RowsOK, StepOf
  <2>1. row = << >> /\ asked = Null
    BY <1>1 DEF RowsOK
  <2>2. row' # << >> /\ Len(row) + 1 = 1
    BY <1>4, <2>1
  <2>3. ASSUME NEW g \in InFlight', g # h, request'[g].op \in RowOps
        PROVE  FALSE
    <3>1. g \in InFlight /\ request'[g] = request[g]
      BY <1>3, <2>3, KeptKeeps DEF StepOf, RowOps
    <3>2. request[g].on = {"row"} /\ request[h].on = {"row"}
      BY <1>1, <2>3, <3>1, RequestOfOp DEF ShapeOK, IsRow
    <3> QED  BY <1>1, <2>3, <3>1, <3>2 DEF ShapeOK
  <2>4. h \in InFlight' => request'[h] = q
    BY <1>3 DEF InFlight
  <2> QED  BY <1>2, <2>1, <2>2, <2>3, <2>4 DEF RowOps
<1>8. StaleExplained'
  BY <1>3, <1>4, <1>5, StaleKept DEF ShapeOK
<1> QED  BY <1>6, <1>7, <1>8

-----------------------------------------------------------------------------
(* Handler h writes a row, and what is cached or held of it is old.         *)
LEMMA OutdateSteps ==
  ASSUME ShapeOK, NEW h \in Handlers, NEW ks, NEW r, IsRequest(r), r.op # "store",
         Outdate(ks, [request EXCEPT ![h] = r]),
         r.on = {} \/ (h \in InFlight /\ r.on = request[h].on)
  PROVE  /\ StepOf(h) /\ request'[h] = r
         /\ DOMAIN cache' = Keys
         /\ \A k \in Keys : cache'[k] = "stale" => cache[k] = "stale" \/ k \in ks
<1>1. /\ DOMAIN request' = Handlers /\ overlapped' = overlapped
      /\ DOMAIN cache' = Keys
      /\ \A k \in Keys : cache'[k] = "stale" => cache[k] = "stale" \/ k \in ks
  BY DEF Outdate
<1>2. request'[h] = r
  BY DEF Outdate, ShapeOK
<1>3. ASSUME NEW g \in Handlers \ {h}
      PROVE  /\ g \in InFlight => Kept(g)
             /\ g \notin InFlight => request'[g] = Null
  <2>1. \/ request'[g] = request[g]
        \/ /\ request[g] # Null /\ request[g].op = "store"
           /\ request'[g] = [request[g] EXCEPT !.view = "stale"]
    BY <1>3 DEF Outdate, ShapeOK
  <2> QED  BY <1>3, <2>1, RequestOfOp DEF Kept, InFlight, ShapeOK
<1> QED  BY <1>1, <1>2, <1>3 DEF StepOf, InFlight

LEMMA WriteCatalogueKeeps ==
  ASSUME IInv, NEW h \in Handlers, WriteCatalogue(h)
  PROVE  IInv'
<1> USE DEF IInv
<1> DEFINE q == Invalidating({"categories"})
<1>1. IsInvalidate(q) /\ q.op = "invalidate" /\ q.on = {} /\ q.drops = {"categories"}
  BY DEF Invalidating, Writer, IsInvalidate, Keys, Deletion
<1>2. Outdate({"categories"}, [request EXCEPT ![h] = q]) /\ UNCHANGED <<setting, row, asked, overtaken>>
  BY DEF WriteCatalogue
<1> HIDE DEF q
<1>3. /\ StepOf(h) /\ request'[h] = q
      /\ DOMAIN cache' = Keys
      /\ \A k \in Keys : cache'[k] = "stale" => cache[k] = "stale" \/ k \in {"categories"}
  BY <1>1, <1>2, OutdateSteps DEF IsRequest
<1>4. ShapeOK' /\ ReadCurrent' /\ RowsOK'
  BY <1>1, <1>2, <1>3, StepShape, ReadKept, RowsKept DEF ShapeOK, RowOps
<1>5. AboutToDrop("categories")'
  BY <1>1, <1>3, CacheAssumption DEF AboutToDrop, Doing, IsInvalidate
<1>6. ~\E k : Drops(h, k)
  BY DEF WriteCatalogue, Drops, Doing
<1> QED  BY <1>2, <1>3, <1>4, <1>5, <1>6, StaleKept

LEMMA MoveProductsKeeps ==
  ASSUME IInv, MoveProducts
  PROVE  IInv'
<1> USE DEF IInv
<1>1. ASSUME NEW g \in Handlers
      PROVE  /\ g \in InFlight => Kept(g)
             /\ g \notin InFlight => request'[g] = Null
  <2>1. \/ request'[g] = request[g]
        \/ /\ request[g] # Null /\ request[g].op = "store"
           /\ request'[g] = [request[g] EXCEPT !.view = "stale"]
    BY DEF Outdate, MoveProducts
  <2> QED  BY <2>1, RequestOfOp DEF Kept, InFlight, ShapeOK
<1>2. InFlight' \subseteq InFlight
  BY <1>1 DEF InFlight
<1>3. \A g : StepOf(g)
  BY <1>1, <1>2, KeptKeeps DEF StepOf, MoveProducts, Outdate, InFlight
<1>4. /\ UNCHANGED <<setting, row, asked>> /\ DOMAIN cache' = Keys
      /\ overtaken \subseteq overtaken'
      /\ \A k \in Keys : cache'[k] = "stale" => cache[k] = "stale" \/ k = "categories"
  BY DEF MoveProducts, Outdate
<1>5. ShapeOK' /\ ReadCurrent' /\ RowsOK'
  <2>1. \A g : g \in InFlight' => Kept(g) /\ g \in InFlight
    BY <1>1, <1>2 DEF InFlight
  <2>2. UNCHANGED setting /\ UNCHANGED <<row, asked>>
    BY <1>4
  <2> QED  BY <1>3, <1>4, <2>1, <2>2, StepShape, ReadKept, RowsKept DEF ShapeOK
<1>6. cache'["categories"] = "stale" => cache["categories"] = "stale" \/ "moved" \in overtaken'
  BY DEF MoveProducts, Outdate, ShapeOK, Keys
<1>7. ASSUME NEW g, NEW k PROVE ~Drops(g, k) \/ Kept(g)
  BY <1>1 DEF Drops, InFlight
<1>8. StaleExplained'
  <2> SUFFICES ASSUME NEW k \in Keys, k \notin overtaken', cache'[k] = "stale", ~AboutToDrop(k)'
               PROVE  k = "categories" /\ "moved" \in overtaken'
    BY DEF StaleExplained
  <2>1. ~AboutToDrop(k)
    BY <1>3, <1>7, DropperKept
  <2> QED  BY <1>4, <1>6, <2>1 DEF StaleExplained
<1> QED  BY <1>5, <1>8

LEMMA ExpireKeeps ==
  ASSUME IInv, NEW k \in Keys, Expire(k)
  PROVE  IInv'
<1> USE DEF IInv
<1>1. /\ UNCHANGED <<request, overlapped, setting, row, asked>>
      /\ InFlight' = InFlight
      /\ \A x : AboutToDrop(x)' = AboutToDrop(x)
  BY DEF Expire, requestVars, InFlight, AboutToDrop, Doing
<1>2. /\ DOMAIN cache' = Keys
      /\ \A x \in Keys : cache'[x] = "stale" => cache[x] = "stale" /\ x # k
      /\ overtaken' = (overtaken \ {k}) \ (IF k = "categories" THEN {"moved"} ELSE {})
  BY CacheAssumption DEF Expire, Drop
<1>3. ShapeOK' /\ ReadCurrent' /\ RowsOK'
  BY <1>1, <1>2 DEF ShapeOK, ReadCurrent, RowsOK
<1>4. StaleExplained'
  BY <1>1, <1>2 DEF StaleExplained, Keys
<1> QED  BY <1>3, <1>4

LEMMA WriteRowKeeps ==
  ASSUME IInv, NEW h \in Handlers, WriteRow(h)
  PROVE  IInv'
<1> USE DEF IInv
<1> DEFINE r == request[h]
           ks == {"settings", "bootstrap"}
           q == Invalidating(ks)
<1>1. h \in InFlight /\ IsRow(r) /\ r.op = "writeRow" /\ r.value \in Fees
  BY RequestOfOp DEF WriteRow, Doing, InFlight, ShapeOK, RowOps, IsRow
<1>2. IsInvalidate(q) /\ q.op = "invalidate" /\ q.on = {} /\ q.drops = ks
  BY DEF Invalidating, Writer, IsInvalidate, Keys, Deletion
<1>3. /\ Outdate(ks, [request EXCEPT ![h] = q]) /\ UNCHANGED <<setting, overtaken>>
      /\ row' = [row EXCEPT ![r.row] = r.value] /\ asked' = r.value
  BY DEF WriteRow
<1> HIDE DEF q, ks
<1>4. /\ StepOf(h) /\ request'[h] = q
      /\ DOMAIN cache' = Keys
      /\ \A k \in Keys : cache'[k] = "stale" => cache[k] = "stale" \/ k \in ks
  BY <1>2, <1>3, OutdateSteps DEF IsRequest
<1>5. row \in Seq(Fees) /\ row' \in Seq(Fees) /\ Len(row') = Len(row)
  <2>1. row \in Seq(Fees) /\ Len(row) \in Nat /\ row \in [1..Len(row) -> Fees]
    BY DEF ShapeOK
  <2>2. row' \in [1..Len(row) -> Fees]
    BY <1>1, <1>3, <2>1
  <2>3. row' \in Seq(Fees)
    BY <2>1, <2>2
  <2> QED  BY <2>1, <2>2, <2>3
<1>6. ShapeOK' /\ ReadCurrent'
  BY <1>2, <1>3, <1>4, <1>5, StepShape, ReadKept DEF ShapeOK
<1>7. RowsOK'
  <2> SUFFICES ASSUME "row" \notin overlapped
               PROVE  /\ \A g \in InFlight' : request'[g].op \notin RowOps
                      /\ row' # << >> /\ row'[1] = asked'
    BY <1>4 DEF RowsOK, StepOf, RowOps
  <2>1. r.row = 1 /\ row # << >>
    BY <1>1 DEF RowsOK
  <2>2. row' # << >> /\ row'[1] = asked'
    BY <1>3, <1>5, <2>1
  <2>3. ASSUME NEW g \in InFlight', g # h, request'[g].op \in RowOps
        PROVE  FALSE
    <3>1. g \in InFlight /\ request'[g] = request[g]
      BY <1>4, <2>3, KeptKeeps DEF StepOf, RowOps
    <3>2. request[g].on = {"row"} /\ request[h].on = {"row"}
      BY <1>1, <2>3, <3>1, RequestOfOp DEF ShapeOK, IsRow
    <3> QED  BY <1>1, <2>3, <3>1, <3>2 DEF ShapeOK
  <2>4. request'[h].op \notin RowOps
    BY <1>2, <1>4 DEF RowOps
  <2> QED  BY <2>2, <2>3, <2>4
<1>8. \A k \in ks : AboutToDrop(k)'
  BY <1>2, <1>4, CacheAssumption DEF AboutToDrop, Doing, IsInvalidate
<1>9. \A k : ~Drops(h, k)
  BY DEF WriteRow, Drops, Doing
<1>10. StaleExplained'
  BY <1>3, <1>4, <1>8, <1>9, StaleKept
<1> QED  BY <1>6, <1>7, <1>10

LEMMA UpsertKeeps ==
  ASSUME IInv, NEW h \in Handlers, Upsert(h)
  PROVE  IInv'
<1> USE DEF IInv
<1> DEFINE r == request[h]
           q == [r EXCEPT !.op = "dropBootstrap"]
<1>1. h \in InFlight /\ IsSection(r) /\ r.op = "upsert"
  BY RequestOfOp DEF Upsert, Doing, InFlight, ShapeOK, SectionOps
<1>2. IsSection(q) /\ q.op = "dropBootstrap" /\ q.on = r.on
  BY <1>1 DEF IsSection, Patch
<1>3. /\ Outdate({"bootstrap"}, [request EXCEPT ![h] = q]) /\ UNCHANGED <<row, asked, overtaken>>
      /\ setting' = [setting EXCEPT ![r.section] = Merged(r)]
  BY DEF Upsert
<1> HIDE DEF q
<1>4. /\ StepOf(h) /\ request'[h] = q
      /\ DOMAIN cache' = Keys
      /\ \A k \in Keys : cache'[k] = "stale" => cache[k] = "stale" \/ k \in {"bootstrap"}
  BY <1>1, <1>2, <1>3, OutdateSteps DEF IsRequest
<1>5. Merged(r) \in [Fields -> Values \cup {Null}] /\ r.section \in Sections
  BY <1>1 DEF IsSection, Patch, Merged
<1>6. setting' \in [Sections -> [Fields -> Values \cup {Null}]]
  BY <1>3, <1>5 DEF ShapeOK
<1>7. ShapeOK'
  BY <1>3, <1>4, <1>6, StepShape DEF ShapeOK
<1>8. RowsOK'
  <2>1. request'[h].op \notin RowOps /\ UNCHANGED <<row, asked>>
    BY <1>2, <1>3, <1>4 DEF RowOps
  <2> QED  BY <1>4, <2>1, RowsKept
<1>9. ReadCurrent'
  <2> SUFFICES ASSUME NEW g \in InFlight', NEW p, p = request'[g], p.op = "upsert",
                      p.seen # Null, p.section \notin overlapped
               PROVE  p.seen = setting'[p.section]
    BY <1>4 DEF ReadCurrent, StepOf
  <2>1. g # h
    BY <1>2, <1>4
  <2>2. g \in InFlight /\ p = request[g]
    BY <1>4, <2>1, KeptKeeps DEF StepOf
  <2>3. p.section \in p.on /\ p.section \in Sections
    BY <2>2, RequestOfOp DEF ShapeOK, IsSection, SectionOps, Patch
  <2>4. p.section # r.section
    BY <1>1, <2>1, <2>2, <2>3 DEF ShapeOK, IsSection
  <2>5. p.seen = setting[p.section]
    BY <2>2 DEF ReadCurrent
  <2> QED  BY <1>3, <2>3, <2>4, <2>5 DEF ShapeOK
<1>10. AboutToDrop("bootstrap")'
  BY <1>2, <1>4, CacheAssumption DEF AboutToDrop, Doing, IsSection
<1>11. \A k : ~Drops(h, k)
  BY DEF Upsert, Drops, Doing
<1>12. StaleExplained'
  BY <1>3, <1>4, <1>10, <1>11, StaleKept
<1> QED  BY <1>7, <1>8, <1>9, <1>12

-----------------------------------------------------------------------------
LEMMA InitHolds == CachesInit /\ RequestsInit => IInv
BY CacheAssumption DEF CachesInit, RequestsInit, IInv, ShapeOK, ReadCurrent, RowsOK,
   StaleExplained, InFlight

LEMMA StepKeeps == IInv /\ [CachesNext]_<<requestVars, cacheVars>> => IInv'
<1> SUFFICES ASSUME IInv, [CachesNext]_<<requestVars, cacheVars>> PROVE IInv'
  OBVIOUS
<1>1. ASSUME NEW h \in Handlers, NEW k \in Keys, Load(h, k)
      PROVE  IInv'
  <2> DEFINE r == [op |-> "store", on |-> {}, key |-> k, view |-> "fresh"]
  <2>1. IsStore(r) /\ r.op = "store"
    BY DEF IsStore
  <2> QED  BY <1>1, <2>1, StartKeeps DEF Load, IsRequest
<1>2. ASSUME NEW h \in Handlers, NEW v \in Fees \cup {Null}, BeginSettings(h, v)
      PROVE  IInv'
  <2> DEFINE r == [op |-> IF row = << >> THEN "createRow" ELSE "writeRow",
                   on |-> {"row"}, row |-> 1, value |-> v]
  <2>1. /\ IsRow(r) /\ r.op # "upsert" /\ r.row = 1
        /\ r.op = "createRow" => row = << >>
        /\ r.op = "writeRow" => row # << >>
    BY DEF IsRow, RowOps
  <2>2. Begin(h, r) /\ UNCHANGED cacheVars
    BY <1>2 DEF BeginSettings
  <2> HIDE DEF r
  <2> QED  BY <2>1, <2>2, StartKeeps DEF IsRequest
<1>3. ASSUME NEW h \in Handlers, NEW s \in Sections, NEW more \in SUBSET (Sections \ {s}),
             NEW f \in Fields, NEW v \in Values, NEW merge \in BOOLEAN,
             BeginPatch(h, s, f, v, merge, more)
      PROVE  IInv'
  <2> DEFINE r == [op |-> IF merge THEN "readSection" ELSE "upsert", on |-> {s} \cup more,
                   section |-> s, more |-> more, field |-> f, value |-> v, seen |-> Null]
  <2>1. IsSection(r) /\ r.op \notin {"createRow", "writeRow"} /\ r.seen = Null
    BY DEF IsSection, Patch
  <2>2. Begin(h, r) /\ UNCHANGED cacheVars
    BY <1>3 DEF BeginPatch
  <2> HIDE DEF r
  <2> QED  BY <2>1, <2>2, StartKeeps DEF IsRequest
<1>4. ASSUME NEW ks \in SUBSET Keys, ReadThrough(ks)
      PROVE  IInv'
  BY <1>1, <1>4, StoreViewKeeps, InvalidateKeeps, AbandonKeeps, ExpireKeeps DEF ReadThrough
<1>5. ASSUME CatalogueNext PROVE IInv'
  BY <1>4, <1>5, MoveProductsKeeps, WriteCatalogueKeeps DEF CatalogueNext, Keys
<1>6. ASSUME SettingsNext PROVE IInv'
  BY <1>2, <1>4, <1>6, CreateRowKeeps, WriteRowKeeps DEF SettingsNext, Keys
<1>7. ASSUME SectionsNext PROVE IInv'
  BY <1>3, <1>7, ReadSectionKeeps, UpsertKeeps, NextSectionKeeps, AbandonKeeps DEF SectionsNext
<1>8. CASE UNCHANGED <<requestVars, cacheVars>>
  BY <1>8 DEF IInv, ShapeOK, ReadCurrent, RowsOK, StaleExplained, AboutToDrop, Doing, InFlight,
              requestVars, cacheVars
<1> QED  BY <1>5, <1>6, <1>7, <1>8 DEF CachesNext

LEMMA Invariance == CachesSpec => []IInv
BY InitHolds, StepKeeps, PTL DEF CachesSpec

\* A cached answer is old only while its writer is about to delete it, or for
\* one of the named reasons (delivery.service.ts, admin-settings.service.ts,
\* categories.service.ts).
THEOREM CachesExplained == CachesSpec => []StaleExplained
<1>1. IInv => StaleExplained
  BY DEF IInv
<1> QED  BY <1>1, Invariance, PTL

\* What the last update of the delivery settings gave is what is read, unless
\* two requests on the row overlap.
THEOREM SettingsFollow == CachesSpec => []SettingsRead
<1>1. IInv => SettingsRead
  BY DEF IInv, RowsOK, SettingsRead
<1> QED  BY <1>1, Invariance, PTL

\* A merged patch keeps the fields that it does not name, unless another
\* request writes the section meanwhile (AdminSettingsService.patch).
THEOREM PatchesMerge == CachesSpec => MergeKeepsOthers
<1>1. ASSUME IInv, CachesNext, NEW s \in Sections, NEW f \in Fields,
             setting'[s][f] # setting[s][f], s \notin overlapped
      PROVE  \E h \in Handlers : /\ Doing(h, "upsert") /\ request[h].section = s
                                 /\ request[h].field = f \/ request[h].seen = Null
  <2>1. PICK h \in Handlers : Upsert(h)
    BY <1>1 DEF CachesNext, CatalogueNext, SettingsNext, SectionsNext, ReadThrough, Load,
         StoreView, Invalidate, AbandonWrite, Expire, MoveProducts, WriteCatalogue, BeginSettings,
         CreateRow, WriteRow, BeginPatch, ReadSection, NextSection, cacheVars
  <2>2. h \in InFlight /\ Doing(h, "upsert") /\ request[h].op = "upsert"
    BY <2>1 DEF Upsert, Doing, InFlight
  <2>3. /\ setting \in [Sections -> [Fields -> Values \cup {Null}]]
        /\ setting' = [setting EXCEPT ![request[h].section] = Merged(request[h])]
    BY <1>1, <2>1 DEF Upsert, IInv, ShapeOK
  <2>4. request[h].section = s
    BY <1>1, <2>3
  <2>5. setting'[s][f] = Merged(request[h])[f]
    BY <2>3, <2>4
  <2>6. request[h].field = f \/ request[h].seen = Null
    BY <1>1, <2>2, <2>4, <2>5 DEF Merged, IInv, ReadCurrent
  <2> QED  BY <2>2, <2>4, <2>6
<1>2. IInv /\ [CachesNext]_<<requestVars, cacheVars>> =>
        [\A s \in Sections : \A f \in Fields :
           setting'[s][f] # setting[s][f] /\ s \notin overlapped =>
             \E h \in Handlers :
               /\ Doing(h, "upsert") /\ request[h].section = s
               /\ request[h].field = f \/ request[h].seen = Null]_<<requestVars, cacheVars>>
  BY <1>1
<1> QED  BY <1>2, Invariance, PTL DEF CachesSpec, MergeKeepsOthers
=============================================================================
