----------------------------- MODULE PublicCaches -----------------------------
(* The three answers that Redis keeps for a minute - categories:public,     *)
(* settings:public and bootstrap:v1 - and the rows behind the last two:     *)
(* delivery.service.ts, bootstrap.service.ts, admin-settings.service.ts,    *)
(* and CategoriesService.listPublic. What a cache holds is told apart only  *)
(* by whether the rows have been written since they were read.              *)
EXTENDS Requests, Sequences

CONSTANTS
  Sections, Fields,  \* of the bootstrap settings
  Values,            \* what a field may be set to
  Fees               \* what a settings row may hold

Keys == {"categories", "settings", "bootstrap"}

\* What a request that patches sections carries, and one that is about to
\* delete keys.
Patch == [op : {"readSection", "upsert", "dropBootstrap"}, on : SUBSET Sections,
          section : Sections, more : SUBSET Sections, field : Fields, value : Values,
          seen : [Fields -> Values \cup {Null}] \cup {Null}]
Deletion == [op : {"invalidate"}, on : {{}}, drops : SUBSET Keys]

ASSUME CacheAssumption ==
  Null \notin {"fresh", "stale"} /\ Null \notin Patch /\ Null \notin Deletion

VARIABLES
  cache,    \* key -> Null, "fresh" or "stale"
  setting,  \* section -> field -> value, or Null: never set
  row,      \* the values of the settings rows, the oldest first
  asked,    \* history: the value the last settings update gave, or Null
  overtaken \* history: the keys that an interrupted or overtaken request left
            \* stale; "moved", when a move of products did

cacheVars == <<cache, setting, row, asked, overtaken>>

CachesInit ==
  /\ cache = [k \in Keys |-> Null]
  /\ setting = [s \in Sections |-> [f \in Fields |-> Null]]
  /\ row = << >>
  /\ asked = Null
  /\ overtaken = {}

\* The rows behind `ks` are written: what was read of them is old. `next` is
\* how the requests go on otherwise.
Outdate(ks, next) ==
  /\ cache' = [k \in Keys |-> IF k \in ks /\ cache[k] = "fresh" THEN "stale" ELSE cache[k]]
  /\ request' = [h \in Handlers |->
       IF next[h] # Null /\ next[h].op = "store" /\ next[h].key \in ks
       THEN [next[h] EXCEPT !.view = "stale"] ELSE next[h]]
  /\ UNCHANGED overlapped

Drop(ks) ==
  /\ cache' = [k \in Keys |-> IF k \in ks THEN Null ELSE cache[k]]
  /\ overtaken' = (overtaken \ ks) \ (IF "categories" \in ks THEN {"moved"} ELSE {})

Writer(op, on, drops) == [op |-> op, on |-> on, drops |-> drops]
Invalidating(drops) == Writer("invalidate", {}, drops)

-----------------------------------------------------------------------------
(* Reading through a cache. *)
Load(h, k) ==
  /\ cache[k] = Null
  /\ k # "categories" => row # << >>
  /\ Begin(h, [op |-> "store", on |-> {}, key |-> k, view |-> "fresh"])
  /\ UNCHANGED cacheVars

StoreView(h) ==
  LET r == request[h] IN
  /\ Doing(h, "store")
  /\ cache' = [cache EXCEPT ![r.key] = r.view]
  /\ overtaken' = IF r.view = "stale" THEN overtaken \cup {r.key} ELSE overtaken \ {r.key}
  /\ End(h)
  /\ UNCHANGED <<setting, row, asked>>

\* After 60 s.
Expire(k) ==
  /\ cache[k] # Null
  /\ Drop({k})
  /\ UNCHANGED <<requestVars, setting, row, asked>>

\* A writer is done when it has deleted the keys.
Invalidate(h) ==
  /\ Doing(h, "invalidate")
  /\ Drop(request[h].drops)
  /\ End(h)
  /\ UNCHANGED <<setting, row, asked>>

-----------------------------------------------------------------------------
(* A write of a category or a product; and the move of products to another  *)
(* category, which deletes no key.                                          *)
WriteCatalogue(h) ==
  /\ request[h] = Null
  /\ Outdate({"categories"}, [request EXCEPT ![h] = Invalidating({"categories"})])
  /\ UNCHANGED <<setting, row, asked, overtaken>>

MoveProducts ==
  /\ Outdate({"categories"}, request)
  /\ overtaken' = IF cache["categories"] = "fresh" THEN overtaken \cup {"moved"}
                  ELSE overtaken
  /\ UNCHANGED <<setting, row, asked>>

-----------------------------------------------------------------------------
(* Delivery and pickup settings: the oldest row, made if there is none.     *)
BeginSettings(h, v) ==
  /\ Begin(h, [op |-> IF row = << >> THEN "createRow" ELSE "writeRow",
               on |-> {"row"}, row |-> 1, value |-> v])
  /\ UNCHANGED cacheVars

\* Faulty: a row made for every update.
CreateRowFirst(h, default) ==
  LET r == request[h] IN
  /\ Doing(h, "createRow")
  /\ row' = Append(row, default)
  /\ IF r.value = Null THEN End(h)
     ELSE GoOn(h, [r EXCEPT !.op = "writeRow", !.row = Len(row)])
  /\ UNCHANGED <<cache, setting, asked, overtaken>>

\* The request goes on with the row that it made; v = Null is a reader.
CreateRow(h, default) ==
  LET r == request[h] IN
  /\ Doing(h, "createRow")
  /\ row' = Append(row, default)
  /\ IF r.value = Null THEN End(h)
     ELSE GoOn(h, [r EXCEPT !.op = "writeRow", !.row = Len(row) + 1])
  /\ UNCHANGED <<cache, setting, asked, overtaken>>

\* Faulty: an update of the settings that forgets the bootstrap answer.
WriteRowOnly(h) ==
  LET r == request[h] IN
  /\ Doing(h, "writeRow")
  /\ r.value # Null
  /\ row' = [row EXCEPT ![r.row] = r.value]
  /\ asked' = r.value
  /\ Outdate({"settings", "bootstrap"}, [request EXCEPT ![h] = Invalidating({"settings"})])
  /\ UNCHANGED <<setting, overtaken>>

WriteRow(h) ==
  LET r == request[h] IN
  /\ Doing(h, "writeRow")
  /\ r.value # Null
  /\ row' = [row EXCEPT ![r.row] = r.value]
  /\ asked' = r.value
  /\ Outdate({"settings", "bootstrap"},
             [request EXCEPT ![h] = Invalidating({"settings", "bootstrap"})])
  /\ UNCHANGED <<setting, overtaken>>

-----------------------------------------------------------------------------
(* Bootstrap settings: sections one after the other, each read, merged in   *)
(* memory and written whole, then the key deleted (after the last one twice). A PUT writes a section   *)
(* without reading.                                                         *)
BeginPatch(h, s, f, v, merge, more) ==
  /\ Begin(h, [op |-> IF merge THEN "readSection" ELSE "upsert", on |-> {s} \cup more,
               section |-> s, more |-> more, field |-> f, value |-> v, seen |-> Null])
  /\ UNCHANGED cacheVars

ReadSection(h) ==
  LET r == request[h] IN
  /\ Doing(h, "readSection")
  /\ GoOn(h, [r EXCEPT !.op = "upsert", !.seen = setting[r.section]])
  /\ UNCHANGED cacheVars

\* Faulty: a merge that starts from nothing.
MergedAfresh(r) == [f \in Fields |-> IF f = r.field THEN r.value ELSE Null]

Merged(r) ==
  [f \in Fields |-> IF f = r.field THEN r.value
                    ELSE IF r.seen = Null THEN Null ELSE r.seen[f]]

Upsert(h) ==
  LET r == request[h] IN
  /\ Doing(h, "upsert")
  /\ setting' = [setting EXCEPT ![r.section] = Merged(r)]
  /\ Outdate({"bootstrap"}, [request EXCEPT ![h].op = "dropBootstrap"])
  /\ UNCHANGED <<row, asked, overtaken>>

\* The key is deleted after each section, and the next one begun.
NextSection(h) ==
  LET r == request[h] IN
  /\ Doing(h, "dropBootstrap")
  /\ Drop({"bootstrap"})
  /\ \/ r.more = {} /\ End(h)
     \/ \E s \in r.more :
          GoOn(h, [r EXCEPT !.op = IF r.seen = Null THEN "upsert" ELSE "readSection",
                            !.section = s, !.more = @ \ {s}])
  /\ UNCHANGED <<setting, row, asked>>

\* A request lost between its write and the deletion leaves what is cached.
AbandonWrite(h) ==
  LET left == IF Doing(h, "invalidate") THEN request[h].drops
              ELSE IF Doing(h, "dropBootstrap") THEN {"bootstrap"} ELSE {} IN
  /\ Abandon(h)
  /\ overtaken' = overtaken \cup {k \in left : cache[k] = "stale"}
  /\ UNCHANGED <<cache, setting, row, asked>>

ReadThrough(ks) ==
  \/ \E h \in Handlers :
       \/ \E k \in ks : Load(h, k)
       \/ StoreView(h) \/ Invalidate(h) \/ AbandonWrite(h)
  \/ \E k \in ks : Expire(k)

CatalogueNext ==
  ReadThrough({"categories"}) \/ MoveProducts \/ \E h \in Handlers : WriteCatalogue(h)

SettingsNext ==
  \/ ReadThrough({"settings", "bootstrap"})
  \/ \E h \in Handlers :
       \/ \E v \in Fees \cup {Null} : (v = Null => row = << >>) /\ BeginSettings(h, v)
       \/ \E v \in Fees : CreateRow(h, v)
       \/ WriteRow(h)

SectionsNext ==
  \/ \E h \in Handlers :
       \/ \E s \in Sections : \E more \in SUBSET (Sections \ {s}) :
            \E f \in Fields, v \in Values, merge \in BOOLEAN : BeginPatch(h, s, f, v, merge, more)
       \/ ReadSection(h) \/ Upsert(h) \/ NextSection(h) \/ AbandonWrite(h)

CachesNext == CatalogueNext \/ SettingsNext \/ SectionsNext

CachesSpec == CachesInit /\ RequestsInit /\ [][CachesNext]_<<requestVars, cacheVars>>

-----------------------------------------------------------------------------
(* Properties. *)

AboutToDrop(k) ==
  \E h \in Handlers :
    \/ Doing(h, "invalidate") /\ k \in request[h].drops
    \/ Doing(h, "dropBootstrap") /\ k = "bootstrap"

\* A cached answer is older than the rows only while the writer is about to
\* delete it, or until it expires if that writer was lost, a reader stored
\* what it had read before the write, or products were moved.
StaleExplained ==
  \A k \in Keys \ overtaken :
    \/ cache[k] # "stale"
    \/ AboutToDrop(k)
    \/ k = "categories" /\ "moved" \in overtaken

\* What the last update of the settings gave is what is read, unless two
\* requests on the row overlap: two that find none make one each, and one of
\* them then writes a row that nobody reads.
SettingsRead == asked # Null /\ "row" \notin overlapped => row[1] = asked

\* A merged patch changes the fields it names and no other, unless another
\* request writes the section between its read and its write.
MergeKeepsOthers ==
  [][\A s \in Sections : \A f \in Fields :
       setting'[s][f] # setting[s][f] /\ s \notin overlapped =>
         \E h \in Handlers :
           /\ Doing(h, "upsert") /\ request[h].section = s
           /\ request[h].field = f \/ request[h].seen = Null]_<<requestVars, cacheVars>>

\* "Public Redis cache `categories:public` invalidated on category/product
\* mutations": an old one is there only while its writer is about to delete
\* it, or for a reason that is not a mutation by itself.
MutationsInvalidate ==
  cache["categories"] = "stale" => AboutToDrop("categories") \/ "categories" \in overtaken
=============================================================================
