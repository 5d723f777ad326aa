------------------------------ MODULE MCServices ------------------------------
(* The other services, for TLC, one of them to a behaviour: the caches and  *)
(* settings, offers, campaigns, reviews, what an order costs and what       *)
(* follows it, the reports on orders, and the scripts.                      *)
EXTENDS PublicCaches, Promotions, Reviews, OrderEvents, Totals, Reports, Scripts, TLC

CONSTANT Foci  \* the services of a run
VARIABLE focus

vars == <<focus, requestVars, cacheVars, offerVars, campaignVars, reviewVars, eventVars,
          totalVars, reportVars, scriptVars>>
backOffice == <<totalVars, reportVars, scriptVars>>
services == <<cacheVars, offerVars, campaignVars, reviewVars, eventVars>>

\* Offers: what one is created with, and the changes that staff ask for.
TenPercent == [type |-> "PERCENTAGE", value |-> 10]
OfferRow(scope, links, category) ==
  [scope |-> scope, category |-> category, links |-> links, discount |-> TenPercent,
   from |-> 1, to |-> 2, active |-> TRUE, deleted |-> FALSE]
OfferRows == {OfferRow("PRODUCT", Priced, Null)} \cup {OfferRow("CATEGORY", {}, s) : s \in Shelves}
OfferChanges ==
  {[from |-> 3], [to |-> 4], [from |-> 3, to |-> 4], [to |-> 2, active |-> FALSE],
   [scope |-> "PRODUCT", links |-> Priced], [scope |-> "PRODUCT"]}
  \cup {[scope |-> "CATEGORY", category |-> s] : s \in Shelves}

\* One offer to create, the others deleted long ago.
PriceRow(regular, reduced, variant) ==
  [category |-> CHOOSE s \in Shelves : TRUE, regular |-> regular, sale |-> reduced, variant |-> variant]
OneOffer ==
  /\ LET o == CHOOSE o \in OfferIds : TRUE IN
       offer = [x \in OfferIds |-> IF x = o THEN Null
                 ELSE [OfferRow("PRODUCT", Priced, Null) EXCEPT !.deleted = TRUE, !.active = FALSE]]
  /\ price = [p \in Priced |-> PriceRow(1000, Null, Null)]

\* Every pair of offers on the products or on their category, with prices at
\* the boundaries: reductions of all, of more than the price, of half a cent.
Prices ==
  /\ offer \in [OfferIds -> {Null} \cup
       {[OfferRow(IF s = Null THEN "PRODUCT" ELSE "CATEGORY", IF s = Null THEN Priced ELSE {}, s)
           EXCEPT !.discount = d, !.from = from, !.to = from + 1] :
          s \in {Null} \cup Shelves, from \in {1, 3},
          d \in {[type |-> "PERCENTAGE", value |-> n] : n \in {0, 10, 33, 100}}
                \cup {[type |-> "FIXED", value |-> n] : n \in {50, 5000}}}]
  /\ \E regular \in {5, 999}, reduced \in {Null, 0, 400, 999},
        variant \in {Null} \cup {[regular |-> 900, sale |-> n] : n \in {Null, 300}} :
       price = [p \in Priced |-> PriceRow(regular, reduced, variant)]

\* Campaigns: likewise.
Terms(d) ==
  [from |-> 1, to |-> 2, often |-> "ALWAYS", hours |-> Null, minCart |-> Null, maxCart |-> 1,
   type |-> d, id |-> Null, url |-> Null, route |-> Null, audience |-> "ALL",
   cap |-> [t \in EventType |-> Null], active |-> TRUE, placements |-> {},
   targets |-> {}, mode |-> "PRIORITY", weight |-> 1]
CampaignTerms == {Terms("CART")}
CampaignChanges ==
  {[from |-> 3], [from |-> 3, to |-> 4], [minCart |-> 2], [maxCart |-> 2],
   [often |-> "DISMISS_HOURS", hours |-> 1], [hours |-> Null], [type |-> "OFFER", id |-> "o"],
   [type |-> "EXTERNAL_URL", url |-> "u"], [url |-> Null]}

\* One campaign to create, the others deleted long ago.
OneCampaign ==
  /\ LET c == CHOOSE c \in CampaignIds : TRUE IN
       campaign = [x \in CampaignIds |-> IF x = c THEN Null
                                         ELSE [NewRow(Terms("CART")) EXCEPT !.deleted = TRUE]]
  /\ events = [c \in CampaignIds |-> None]

\* Every pool of campaigns with a mode, weights and what they ask for.
Pools ==
  /\ campaign \in [CampaignIds -> {Null} \cup
       {[Terms("CART") EXCEPT !.mode = m, !.weight = w, !.maxCart = Null, !.minCart = a, !.audience = u,
                              !.placements = IF u = "ALL" THEN {"HOME"} ELSE {"CART"}]
          @@ [counts |-> None, deleted |-> FALSE] :
          m \in {"RANDOM", "WEIGHT"}, w \in 0..2, a \in {Null, 1}, u \in {"ALL", "GUEST_ONLY"}}]
  /\ events = [c \in CampaignIds |-> None]

\* Two orders at the edges of the two periods of thirty days, with a code that
\* takes something off or one that does not, in years that begin on any day of
\* a week.
Midnight(d) == d * DayLength - Offset
Edges == {Now, Midnight(ThisDay - 29), Midnight(ThisDay - 29) - 1, Midnight(ThisDay - 59) - 1}
SaleRow(u, time, s, code) ==
  [user |-> u, time |-> time, status |-> s, type |-> IF code = Null THEN "DELIVERY" ELSE "PICKUP",
   total |-> 5, code |-> code, discount |-> IF code = "x" THEN 1 ELSE 0, lines |-> [p \in Goods |-> 2]]
BusyShop ==
  /\ \E y \in (ThisDay - 6)..ThisDay : year = {y - 400, y}
  /\ sale \in [Sales ->
       {SaleRow(u, time, s, code) : u \in Buyers, time \in Edges,
          s \in {"PENDING", "OUT_FOR_DELIVERY", "CANCELLED", "COMPLETED"},
          code \in {Null, "x", "y"}}]
  /\ \E o \in Sales :
       /\ sale[o].code = "x" /\ \A p \in Sales : sale[p].time <= sale[o].time
       /\ ThisDay \in year \/ \A p \in Sales : sale[p].status = "COMPLETED"
  /\ usage = {o \in Sales : sale[o].code = "x"}
QuietShop ==
  /\ year = {0} /\ usage = Sales
  /\ sale = [o \in Sales |-> SaleRow(CHOOSE u \in Buyers : TRUE, Now, "PENDING", "x")]

\* One group, with a rule for one name and another for the rest.
MCPlans ==
  [g \in Groups |-> <<[key |-> "k", words |-> {CHOOSE n \in Names : TRUE}, fallback |-> FALSE],
                     [key |-> "rest", words |-> {}, fallback |-> TRUE]>>]
FileRow(g, n, q) == [group |-> g, name |-> n, quantity |-> q]
Files ==
  {<<FileRow(g, CHOOSE m \in Names : TRUE, 1), FileRow(g, n, q)>> :
     g \in Groups, n \in Names, q \in {Null, 0}}

MCWorths == {800, 1000}
MCTerms ==
  {[type |-> "PERCENTAGE", value |-> 10, cap |-> c, min |-> m] : c \in {Null, 50}, m \in {Null, 900}}
  \cup {[type |-> "FIXED", value |-> 5000, cap |-> Null, min |-> Null]}
MCTariffs == {[fee |-> 200, free |-> f, min |-> m] : f \in {Null, 900}, m \in {0, 600}}

Init ==
  /\ focus \in Foci
  /\ RequestsInit /\ ScriptsInit
  /\ TotalsInit
  /\ focus # "totals" => /\ \A w \in Worths : worth <= w
                         /\ terms = CHOOSE t \in CodeTerms : TRUE
                         /\ tariff = CHOOSE t \in Tariffs : TRUE
  /\ IF focus = "reports" THEN BusyShop ELSE QuietShop
  /\ CachesInit /\ ReviewsInit /\ EventsInit
  /\ IF focus = "prices" THEN Prices ELSE OneOffer
  /\ CASE focus = "rotation" -> Pools
       [] focus = "terms" -> OneCampaign
       [] OTHER -> CampaignsInit

CachesStep ==
  /\ \/ focus = "settings" /\ SettingsNext
     \/ focus = "sections" /\ SectionsNext
     \/ focus = "catalogue" /\ CatalogueNext
  /\ UNCHANGED <<focus, offerVars, campaignVars, reviewVars, eventVars, backOffice>>
OffersStep ==
  /\ focus = "offers" /\ OffersNext(OfferRows, OfferChanges)
  /\ UNCHANGED <<focus, cacheVars, campaignVars, reviewVars, eventVars, backOffice>>

\* Both orders of the campaigns, or a click on one.
Bulks ==
  {[shown |-> s, clicked |-> << >>] : s \in SetToSeqs(CampaignIds)}
  \cup {[shown |-> << >>, clicked |-> <<c>>] : c \in CampaignIds}
CampaignsStep ==
  /\ \/ focus = "terms" /\ CampaignsNext(CampaignTerms, CampaignChanges, {}, {})
     \/ /\ focus = "tracking"
        /\ CampaignsNext(CampaignTerms, {}, Bulks, {c \in CampaignIds : events[c] = None})
  /\ UNCHANGED <<focus, cacheVars, offerVars, reviewVars, eventVars, backOffice>>
\* Two reviews that give one rating, or one review that changes its mind.
ReviewsStep ==
  /\ \/ focus = "reviews" /\ \E s \in Stars : (\A t \in Stars : s <= t) /\ ReviewsNext(Purchases, {s})
     \/ /\ focus = "rerating"
        /\ \E i \in Purchases :
             /\ \A j \in Purchases \ {i} : review[j] = Null
             /\ ReviewsNext({i}, Stars)
  /\ UNCHANGED <<focus, cacheVars, offerVars, campaignVars, eventVars, backOffice>>
EventsStep ==
  /\ focus = "events" /\ EventsNext
  /\ UNCHANGED <<focus, cacheVars, offerVars, campaignVars, reviewVars, backOffice>>

\* Checkouts share nothing that they write: one of them is enough, until it
\* has written its order.
TotalsStep ==
  /\ focus = "totals" /\ TotalsNext
  /\ \E b \in Bills : bill[b] = Null
  /\ \A g, h \in Handlers : request'[g] # Null /\ request'[h] # Null => g = h
  /\ UNCHANGED <<focus, services, reportVars, scriptVars>>
ScriptsStep ==
  /\ focus = "scripts" /\ ScriptsNext(Files)
  /\ UNCHANGED <<focus, services, requestVars, totalVars, reportVars>>

Next == TotalsStep \/ ScriptsStep \/ CachesStep \/ OffersStep \/ CampaignsStep \/ ReviewsStep \/ EventsStep

Spec == Init /\ [][Next]_vars

\* A bulk request goes on when it can, rows are granted in the order they are
\* asked for, and the detector finds a cycle.
FairSpec ==
  /\ Spec
  /\ \A h \in Handlers :
       /\ SF_vars(CountNext(h) /\ CampaignsStep)
       /\ WF_vars(CommitBulk(h) /\ CampaignsStep)
  /\ WF_vars((\E h \in Handlers : Deadlocked(h)) /\ CampaignsStep)

Symmetry == Permutations(Handlers) \cup Permutations(Sections)
=============================================================================
