-------------------------------- MODULE Lists --------------------------------
(* What a customer keeps of products and searches: wishlist.service.ts and  *)
(* search.service.ts.                                                       *)
EXTENDS Requests

CONSTANTS
  Shoppers,
  Wares,       \* products
  Terms,       \* normalised search terms
  MaxWishes,   \* bound on the wishlist rows ever made
  MaxSearches  \* bound on the count of a term

VARIABLES
  shown,      \* the products that are active
  wish,       \* pair <<shopper, ware>> -> id of its wishlist row, or Null
  wishIds,    \* wishlist rows ever made
  popular,    \* term -> PopularSearch.count
  history     \* the UserSearchHistory rows: pairs <<shopper, term>>

listVars == <<shown, wish, wishIds, popular, history>>

Pairs == Shoppers \X Wares

ListsInit ==
  /\ shown = Wares
  /\ wish = [x \in Pairs |-> Null]
  /\ wishIds = 0
  /\ popular = [t \in Terms |-> 0]
  /\ history = {}

(* Adding to the wishlist: product and row looked up, then the row, under   *)
(* the key on user and product.                                             *)
BeginAddWish(h, x) ==
  /\ x[2] \in shown
  /\ wish[x] = Null
  /\ Begin(h, [op |-> "addWish", on |-> {x}, pair |-> x])
  /\ UNCHANGED listVars

AddWish(h) ==
  LET x == request[h].pair IN
  /\ Doing(h, "addWish")
  /\ wish[x] = Null
  /\ wishIds < MaxWishes
  /\ wish' = [wish EXCEPT ![x] = wishIds + 1]
  /\ wishIds' = wishIds + 1
  /\ End(h)
  /\ UNCHANGED <<shown, popular, history>>

BeginRemoveWish(h, x) ==
  /\ wish[x] # Null
  /\ Begin(h, [op |-> "removeWish", on |-> {x}, pair |-> x, row |-> wish[x]])
  /\ UNCHANGED listVars

\* By the id that was found: a row added since stays.
RemoveWish(h) ==
  LET r == request[h] IN
  /\ Doing(h, "removeWish")
  /\ wish[r.pair] = r.row
  /\ wish' = [wish EXCEPT ![r.pair] = Null]
  /\ End(h)
  /\ UNCHANGED <<shown, wishIds, popular, history>>

ToggleShown(p) ==
  /\ shown' = IF p \in shown THEN shown \ {p} ELSE shown \cup {p}
  /\ UNCHANGED <<requestVars, wish, wishIds, popular, history>>

\* What the wishlist shows: rows of products that are active.
ListWishes(u) == {p \in shown : wish[<<u, p>>] # Null}

-----------------------------------------------------------------------------

\* Faulty: the user's row before the count.
CountLater(h, u, t) ==
  /\ popular[t] < MaxSearches
  /\ history' = IF u = Null THEN history ELSE history \cup {<<u, t>>}
  /\ Begin(h, [op |-> "search", on |-> {}, row |-> <<u, t>>])
  /\ UNCHANGED <<shown, wish, wishIds, popular>>

(* Recording a search: the count of the term, then the user's own row.      *)
CountSearch(h, u, t) ==
  /\ popular[t] < MaxSearches
  /\ popular' = [popular EXCEPT ![t] = @ + 1]
  /\ IF u = Null THEN UNCHANGED requestVars
     ELSE Begin(h, [op |-> "search", on |-> {}, row |-> <<u, t>>])
  /\ UNCHANGED <<shown, wish, wishIds, history>>

KeepSearch(h) ==
  /\ Doing(h, "search")
  /\ history' = history \cup {request[h].row}
  /\ End(h)
  /\ UNCHANGED <<shown, wish, wishIds, popular>>

ClearRecent(u) ==
  /\ history' = {x \in history : x[1] # u}
  /\ UNCHANGED <<requestVars, shown, wish, wishIds, popular>>

DeleteRecent(x) ==
  /\ history' = history \ {x}
  /\ UNCHANGED <<requestVars, shown, wish, wishIds, popular>>

ListsNext ==
  \/ \E h \in Handlers :
       \/ \E x \in Pairs : BeginAddWish(h, x) \/ BeginRemoveWish(h, x)
       \/ AddWish(h) \/ RemoveWish(h) \/ KeepSearch(h)
       \/ \E u \in Shoppers \cup {Null}, t \in Terms : CountSearch(h, u, t)
       \/ Abandon(h) /\ UNCHANGED listVars
  \/ \E p \in Wares : ToggleShown(p)
  \/ \E u \in Shoppers : ClearRecent(u)
  \/ \E x \in history : DeleteRecent(x)

ListsSpec == ListsInit /\ RequestsInit /\ [][ListsNext]_<<requestVars, listVars>>

-----------------------------------------------------------------------------
(* Properties. *)

\* A term in the searches of a shopper has been counted for everyone who has
\* it: SearchService.record counts first, so that a request lost halfway
\* counts a search that nobody has rather than the other way round.
SearchesCounted ==
  \A t \in Terms : Cardinality({u \in Shoppers : <<u, t>> \in history}) <= popular[t]
=============================================================================
