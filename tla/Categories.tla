------------------------------ MODULE Categories ------------------------------
(* The two levels of categories: categories.service.ts. A parent and the    *)
(* children of a category are looked at in statements of their own before   *)
(* the write.                                                               *)
EXTENDS Requests

CONSTANT CategoryIds

VARIABLE category  \* id -> row [parent, active, deleted], or Null

categoryVars == <<category>>

CategoryRow == [parent : CategoryIds \cup {Null}, active : BOOLEAN, deleted : BOOLEAN]

ASSUME CategoryAssumption == Null \notin CategoryRow /\ Null \notin CategoryIds

CategoriesInit == category = [c \in CategoryIds |-> Null]

Existing(rows) == {c \in CategoryIds : rows[c] # Null /\ ~rows[c].deleted}
ChildrenOf(rows, c) == {x \in Existing(rows) : rows[x].parent = c}
Shown(rows) == {c \in Existing(rows) : rows[c].active}

\* A parent is an existing top-level category, other than the one it is for.
ResolvesParent(p, self) ==
  p # Null => p \in Existing(category) \ {self} /\ category[p].parent = Null

BeginCreateCategory(h, c, p) ==
  /\ category[c] = Null
  /\ ResolvesParent(p, Null)
  /\ Begin(h, [op |-> "createCategory", on |-> {p} \ {Null}, parent |-> p])
  /\ UNCHANGED categoryVars

CreateCategory(h, c, active) ==
  /\ Doing(h, "createCategory")
  /\ category[c] = Null
  /\ category' = [category EXCEPT ![c] =
       [parent |-> request[h].parent, active |-> active, deleted |-> FALSE]]
  /\ End(h)

\* The parent is resolved if the update names one (`p` is then its id or Null),
BeginUpdateCategory(h, c, moves, p, active) ==
  /\ c \in Existing(category)
  /\ moves => ResolvesParent(p, c)
  /\ Begin(h, [op |-> IF moves /\ p # Null THEN "countChildren" ELSE "updateCategory",
               on |-> {c} \cup (IF moves THEN {p} \ {Null} ELSE {}),
               category |-> c, moves |-> moves, parent |-> p, active |-> active])
  /\ UNCHANGED categoryVars

\* Faulty: nesting a category whatever is under it.
CountNothing(h) ==
  /\ Doing(h, "countChildren")
  /\ GoOn(h, [request[h] EXCEPT !.op = "updateCategory"])
  /\ UNCHANGED categoryVars

\* then a category that has children is not nested,
CountChildren(h) ==
  /\ Doing(h, "countChildren")
  /\ ChildrenOf(category, request[h].category) = {}
  /\ GoOn(h, [request[h] EXCEPT !.op = "updateCategory"])
  /\ UNCHANGED categoryVars

\* and the row is written by id.
UpdateCategory(h) ==
  LET r == request[h] IN
  /\ Doing(h, "updateCategory")
  /\ category' = [category EXCEPT
       ![r.category].active = r.active,
       ![r.category].parent = IF r.moves THEN r.parent ELSE @]
  /\ End(h)

\* Nothing is asked of what is under a category that is deleted.
BeginDeleteCategory(h, c) ==
  /\ c \in Existing(category)
  /\ Begin(h, [op |-> "deleteCategory", on |-> {c}, category |-> c])
  /\ UNCHANGED categoryVars

DeleteCategory(h) ==
  LET c == request[h].category IN
  /\ Doing(h, "deleteCategory")
  /\ category' = [category EXCEPT ![c].deleted = TRUE, ![c].active = FALSE]
  /\ End(h)

\* A step of a request on categories, but for the loss of it.
CategoryRequest(h) ==
  \/ \E c \in CategoryIds :
       \/ \E p \in CategoryIds \cup {Null} :
            \/ BeginCreateCategory(h, c, p)
            \/ \E moves, active \in BOOLEAN :
                 (~moves => p = Null) /\ BeginUpdateCategory(h, c, moves, p, active)
       \/ \E active \in BOOLEAN : CreateCategory(h, c, active)
       \/ BeginDeleteCategory(h, c)
  \/ CountChildren(h) \/ UpdateCategory(h) \/ DeleteCategory(h)

CategoriesNext ==
  \E h \in Handlers : CategoryRequest(h) \/ (Abandon(h) /\ UNCHANGED categoryVars)

CategoriesSpec ==
  CategoriesInit /\ RequestsInit /\ [][CategoriesNext]_<<requestVars, categoryVars>>

-----------------------------------------------------------------------------
(* Properties. *)

\* No subcategory has subcategories, unless two requests on one of the two
\* overlap (CategoriesService.update checks before it writes): the public
\* tree, two levels deep, would leave the third out.
OneLevel ==
  \A c \in Existing(category) :
    LET p == category[c].parent IN
    p # Null /\ category[p].parent # Null => overlapped \cap {c, p} # {}
=============================================================================
