-------------------------------- MODULE Scripts --------------------------------
(* The two scripts that staff run by hand on a shop that is open:           *)
(* products-excel.importer.ts, which writes the rows of a file one by one,  *)
(* and organize-subcategories.ts, which makes subcategories and moves       *)
(* products into them. Neither is a transaction: every write is committed   *)
(* by itself, both may be cut short between any two and run again. The code *)
(* of a product is made of its category and its name.                       *)
EXTENDS Requests, Sequences, SequencesExt

CONSTANTS
  Groups,     \* categories that a file names
  Names,      \* of products
  Plans,      \* group -> its rules, the last of them for what matches no other
  Own         \* keys of subcategories that staff made themselves

\* Every plan has a rule for what matches no other. What staff made is not in it.
ASSUME ScriptAssumption ==
  /\ IsFiniteSet(Groups) /\ IsFiniteSet(Names)
  /\ \A g \in Groups :
       /\ Len(Plans[g]) \in Nat /\ DOMAIN Plans[g] = 1..Len(Plans[g])
       /\ \E n \in DOMAIN Plans[g] : Plans[g][n].fallback
       /\ \A n \in DOMAIN Plans[g] : Plans[g][n].key \notin Own

SubsOf(g) == {<<g, Plans[g][n].key>> : n \in DOMAIN Plans[g]}

\* A product: on a main category, in a subcategory of a plan or in one that
\* staff made.
Place == {<<g>> : g \in Groups} \cup (Groups \X Own) \cup UNION {SubsOf(g) : g \in Groups}
ItemRow == [at : Place, quantity : Nat, active : BOOLEAN, deleted : BOOLEAN, reserved : Nat]

\* A row of a file; Null is a quantity or a price that cannot be read, or a line
\* of totals.
FileLine == [group : Groups, name : Names, quantity : Nat \cup {Null}]

ASSUME ItemAssumption == Null \notin ItemRow \cup FileLine

VARIABLES
  mains,     \* groups that have a top-level category
  subs,      \* the subcategories there are: <<group, rule>>
  item,      \* <<group, name>> -> the product with that code, or Null
  script,    \* the script that runs, or Null; its `before` is history: the
             \* products when it started, or Null once anybody else wrote
  foretold,  \* how many moves the last dry run announced, or Null
  settled    \* history: what a script completed, nobody having written since

scriptVars == <<mains, subs, item, script, foretold, settled>>

ScriptsInit ==
  /\ mains = {} /\ subs = {} /\ script = Null /\ foretold = Null /\ settled = Null
  /\ item = [x \in Groups \X Names |-> Null]

Codes == Groups \X Names
Run(s) == script' = s
Settle(s) == settled' = IF script.before # Null THEN s ELSE Null
\* The categories there are.
Places == {<<g>> : g \in mains} \cup subs \cup (mains \X Own)

-----------------------------------------------------------------------------
(* The importer. A row that cannot be read is skipped.                      *)
StartImport(file) ==
  /\ script = Null
  /\ Run([op |-> "import", file |-> file, at |-> 1, step |-> "product", before |-> item])
  /\ settled' = Null /\ foretold' = Null
  /\ UNCHANGED <<mains, subs, item>>

\* Faulty: a product that was there is left as it was but for its quantity.
UpdatedAlready(old, row) == old

Updated(old, row) ==
  [old EXCEPT !.at = <<row.group>>, !.active = row.quantity > 0, !.deleted = FALSE]
Created(row) ==
  [at |-> <<row.group>>, quantity |-> row.quantity, active |-> row.quantity > 0,
   deleted |-> FALSE, reserved |-> 0]

ThisRow == script.file[script.at]
Sku(row) == <<row.group, row.name>>

\* At a row that can be read, and at the given write of it. Nobody else makes a
\* product of a code, so that what is looked up first is as good as read here.
AtRow(step) ==
  /\ script # Null /\ script.op = "import" /\ script.at <= Len(script.file)
  /\ script.step = step /\ ThisRow.quantity # Null
NextRow == Run([script EXCEPT !.at = @ + 1, !.step = "product"])

SkipRow ==
  /\ script # Null /\ script.op = "import" /\ script.at <= Len(script.file)
  /\ ThisRow.quantity = Null
  /\ NextRow
  /\ UNCHANGED <<mains, subs, item, foretold, settled>>

\* The category is found by its name or made,
CreateMain ==
  /\ AtRow("product") /\ ThisRow.group \notin mains
  /\ mains' = mains \cup {ThisRow.group}
  /\ UNCHANGED <<subs, item, script, foretold, settled>>

\* then the product by its code. One that is new is written with its stock,
CreateProduct ==
  /\ AtRow("product") /\ ThisRow.group \in mains /\ item[Sku(ThisRow)] = Null
  /\ item' = [item EXCEPT ![Sku(ThisRow)] = Created(ThisRow)]
  /\ NextRow
  /\ UNCHANGED <<mains, subs, foretold, settled>>

\* one that was there first, and its stock after it.
UpdateProduct ==
  /\ AtRow("product") /\ ThisRow.group \in mains /\ item[Sku(ThisRow)] # Null
  /\ item' = [item EXCEPT ![Sku(ThisRow)] = Updated(@, ThisRow)]
  /\ Run([script EXCEPT !.step = "stock"])
  /\ UNCHANGED <<mains, subs, foretold, settled>>
UpdateStock ==
  /\ AtRow("stock")
  /\ item' = [item EXCEPT ![Sku(ThisRow)].quantity = ThisRow.quantity]
  /\ NextRow
  /\ UNCHANGED <<mains, subs, foretold, settled>>

EndImport ==
  /\ script # Null /\ script.op = "import" /\ script.at > Len(script.file)
  /\ Settle([by |-> "import", file |-> script.file, before |-> script.before])
  /\ Run(Null)
  /\ UNCHANGED <<mains, subs, item, foretold>>

-----------------------------------------------------------------------------
(* The organizer: for every group that has a plan and a category, one rule  *)
(* after the other gets its subcategory, then the products that were read   *)
(* are moved one by one. Without --apply it only counts.                    *)
MatchRule(name, rules) ==
  LET hits == {n \in DOMAIN rules : name \in rules[n].words \/ rules[n].fallback} IN
  rules[CHOOSE n \in hits : \A k \in hits : n <= k]
Target(g, name) == <<g, MatchRule(name, Plans[g]).key>>

\* Faulty: products anywhere under the category.
ScannedBelow(items, g, known) ==
  {x \in Codes : items[x] # Null /\ ~items[x].deleted /\ Head(items[x].at) = g}

\* Products on the main category or on a subcategory of the plan.
Scanned(items, g, known) ==
  {x \in Codes : /\ items[x] # Null /\ ~items[x].deleted
                 /\ items[x].at = <<g>> \/ items[x].at \in known}

\* A product bound for a subcategory that is still to be made is announced if
\* it is on the main category, and taken for well placed if it is not.
DryRunMoves(g) ==
  Cardinality({x \in Scanned(item, g, SubsOf(g) \cap subs) :
    IF Target(g, x[2]) \in subs THEN item[x].at # Target(g, x[2]) ELSE item[x].at = <<g>>})

DryRun(g) ==
  /\ script = Null /\ g \in mains
  /\ foretold' = [group |-> g, moves |-> DryRunMoves(g)]
  /\ settled' = Null
  /\ UNCHANGED <<mains, subs, item, script>>

StartOrganize(g) ==
  /\ script = Null /\ g \in mains
  /\ Run([op |-> "create", group |-> g, at |-> 1, todo |-> {}, moved |-> 0, known |-> subs,
          foretold |-> foretold, before |-> item])
  /\ settled' = Null /\ foretold' = Null
  /\ UNCHANGED <<mains, subs, item>>

CreateSub ==
  LET g == script.group IN
  /\ script # Null /\ script.op = "create"
  /\ IF script.at <= Len(Plans[g])
     THEN /\ subs' = subs \cup {<<g, Plans[g][script.at].key>>}
          /\ Run([script EXCEPT !.at = @ + 1])
     ELSE /\ Run([script EXCEPT !.op = "move", !.todo = {<<x, item[x].at>> : x \in Scanned(item, g, SubsOf(g))}])
          /\ UNCHANGED subs
  /\ UNCHANGED <<mains, item, foretold, settled>>

\* A product that was where it belongs when it was read is left alone.
MoveProduct(x, from) ==
  LET to == Target(script.group, x[2]) IN
  /\ script # Null /\ script.op = "move" /\ <<x, from>> \in script.todo
  /\ item' = IF from = to THEN item ELSE [item EXCEPT ![x].at = to]
  /\ Run([script EXCEPT !.todo = @ \ {<<x, from>>}, !.moved = IF from = to THEN @ ELSE @ + 1])
  /\ UNCHANGED <<mains, subs, foretold, settled>>

EndOrganize ==
  /\ script # Null /\ script.op = "move" /\ script.todo = {}
  /\ Settle([by |-> "organize", group |-> script.group, moved |-> script.moved,
             known |-> script.known, foretold |-> script.foretold, before |-> script.before])
  /\ Run(Null)
  /\ UNCHANGED <<mains, subs, item, foretold>>

\* Stopped, or its connection lost: what it wrote stays.
CutShort ==
  /\ script # Null
  /\ Run(Null)
  /\ foretold' = Null
  /\ UNCHANGED <<mains, subs, item, settled>>

\* The shop goes on: an order reserves, staff move or delete a product.
Meanwhile(x, row) ==
  /\ item[x] # Null
  /\ item' = [item EXCEPT ![x] = row]
  /\ settled' = Null /\ foretold' = Null
  /\ Run(IF script = Null THEN Null ELSE [script EXCEPT !.before = Null])
  /\ UNCHANGED <<mains, subs>>

Sold(x) ==
  /\ item[x] # Null /\ ~item[x].deleted /\ item[x].reserved < item[x].quantity
  /\ Meanwhile(x, [item[x] EXCEPT !.reserved = @ + 1])
Moved(x, to) == item[x] # Null /\ ~item[x].deleted /\ Meanwhile(x, [item[x] EXCEPT !.at = to])
Removed(x) == Meanwhile(x, [item[x] EXCEPT !.deleted = TRUE, !.active = FALSE])

ScriptsNext(files) ==
  \/ \E file \in files : StartImport(file)
  \/ SkipRow \/ CreateMain \/ CreateProduct \/ UpdateProduct \/ UpdateStock \/ EndImport
  \/ CreateSub \/ EndOrganize \/ CutShort
  \/ \E g \in Groups : DryRun(g) \/ StartOrganize(g)
  \/ \E x \in Codes :
       \/ Sold(x) \/ Removed(x)
       \/ \E at \in Places : MoveProduct(x, at) \/ Moved(x, at)

ScriptsSpec(files) == ScriptsInit /\ [][ScriptsNext(files)]_scriptVars

-----------------------------------------------------------------------------
(* Properties. *)

\* The last row of a code, among the first n, that could be read.
LastRow(file, n, x) ==
  LET ks == {k \in 1..n : Sku(file[k]) = x /\ file[k].quantity # Null} IN
  IF ks = {} THEN Null ELSE file[CHOOSE k \in ks : \A j \in ks : j <= k]

\* A product as a row has it, what is reserved of it aside.
AsRow(old, row) ==
  IF row = Null THEN old
  ELSE [at |-> <<row.group>>, quantity |-> row.quantity, active |-> row.quantity > 0,
        deleted |-> FALSE, reserved |-> IF old = Null THEN 0 ELSE old.reserved]

\* A product as the plan of a group has it.
AsPlanned(items, g, x) ==
  IF items[x] # Null /\ ~items[x].deleted /\ items[x].at \in {<<g>>} \cup SubsOf(g)
  THEN [items[x] EXCEPT !.at = Target(g, x[2])] ELSE items[x]

\* "Idempotent": a script that reaches its end leaves what the file or the
\* plan asks for and touches nothing else, whatever was there, and however
\* often it was cut short and run before, if nobody writes meanwhile: products
\* that the file names are as its last row of them says; products on the main
\* category or in a subcategory of the plan are where the plan has them, and
\* what staff put elsewhere stays there.
ScriptsConverge ==
  settled # Null =>
    \A x \in Codes :
      item[x] = IF settled.by = "import"
                THEN AsRow(settled.before[x], LastRow(settled.file, Len(settled.file), x))
                ELSE AsPlanned(settled.before, settled.group, x)

\* Where an import is cut, if nobody wrote meanwhile, every product is as the
\* rows so far have it, except one at most: that of the row it was at, on sale
\* or not as the row says with the stock that was there before.
CutLeavesOneHalf ==
  script # Null /\ script.op = "import" /\ script.before # Null =>
    \A x \in Codes :
      LET done == AsRow(script.before[x], LastRow(script.file, script.at - 1, x)) IN
      \/ item[x] = done
      \/ /\ script.step = "stock" /\ x = Sku(ThisRow) /\ done # Null
         /\ item[x] = [AsRow(done, ThisRow) EXCEPT !.quantity = done.quantity]

\* A dry run announces the moves that --apply then makes, but for products in
\* a subcategory that belong in one that is still to be made.
DryRunTells ==
  settled # Null /\ settled.by = "organize" /\ settled.foretold # Null
       /\ settled.foretold.group = settled.group =>
    \/ settled.moved = settled.foretold.moves
    \/ ~(SubsOf(settled.group) \subseteq settled.known) /\ settled.moved > settled.foretold.moves

\* Both scripts may be run again, whatever cut them short.
ScriptsRerun == ScriptsConverge /\ CutLeavesOneHalf /\ DryRunTells
=============================================================================
