--------------------------- MODULE CatalogChange ---------------------------
(***************************************************************************)
(* change_catalog: create, rename, move and delete of one catalog node.    *)
(* execute() compares the whole catalog with the preview's, changeCatalog  *)
(* does it again, sends one request (a creation two: insert and rename)    *)
(* and waits for the catalog to show it, up to five reads.  Those reads    *)
(* are one step here: the one that shows it, or the last one.              *)
(* In an organization only moves are open.                                 *)
(***************************************************************************)
EXTENDS Catalogs

VARIABLES
    space,     \* what the books belong to: "personal" or "organization"
    op,        \* what each change does
    base,      \* the catalog its preview read
    pc,        \* where it is
    inserted,  \* the node a creation took for its own
    verdict    \* the recorded outcome

catVars == <<space, op, base, pc, inserted, verdict>>

NoOp == [action |-> "none", book |-> Nobody, node |-> Root, target |-> Root,
         title |-> Unnamed, position |-> "none"]

ChangeInit ==
    /\ space \in {"personal", "organization"}
    /\ op = [c \in Change |-> NoOp]
    /\ base = [c \in Change |-> [n \in Node |-> NoEntry]]
    /\ pc = [c \in Change |-> "new"]
    /\ inserted = [c \in Change |-> Root]
    /\ verdict = [c \in Change |-> "none"]

Catalog(c) == cat[op[c].book]

Answer == {"ok", "refused", "uncertain"}
Errors == Answer \ {"ok"}
Recorded(a) == IF a = "uncertain" THEN "unknown" ELSE "failed"

Goto(c, step) == pc' = [pc EXCEPT ![c] = step] /\ UNCHANGED <<verdict, holder>>
End(c, v) == /\ verdict' = [verdict EXCEPT ![c] = v]
             /\ pc' = [pc EXCEPT ![c] = "done"]
             /\ holder' = [holder EXCEPT ![op[c].book] = Nobody]
Fails(c) == \E a \in Errors : End(c, Recorded(a))

-----------------------------------------------------------------------------
(* prepareCatalogChange: whether an operation makes sense in catalog k.    *)

\* The parent of the node after a move; that of the target as it was read.
NewParent(o, k) == IF o.position = "into" THEN o.target ELSE k[o.target].parent

CanCreate(o, k) == IsDir(k, o.target) /\ Unique(k, o.target, o.title, Nobody)

CanRename(o, k) ==
    /\ In(k, o.node) /\ k[o.node].type = "TITLE" /\ o.title # k[o.node].title
    /\ Unique(k, k[o.node].parent, o.title, o.node)

CanMove(o, k) ==
    /\ In(k, o.node) /\ o.target \in Node /\ In(k, o.target) /\ o.target # o.node
    /\ o.position = "into" => k[o.target].type = "TITLE"
    /\ k[o.node].type = "TITLE" => ~Descendant(k, o.target, o.node)
    /\ Unique(k, NewParent(o, k), k[o.node].title, o.node)

CanDelete(o, k) == In(k, o.node) /\ k[o.node].type = "TITLE" /\ Children(k, o.node) = {}

Possible(o, k) ==
    \/ o.action = "create" /\ CanCreate(o, k)
    \/ o.action = "rename" /\ CanRename(o, k)
    \/ o.action = "move" /\ CanMove(o, k)
    \/ o.action = "delete" /\ CanDelete(o, k)

\* assertCatalogChangeEnabled
Enabled(action) == space = "personal" \/ action = "move"

Ops(c) ==
    LET o(action, b, n, p, title, pos) ==
            [action |-> action, book |-> b, node |-> n, target |-> p, title |-> title,
             position |-> pos]
    IN  {o("create", b, c, p, title, "none") : b \in Book, p \in Dir \cup {Root}, title \in Title}
        \cup {o("rename", b, n, Root, title, "none") : b \in Book, n \in Dir, title \in Title}
        \cup {o("move", b, n, m, Unnamed, pos) :
                b \in Book, n \in Dir \cup Table, m \in Dir \cup Table, pos \in {"into", "after"}}
        \cup {o("delete", b, n, Root, Unnamed, "none") : b \in Book, n \in Dir}

-----------------------------------------------------------------------------
PreviewCatalog(c) ==
    /\ pc[c] = "new"
    /\ \E o \in Ops(c) :
        /\ Enabled(o.action) /\ Possible(o, cat[o.book])
        /\ op' = [op EXCEPT ![c] = o]
        /\ base' = [base EXCEPT ![c] = cat[o.book]]
    /\ Goto(c, "previewed")
    /\ disturbed' = disturbed \ {c}
    /\ UNCHANGED <<space, inserted, cat, rows, edits, late, sent, hit, unanswered, calm, lost>>

\* The local lock's key is the book.
ConfirmCatalog(c) ==
    /\ pc[c] = "previewed"
    /\ holder[op[c].book] = Nobody
    /\ holder' = [holder EXCEPT ![op[c].book] = c]
    /\ pc' = [pc EXCEPT ![c] = "rechecking"]
    /\ UNCHANGED <<space, op, base, inserted, verdict, cat, rows, edits, late, sent, hit, unanswered,
                   calm, lost, disturbed>>

Reads == UNCHANGED <<space, op, base, cat, rows, edits, late, sent, hit, unanswered, lost, disturbed>>

SameCatalog(c) == Catalog(c) = base[c]

\* execute(): a catalog that differs is a conflict.
RecheckCatalog(c) ==
    /\ pc[c] = "rechecking"
    /\ \/ SameCatalog(c) /\ Goto(c, "preparing")
       \/ /\ ~SameCatalog(c)
          /\ End(c, IF Possible(op[c], Catalog(c)) THEN "conflict" ELSE "failed")
       \/ Fails(c)
    /\ UNCHANGED <<inserted, calm>> /\ Reads

\* changeCatalog's own read: a contract error.
PrepareCatalog(c) ==
    /\ pc[c] = "preparing"
    /\ \/ SameCatalog(c) /\ Goto(c, IF op[c].action = "create" THEN "inserting" ELSE "writing")
       \/ ~SameCatalog(c) /\ End(c, "failed")
       \/ Fails(c)
    /\ calm' = calm \cup {c}
    /\ UNCHANGED inserted /\ Reads

-----------------------------------------------------------------------------
(* Requests.  Effect and whether Yuque can apply it.                       *)

Applies(c) ==
    LET o == op[c] k == Catalog(c)
    IN  IF o.action = "create" THEN IsDir(k, o.target) /\ ~In(k, c)
        ELSE In(k, o.node) /\ (o.action = "move" => In(k, o.target))

Applied(c) ==
    LET o == op[c]
    IN  CASE o.action = "create" -> Insert(o.book, o.target, c, [NoEntry EXCEPT !.type = "TITLE"])
          [] o.action = "rename" -> Retitle(o.book, o.node, o.title)
          [] o.action = "move"   -> Reparent(o.book, o.node, NewParent(o, Catalog(c)))
          [] o.action = "delete" -> Destroy(o.book, o.node)

\* One answer a to the change's first request.
Requested(c, a) ==
    /\ sent' = sent \cup {c}
    /\ unanswered' = IF a = "uncertain" THEN unanswered \cup {c} ELSE unanswered
    /\ \E reached \in BOOLEAN, delayed \in BOOLEAN :
        /\ a = "ok" => reached
        /\ reached => Applies(c)
        /\ delayed => a = "uncertain" /\ ~reached
        /\ cat' = IF reached THEN Applied(c) ELSE cat
        /\ hit' = IF reached THEN hit \cup {c} ELSE hit
        /\ late' = IF delayed THEN late \cup {c} ELSE late
        /\ disturbed' = IF reached THEN disturbed \cup (Confirms \ {c}) ELSE disturbed
        /\ lost' = IF reached /\ c \in calm /\ Catalog(c) # base[c] THEN lost \cup {c} ELSE lost
    /\ UNCHANGED <<space, op, base, rows, edits, calm>>

\* Directories under the parent that the baseline did not have.
Candidates(c, k) == {n \in Children(k, op[c].target) : k[n].type = "TITLE" /\ ~In(base[c], n)}

\* The only new directory of the parent is taken for the inserted one.
Identified(c, new) ==
    \/ /\ Cardinality(new) = 1
       /\ \E n \in new : inserted' = [inserted EXCEPT ![c] = n]
       /\ Goto(c, "renaming")
    \/ Cardinality(new) # 1 /\ End(c, "unknown") /\ UNCHANGED inserted

\* insertCatalogGroup: an answer holds the catalog, no answer is waited for.
InsertGroup(c) ==
    /\ pc[c] = "inserting"
    /\ \E a \in Answer :
        /\ Requested(c, a)
        /\ \/ a = "uncertain" /\ Goto(c, "finding") /\ UNCHANGED inserted
           \/ a = "refused" /\ End(c, "failed") /\ UNCHANGED inserted
           \/ a = "ok" /\ Identified(c, Candidates(c, cat'[op[c].book]))

FindInserted(c) ==
    /\ pc[c] = "finding"
    /\ Identified(c, Candidates(c, Catalog(c))) \/ (Fails(c) /\ UNCHANGED inserted)
    /\ UNCHANGED calm /\ Reads

\* The rename of the inserted directory: its error is remembered only.
RenameInserted(c) ==
    /\ pc[c] = "renaming"
    /\ \E reached \in BOOLEAN :
        /\ reached => In(Catalog(c), inserted[c])
        /\ cat' = IF reached THEN Retitle(op[c].book, inserted[c], op[c].title) ELSE cat
        /\ disturbed' = IF reached THEN disturbed \cup (Confirms \ {c}) ELSE disturbed
    /\ Goto(c, "checking")
    /\ UNCHANGED <<space, inserted, op, base, rows, edits, late, sent, hit, unanswered, calm, lost>>

Renamed(c) == In(Catalog(c), inserted[c]) /\ Catalog(c)[inserted[c]].title = op[c].title

CheckRenamed(c) ==
    /\ pc[c] = "checking"
    /\ End(c, IF Renamed(c) THEN "succeeded" ELSE "partial") \/ Fails(c)
    /\ UNCHANGED <<inserted, calm>> /\ Reads

MutantAnswered(a) == a # "refused"
Answered(a) == a = "ok"

\* rename, move and delete: without an answer nothing is reconciled.
WriteNode(c) ==
    /\ pc[c] = "writing"
    /\ \E a \in Answer :
        /\ Requested(c, a)
        /\ IF Answered(a) THEN Goto(c, "verifying") ELSE End(c, Recorded(a))
    /\ UNCHANGED inserted

\* The catalog shows the operation; a move by its parent alone.
Shows(c) ==
    LET o == op[c] k == Catalog(c)
    IN  \/ o.action = "delete" /\ ~In(k, o.node)
        \/ o.action = "rename" /\ In(k, o.node) /\ k[o.node].title = o.title
        \/ o.action = "move" /\ In(k, o.node) /\ k[o.node].parent = NewParent(o, base[c])

MutantVerified(c) == End(c, IF Shows(c) THEN "succeeded" ELSE "conflict")
Verified(c) == End(c, IF Shows(c) THEN "succeeded" ELSE "failed")

VerifyNode(c) ==
    /\ pc[c] = "verifying"
    /\ Verified(c) \/ Fails(c)
    /\ UNCHANGED <<inserted, calm>> /\ Reads

LandChange(c) ==
    /\ c \in late
    /\ late' = late \ {c}
    /\ cat' = IF Applies(c) THEN Applied(c) ELSE cat
    /\ hit' = IF Applies(c) THEN hit \cup {c} ELSE hit
    /\ calm' = {}
    /\ disturbed' = disturbed \cup (Confirms \ {c})
    /\ UNCHANGED <<catVars, rows, edits, holder, sent, unanswered, lost>>

ChangeNext(c) ==
    \/ PreviewCatalog(c) \/ ConfirmCatalog(c) \/ RecheckCatalog(c) \/ PrepareCatalog(c)
    \/ InsertGroup(c) \/ FindInserted(c) \/ RenameInserted(c) \/ CheckRenamed(c)
    \/ WriteNode(c) \/ VerifyNode(c) \/ LandChange(c)
=============================================================================
