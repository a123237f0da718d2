------------------------------ MODULE Catalogs ------------------------------
(***************************************************************************)
(* The catalogs of the knowledge bases: a tree of directories and document *)
(* entries per book, at Yuque.  CatalogChange and TableTransfer act on the *)
(* same catalogs, under the local locks of their books, beside a colleague.*)
(* The order of siblings is left out: moving among them is one more edit.  *)
(***************************************************************************)
EXTENDS Naturals, FiniteSets

CONSTANTS
    Change, Transfer,  \* confirms that change a catalog, or transfer a Table
    Book,
    Dir, Table,        \* nodes there at the start: directories and Tables
    Stranger,          \* directories the colleague may add
    Title,             \* titles the user chooses
    Home,              \* where the nodes of the start are: [Dir \cup Table -> Book]
    Under,             \* and their parents there: [Dir \cup Table -> Dir \cup {Root}]
    Depth,             \* bound: levels of a catalog
    MaxEdits           \* bound: edits of the colleague

ASSUME CatalogAssumption ==
    /\ Home \in [Dir \cup Table -> Book] /\ DOMAIN Under = DOMAIN Home
    /\ MaxEdits \in Nat /\ Depth \in Nat

VARIABLES
    cat,       \* per book and node: its entry or NoEntry
    rows,      \* contents of each Table
    edits,     \* edits of the colleague so far
    holder,    \* the confirm inside each book's local lock
    late,      \* requests without an answer that are still on their way
    sent,      \* history: confirms that sent a write
    hit,       \* history: those whose first write was applied
    unanswered,\* history: those with a write without an answer
    calm,      \* history: nobody else wrote since their last read before it (for
               \* a transfer, or since the first read after it)
    lost,      \* history: applied, in the calm, to a catalog never previewed
    disturbed  \* history: somebody else wrote since their preview

shared == <<cat, rows, edits, holder, late, sent, hit, unanswered, calm, lost, disturbed>>

Confirms == Change \cup Transfer

Nobody   == "nobody"
Root     == "root"
Unnamed  == "unnamed"     \* what Yuque calls a new directory
NoEntry  == [type |-> "NONE", title |-> Unnamed, parent |-> Root]
Folder   == Dir \cup Stranger \cup Change      \* the nodes that are directories
Node     == Folder \cup Table \cup Transfer

\* A new node is a new name.
ASSUME NamesAssumption ==
    /\ {Nobody, Root} \cap Node = {}
    /\ Dir \cap (Stranger \cup Change) = {} /\ Folder \cap (Table \cup Transfer) = {}
    /\ Stranger \cap Change = {} /\ Table \cap Transfer = {}

\* As many levels as there are directories, and one.
ASSUME DepthAssumption == IsFiniteSet(Folder) /\ Depth > Cardinality(Folder)

Entry    == [type : {"TITLE", "DOC"}, title : Title \cup Table \cup Dir \cup {Unnamed},
             parent : Node \cup {Root}]

Contents == {"first", "edited"}

CatalogsSound ==
    /\ cat \in [Book -> [Node -> Entry \cup {NoEntry}]]
    /\ rows \in [Table \cup Transfer -> Contents]
    /\ edits \in 0 .. MaxEdits
    /\ holder \in [Book -> Confirms \cup {Nobody}]
    /\ late \cup sent \cup hit \cup unanswered \cup calm \cup lost \cup disturbed \subseteq Confirms

\* The catalog of book b at the start.
Start(b) == [n \in Node |->
    IF n \in DOMAIN Home /\ Home[n] = b
    THEN [type |-> IF n \in Dir THEN "TITLE" ELSE "DOC", title |-> n,
          parent |-> IF Under[n] \in Dir THEN Under[n] ELSE Root]
    ELSE NoEntry]

CatalogsInit ==
    /\ cat = [b \in Book |-> Start(b)]
    /\ rows = [t \in Table \cup Transfer |-> "first"]
    /\ edits = 0
    /\ holder = [b \in Book |-> Nobody]
    /\ late = {} /\ sent = {} /\ hit = {} /\ unanswered = {}
    /\ calm = {} /\ lost = {} /\ disturbed = {}

-----------------------------------------------------------------------------
(* Reading a catalog k.                                                    *)

In(k, n)    == k[n].type # "NONE"
IsDir(k, p) == p = Root \/ (p \in Node /\ In(k, p) /\ k[p].type = "TITLE")

\* assertUniqueCatalogTitle
Unique(k, p, title, but) ==
    ~\E n \in Node \ {but} : In(k, n) /\ k[n].parent = p /\ k[n].title = title

Children(k, n) == {m \in Node : In(k, m) /\ k[m].parent = n}

\* The nodes under n: m's path to the root passes n.
Below(k, n) ==
    LET down[i \in 0 .. Depth] ==
            IF i = 0 THEN {n}
            ELSE LET above == down[i - 1]
                 IN  {n} \cup {m \in Node : In(k, m) /\ k[m].parent \in above}
    IN  down[Depth]

\* catalogNodeIsDescendant, or the node itself
Descendant(k, m, n) == m \in Below(k, n)

-----------------------------------------------------------------------------
(* What Yuque does with a request; one it cannot apply it refuses.         *)

Insert(b, p, n, entry) == [cat EXCEPT ![b][n] = [entry EXCEPT !.parent = p]]
Retitle(b, n, title)   == [cat EXCEPT ![b][n].title = title]
Reparent(b, n, p)      == [cat EXCEPT ![b][n].parent = p]
Destroy(b, n) ==
    LET doomed == Below(cat[b], n)
    IN  [cat EXCEPT ![b] = [m \in Node |-> IF m \in doomed THEN NoEntry ELSE cat[b][m]]]

\* A tree without loops or orphans: what catalogPath insists on.
Rooted(k) ==
    LET tree == Below(k, Root)
    IN  \A n \in Node : In(k, n) => n \in tree /\ IsDir(k, k[n].parent)

ASSUME StartAssumption == \A b \in Book : Rooted(Start(b))

-----------------------------------------------------------------------------
(* The colleague in the web page: nothing of a confirm but history changes.*)

Disturbs == /\ calm' = {}
            /\ disturbed' = Confirms
            /\ edits < MaxEdits /\ edits' = edits + 1
            /\ UNCHANGED <<holder, late, sent, hit, unanswered, lost>>

AddDir(b, n, p) ==
    /\ ~In(cat[b], n) /\ IsDir(cat[b], p)
    /\ cat' = Insert(b, p, n, [NoEntry EXCEPT !.type = "TITLE"])
    /\ UNCHANGED rows /\ Disturbs

RenameNode(b, n, title) ==
    /\ In(cat[b], n) /\ cat[b][n].type = "TITLE" /\ title # cat[b][n].title
    /\ cat' = Retitle(b, n, title)
    /\ UNCHANGED rows /\ Disturbs

RemoveNode(b, n) ==
    /\ In(cat[b], n)
    /\ cat' = Destroy(b, n)
    /\ UNCHANGED rows /\ Disturbs

EditTable(t) ==
    /\ rows[t] = "first"
    /\ rows' = [rows EXCEPT ![t] = "edited"]
    /\ UNCHANGED cat /\ Disturbs

ColleagueStep ==
    \/ \E b \in Book :
        \/ \E n \in Stranger, p \in Node \cup {Root} : AddDir(b, n, p)
        \/ \E n \in Node : RemoveNode(b, n) \/ \E v \in Title : RenameNode(b, n, v)
    \/ \E t \in Table : EditTable(t)
=============================================================================
