--------------------------- MODULE TableTransfer ---------------------------
(***************************************************************************)
(* transfer_table_document: copy or move of a whole Table from one book of *)
(* an organization to another.  One request, journalled before it is sent  *)
(* and after it is answered; then the two catalogs and the contents are    *)
(* read and compared.  Every error before the request is a conflict, every *)
(* one without an answer unknown, every later one partial.                 *)
(* A prepare reads two catalogs and the contents; here it is one step.     *)
(***************************************************************************)
EXTENDS Catalogs

VARIABLES
    plan,      \* what each transfer does, and what its preview read
    at,        \* where it is
    phase,     \* phase and resultDocId of its plan in memory
    journal,   \* and as the row holds them
    source,    \* the source catalog as read after the request
    state,     \* the recorded outcome
    exact      \* history: told as success where everything was as the preview had it
               \* but for its own change, or somebody else wrote between the reads

transferVars == <<plan, at, phase, journal, source, state, exact>>

NoCatalog == [n \in Node |-> NoEntry]
NoPlan == [action |-> "none", table |-> Nobody, from |-> Nobody, to |-> Nobody, parent |-> Root,
           sourceCatalog |-> NoCatalog, targetCatalog |-> NoCatalog, content |-> "first"]

Prepared == [phase |-> "prepared", doc |-> Nobody]

TransferInit ==
    /\ plan = [t \in Transfer |-> NoPlan]
    /\ at = [t \in Transfer |-> "new"]
    /\ phase = [t \in Transfer |-> Prepared]
    /\ journal = [t \in Transfer |-> Prepared]
    /\ source = [t \in Transfer |-> NoCatalog]
    /\ state = [t \in Transfer |-> "none"]
    /\ exact = {}

Proceed(t, step) == at' = [at EXCEPT ![t] = step] /\ UNCHANGED <<state, holder>>

\* What the catch makes of an error, from the phase it came in.
Outcome(t) ==
    CASE phase'[t].phase = "prepared" -> "conflict"
      [] phase'[t].phase = "transmitting" -> "unknown"
      [] OTHER -> "partial"

Finish(t, s) ==
    /\ state' = [state EXCEPT ![t] = s]
    /\ at' = [at EXCEPT ![t] = "done"]
    /\ holder' = [b \in Book |-> IF holder[b] = t THEN Nobody ELSE holder[b]]

Stops(t) == Finish(t, Outcome(t))

\* checkpoint: the plan as it is now goes into the row.
Checkpoint(t) == journal' = [journal EXCEPT ![t] = phase'[t]]

Still == UNCHANGED <<cat, rows, edits, late, sent, hit, unanswered, lost, disturbed>>

-----------------------------------------------------------------------------
\* prepareTransferPlan: a leaf Table, another book, a directory, a new title.
CanTransfer(p, k, l) ==
    /\ p.from # p.to
    /\ In(k, p.table) /\ Children(k, p.table) = {}
    /\ IsDir(l, p.parent)
    /\ Unique(l, p.parent, k[p.table].title, Nobody)

\* The rows and their descriptions, neither their order nor who wrote them when.
Content(n) == rows[n]

\* prepareTableTransfer
PlanOf(action, n, from, to, p) ==
    [action |-> action, table |-> n, from |-> from, to |-> to, parent |-> p,
     sourceCatalog |-> cat[from], targetCatalog |-> cat[to], content |-> Content(n)]

PreviewTransfer(t) ==
    /\ at[t] = "new"
    /\ \E action \in {"copy", "move"}, n \in Table, from, to \in Book, p \in Dir \cup {Root} :
        LET new == PlanOf(action, n, from, to, p)
        IN  CanTransfer(new, cat[from], cat[to]) /\ plan' = [plan EXCEPT ![t] = new]
    /\ Proceed(t, "previewed")
    /\ disturbed' = disturbed \ {t}
    /\ UNCHANGED <<phase, journal, source, exact, cat, rows, edits, late, sent, hit, unanswered,
                   calm, lost>>

MutantBooks(t) == {plan[t].to}

\* The keys of its local locks; that of the source document meets none here.
Books(t) == {plan[t].from, plan[t].to}

ConfirmTransfer(t) ==
    /\ at[t] = "previewed"
    /\ \A b \in Books(t) : holder[b] = Nobody
    /\ holder' = [b \in Book |-> IF b \in Books(t) THEN t ELSE holder[b]]
    /\ at' = [at EXCEPT ![t] = "preparing"]
    /\ UNCHANGED <<plan, phase, journal, source, state, exact, calm>> /\ Still

\* baselineFingerprint: catalogs and contents as the preview read them.
SamePlan(t) ==
    LET p == plan[t]
    IN  cat[p.from] = p.sourceCatalog /\ cat[p.to] = p.targetCatalog /\ Content(p.table) = p.content

PrepareTransfer(t) ==
    /\ at[t] = "preparing"
    /\ calm' = calm \cup {t}
    /\ \/ /\ SamePlan(t)
          /\ phase' = [phase EXCEPT ![t].phase = "transmitting"]
          /\ Checkpoint(t)
          /\ Proceed(t, "sending")
       \/ UNCHANGED <<phase, journal>> /\ Stops(t)   \* it differs, or a read failed
    /\ UNCHANGED <<plan, source, exact>> /\ Still

-----------------------------------------------------------------------------
TransferApplies(t) ==
    LET p == plan[t]
    IN  In(cat[p.from], p.table) /\ IsDir(cat[p.to], p.parent) /\ ~In(cat[p.to], t)

\* A copy is a document of its own, a move keeps the document.
Copied(t) == IF plan[t].action = "copy" THEN t ELSE plan[t].table

Transferred(t) ==
    LET p == plan[t]
        entry == [cat[p.from][p.table] EXCEPT !.parent = p.parent]
    IN  [cat EXCEPT ![p.to][Copied(t)] = entry,
                    ![p.from][p.table] = IF p.action = "copy" THEN @ ELSE NoEntry]

Transmitted(t, reached) ==
    /\ cat' = IF reached THEN Transferred(t) ELSE cat
    /\ rows' = IF reached THEN [rows EXCEPT ![Copied(t)] = rows[plan[t].table]] ELSE rows
    /\ hit' = IF reached THEN hit \cup {t} ELSE hit
    /\ disturbed' = IF reached THEN disturbed \cup (Confirms \ {t}) ELSE disturbed

\* The request.  A refusal and a shape nobody expected leave "transmitting".
SendTransfer(t) ==
    /\ at[t] = "sending"
    /\ sent' = sent \cup {t}
    /\ \E ok, reached, delayed \in BOOLEAN :
        /\ ok => reached
        /\ reached => TransferApplies(t)
        /\ delayed => ~reached
        /\ Transmitted(t, reached)
        /\ late' = IF delayed THEN late \cup {t} ELSE late
        /\ unanswered' = IF ok THEN unanswered ELSE unanswered \cup {t}
        /\ lost' = IF reached /\ t \in calm /\ ~SamePlan(t) THEN lost \cup {t} ELSE lost
        /\ IF ok
           THEN /\ phase' = [phase EXCEPT ![t] = [phase |-> "acknowledged", doc |-> Copied(t)]]
                /\ Checkpoint(t) /\ Proceed(t, "locating")
           ELSE UNCHANGED <<phase, journal>> /\ Stops(t)
    /\ UNCHANGED <<plan, source, exact, edits, calm>>

LandTransfer(t) ==
    /\ t \in late
    /\ late' = late \ {t}
    /\ Transmitted(t, TransferApplies(t))
    /\ calm' = {}
    /\ UNCHANGED <<transferVars, edits, holder, sent, unanswered, lost>>

-----------------------------------------------------------------------------
\* transferCatalogFingerprint, without document n.
Apart(k, n) == [k EXCEPT ![n] = NoEntry]

\* The baseline with t's own change, as a whole.
OnlyItsOwn(t) ==
    LET p == plan[t]
    IN  /\ Apart(cat[p.from], p.table) = Apart(p.sourceCatalog, p.table)
        /\ Apart(cat[p.to], Copied(t)) = p.targetCatalog
        /\ rows[p.table] = p.content /\ rows[Copied(t)] = p.content

\* The first of the reads that are compared.
LocateSource(t) ==
    /\ at[t] = "locating"
    /\ UNCHANGED phase
    /\ \/ /\ source' = [source EXCEPT ![t] = cat[plan[t].from]]
          /\ Proceed(t, "matching")
       \/ Stops(t) /\ UNCHANGED source
    /\ calm' = calm \cup {t}
    /\ UNCHANGED <<plan, journal, exact>> /\ Still

\* Unrelated nodes are those of the preview's two catalogs.
Unrelated(t) ==
    LET p == plan[t]
    IN  /\ (IF p.action = "move"
            THEN Apart(source[t], p.table) = Apart(p.sourceCatalog, p.table)
            ELSE source[t] = p.sourceCatalog)
        /\ Apart(cat[p.to], phase[t].doc) = p.targetCatalog

\* Location, identity and unrelated nodes, after the target catalog is read.
LocateTarget(t) ==
    LET p == plan[t]
        entry == cat[p.to][phase[t].doc]
    IN  /\ at[t] = "matching"
        /\ UNCHANGED phase
        /\ Checkpoint(t)
        /\ \/ /\ entry.type = "DOC" /\ entry.parent = p.parent
              /\ entry.title = p.sourceCatalog[p.table].title
              /\ In(source[t], p.table) <=> p.action = "copy"
              /\ Unrelated(t)
              /\ Proceed(t, "comparing")
           \/ Stops(t)
        /\ UNCHANGED <<plan, source, exact, calm>> /\ Still

\* The contents of the result, and of the source of a copy.
CompareContents(t) ==
    LET p == plan[t]
    IN  /\ at[t] = "comparing"
        /\ \/ /\ Content(phase[t].doc) = p.content
              /\ p.action = "copy" => Content(p.table) = p.content
              /\ phase' = [phase EXCEPT ![t].phase = "completed"]
              /\ Checkpoint(t)
              /\ Finish(t, "succeeded")
              /\ exact' = IF t \in calm => OnlyItsOwn(t) THEN exact \cup {t} ELSE exact
           \/ UNCHANGED <<phase, journal, exact>> /\ Stops(t)
        /\ UNCHANGED <<plan, source, calm>> /\ Still

-----------------------------------------------------------------------------
(* reconcileTableTransfer, from what the row holds.                        *)

Known(t) == IF journal[t].doc # Nobody THEN {journal[t].doc}
            ELSE IF plan[t].action = "move" THEN {plan[t].table} ELSE {}

MutantNewDocuments(t) == {}

\* candidate_new_documents
NewDocuments(t) ==
    {n \in Node : /\ cat[plan[t].to][n].type = "DOC"
                  /\ plan[t].targetCatalog[n].type # "DOC"}

TargetPresent(t) == \E n \in Known(t) : In(cat[plan[t].to], n)

TransferNext(t) ==
    \/ PreviewTransfer(t) \/ ConfirmTransfer(t) \/ PrepareTransfer(t) \/ SendTransfer(t)
    \/ LandTransfer(t) \/ LocateSource(t) \/ LocateTarget(t) \/ CompareContents(t)
=============================================================================
