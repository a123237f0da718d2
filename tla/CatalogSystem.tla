--------------------------- MODULE CatalogSystem ---------------------------
(***************************************************************************)
(* Catalog changes and Table transfers over the same catalogs, with one    *)
(* restart of the process in the midst of them.                            *)
(***************************************************************************)
EXTENDS CatalogChange, TableTransfer

CONSTANT MayCrash

ASSUME CrashAssumption == MayCrash \in BOOLEAN

VARIABLE crashed

vars == <<shared, catVars, transferVars, crashed>>

Init == CatalogsInit /\ ChangeInit /\ TransferInit /\ crashed = FALSE

\* A request that was being sent is on its way, or is not; the row of every
\* interrupted confirm becomes unknown.
Crash ==
    /\ MayCrash /\ ~crashed
    /\ crashed' = TRUE
    /\ LET writing == {c \in Change : pc[c] \in {"inserting", "writing"}}
                      \cup {t \in Transfer : at[t] = "sending"}
       IN  \E gone \in SUBSET writing : late' = late \cup gone /\ sent' = sent \cup gone
                                        /\ unanswered' = unanswered \cup gone
    /\ holder' = [b \in Book |-> Nobody]
    /\ LET running == {c \in Change : pc[c] \notin {"new", "previewed", "done"}}
       IN  /\ pc' = [c \in Change |-> IF c \in running THEN "done" ELSE pc[c]]
           /\ verdict' = [c \in Change |-> IF c \in running THEN "unknown" ELSE verdict[c]]
    /\ LET running == {t \in Transfer : at[t] \notin {"new", "previewed", "done"}}
       IN  /\ at' = [t \in Transfer |-> IF t \in running THEN "done" ELSE at[t]]
           /\ state' = [t \in Transfer |-> IF t \in running THEN "unknown" ELSE state[t]]
    /\ phase' = journal
    /\ UNCHANGED <<cat, rows, edits, hit, calm, lost, disturbed, space, op, base, inserted,
                   plan, journal, source, exact>>

\* assertTableTransferWritable, with writes open and the kill switch off
Writable == space = "organization"

Next ==
    \/ \E c \in Change : ChangeNext(c) /\ UNCHANGED <<transferVars, crashed>>
    \/ \E t \in Transfer : Writable /\ TransferNext(t) /\ UNCHANGED <<catVars, crashed>>
    \/ ColleagueStep /\ UNCHANGED <<catVars, transferVars, crashed>>
    \/ Crash

Spec == Init /\ [][Next]_vars

-----------------------------------------------------------------------------
(* Properties                                                              *)

Ended(c, v) == IF c \in Change THEN pc[c] = "done" /\ verdict[c] = v
               ELSE at[c] = "done" /\ state[c] = v

TreeKept ==
    edits = 0 /\ unanswered = {} =>
        /\ \A b \in Book : Rooted(cat[b])
        /\ \A t \in Table : \E b \in Book : In(cat[b], t)

\* Applied requests met the catalogs their previews showed, unless a colleague
\* or a late request wrote after the last read: no confirm of the process comes
\* between, be it a change of one of two books of a transfer (withTargetLocks,
\* catalogFingerprint, baselineFingerprint).  And without colleagues and
\* unanswered requests the trees stay trees, and no Table goes with a directory
\* (prepareCatalogChange: descendants, children).
CatalogsKept == CatalogsSound /\ lost = {} /\ TreeKept

ConflictSentNothing == \A c \in Confirms : Ended(c, "conflict") => c \notin sent

SuccessIsReal ==
    \A c \in Confirms : Ended(c, "succeeded") =>
        c \in hit \/ (c \in unanswered /\ op[c].action = "create")

JournalAhead == \A t \in Transfer \cap sent : journal[t].phase # "prepared"

SuccessIsExact == \A t \in Transfer : Ended(t, "succeeded") => t \in hit \cap exact

\* "conflict" means that nothing was sent, for a change and for a transfer.  A
\* success is a request that was applied; only a creation whose insertion was not
\* answered may have taken another directory for its own; and a transfer left both
\* catalogs and the contents as the preview had them, but for its own document,
\* unless somebody else wrote while it read them one after the other.
OutcomeIsTrue == ConflictSentNothing /\ SuccessIsReal /\ SuccessIsExact

Reconcilable ==
    \A t \in Transfer \cap hit : at[t] = "done" /\ t \notin disturbed
        => TargetPresent(t) \/ NewDocuments(t) # {}

\* The row says that a request may have been sent before it is sent (checkpoint of
\* executeTableTransfer), which a restart can only read there; and whatever is not
\* told as success is found by the reconciliation of the row once the request was
\* applied, if no colleague moved things since.
TransferReconcilable == JournalAhead /\ Reconcilable
=============================================================================
