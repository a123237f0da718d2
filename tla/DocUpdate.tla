----------------------------- MODULE DocUpdate -----------------------------
(***************************************************************************)
(* execute() for changes of one Yuque document.  A Lake document:          *)
(* update_doc in its section and rename modes, restore_snapshot and        *)
(* restore_doc_version.  An independent Sheet: update_sheet and the restore*)
(* of a Sheet snapshot.  Several confirms, and a colleague in the web      *)
(* editor, who saves drafts and publishes, work on it.                     *)
(*                                                                         *)
(* An action is one call of the client with the code that runs on its      *)
(* answer and, for a write, the read that reconciles it.  A write that is  *)
(* not answered well may have been applied or not; an answer is "ok",      *)
(* "refused" (an HTTP status or contract error) or "uncertain" (timeout,   *)
(* network), and only the last is reconciled.  Local serialization is      *)
(* ConfirmStore's: here a key has a holder.  The remote document is        *)
(* external, seen through the requests; a collaborator counts as a locker. *)
(***************************************************************************)
EXTENDS Naturals

CONSTANTS
    Change,       \* confirms of this document
    Part,         \* sections of its body; ranges of its workbook
    Key,          \* spellings of its URL, as given to the preview
    KeyOf,        \* the spelling each change was previewed with
    PartOf,       \* the section each change replaces
    Renames,      \* changes that set a new title
    RenamesOnly,  \* mode rename: the body is left alone
    Restores,     \* mode restore: the whole body is replaced
    HonoursLock,  \* the colleague edits only with the editor lock
    MaxEdits      \* bound: edits of the colleague

ASSUME ModeAssumption ==
    /\ KeyOf \in [Change -> Key] /\ PartOf \in [Change -> Part]
    /\ RenamesOnly \subseteq Renames /\ Renames \subseteq Change
    /\ Restores \subseteq Change \ RenamesOnly
ASSUME EditAssumption == HonoursLock \in BOOLEAN /\ MaxEdits \in Nat

VARIABLES
    format,   \* what it is: "lake" or "lakesheet"
    doc,      \* remote: body draft and published body, title, draft version, locker
    edits,    \* edits of the colleague so far
    holder,   \* the confirm inside each local lock key
    pc,       \* where each confirm is
    base,     \* what its preview read
    seen,     \* what it read last (`current')
    snap,     \* its encrypted snapshot
    locked,   \* `acquired' of withVerifiedResourceLock
    written,  \* `contentWritten'
    verdict,  \* the outcome it is heading for
    hit       \* history: one of its writes was applied

vars == <<format, doc, edits, holder, pc, base, seen, snap, locked, written, verdict, hit>>

Nobody == "nobody"
Ours   == "ours"      \* docLockClientUuid, one per process
Theirs == "theirs"

ASSUME ChangeAssumption == {"base", "edited", Nobody} \cap Change = {}

Contents == [Part -> Change \cup {"base", "edited"}]
Titles   == Change \cup {"base"}
View     == [body: Contents, title: Titles, version: Nat]
NoView   == [body |-> [p \in Part |-> "base"], title |-> "base", version |-> 0]

Verdict == {"none", "succeeded", "unknown", "failed", "conflict", "partial"}
Step == {"new", "previewed", "reading", "checking", "acquiring", "rereading",
         "saving", "publishing", "renaming", "verifying", "releasing", "leaving", "done"}

TypeOK ==
    /\ format \in {"lake", "lakesheet"}
    /\ doc \in [draft: Contents, live: Contents, title: Titles, version: Nat,
                locker: {Nobody, Ours, Theirs}]
    /\ edits \in 0 .. MaxEdits
    /\ holder \in [Key -> Change \cup {Nobody}]
    /\ pc \in [Change -> Step]
    /\ base \in [Change -> View]
    /\ seen \in [Change -> View]
    /\ snap \in [Change -> View]
    /\ locked \in [Change -> BOOLEAN]
    /\ written \in [Change -> BOOLEAN]
    /\ verdict \in [Change -> Verdict]
    /\ hit \in SUBSET Change

Init ==
    /\ format \in {"lake", "lakesheet"}
    /\ doc = [draft |-> NoView.body, live |-> NoView.body, title |-> "base",
              version |-> 1, locker |-> Nobody]
    /\ edits = 0
    /\ holder = [k \in Key |-> Nobody]
    /\ pc = [c \in Change |-> "new"]
    /\ base = [c \in Change |-> NoView]
    /\ seen = [c \in Change |-> NoView]
    /\ snap = [c \in Change |-> NoView]
    /\ locked = [c \in Change |-> FALSE]
    /\ written = [c \in Change |-> FALSE]
    /\ verdict = [c \in Change |-> "none"]
    /\ hit = {}

-----------------------------------------------------------------------------
\* getDoc reads the published body, getSheet the draft; title and draft
\* version are in both fingerprints.
Body == IF format = "lake" THEN doc.live ELSE doc.draft
Read == [body |-> Body, title |-> doc.title, version |-> doc.version]

\* proposedLake
Proposed(c) ==
    IF c \in Restores THEN [p \in Part |-> c] ELSE [seen[c].body EXCEPT ![PartOf[c]] = c]

Goto(c, step) == pc' = [pc EXCEPT ![c] = step]

\* The confirm is over with v, but for the locks it still holds.
End(c, v) ==
    /\ verdict' = [verdict EXCEPT ![c] = v]
    /\ Goto(c, IF locked'[c] THEN "releasing" ELSE "leaving")

\* How confirmChange records an error that is neither a conflict nor partial.
Recorded(answer) == IF answer = "uncertain" THEN "unknown" ELSE "failed"

Answer == {"ok", "refused", "uncertain"}
Errors == Answer \ {"ok"}

-----------------------------------------------------------------------------
\* update_sheet, and restore_sheet_snapshot
Updates(c)  == format = "lakesheet" /\ c \notin Restores
Replaces(c) == format = "lakesheet" /\ c \in Restores

\* previewUpdate, previewRestoreSnapshot, previewRestoreDocVersion and
\* previewUpdateSheet; nothing of a Sheet renames it.
Preview(c) ==
    /\ pc[c] = "new"
    /\ Updates(c) => c \notin RenamesOnly
    /\ base' = [base EXCEPT ![c] = Read]
    /\ Goto(c, "previewed")
    /\ UNCHANGED <<doc, edits, holder, seen, snap, locked, written, verdict, hit>>

\* confirmChange and withTargetLock, on the URL as it was spelled
Confirm(c) ==
    /\ pc[c] = "previewed"
    /\ holder[KeyOf[c]] = Nobody
    /\ holder' = [holder EXCEPT ![KeyOf[c]] = c]
    /\ Goto(c, "reading")
    /\ UNCHANGED <<doc, edits, base, seen, snap, locked, written, verdict, hit>>

\* Mutant: only the target of the change is compared.
MutantSameTarget(c) == /\ Read.body[PartOf[c]] = base[c].body[PartOf[c]]
                       /\ Read.title = base[c].title

\* The fingerprint still is the one of the preview.  When only the target
\* region's is, the outcome is a conflict too, with a fresh preview.
SameBaseline(c) == Read = base[c]

\* A read that decides whether to go on: at the start, and under the lock.
Reread(c, from, to) ==
    /\ pc[c] = from
    /\ seen' = [seen EXCEPT ![c] = Read]
    /\ UNCHANGED locked
    /\ \/ SameBaseline(c) /\ Goto(c, to) /\ UNCHANGED verdict
       \/ ~SameBaseline(c) /\ End(c, "conflict")
       \/ \E a \in Errors : End(c, Recorded(a))
    /\ UNCHANGED <<doc, edits, holder, base, written, hit>>

FirstRead(c)        == format = "lake" /\ Reread(c, "reading", "checking") /\ UNCHANGED snap
FirstReadSheet(c)   == Updates(c) /\ Reread(c, "reading", "checking") /\ UNCHANGED snap
FirstReadRestore(c) == Replaces(c) /\ Reread(c, "reading", "checking") /\ UNCHANGED snap

\* getResourceLockState before the lock
CheckLock(c) ==
    /\ pc[c] = "checking"
    /\ UNCHANGED locked
    /\ \/ /\ doc.version = seen[c].version /\ doc.locker = Nobody
          /\ Goto(c, "acquiring")
          /\ UNCHANGED verdict
       \/ /\ doc.version # seen[c].version \/ doc.locker # Nobody
          /\ End(c, "conflict")
       \/ \E a \in Errors : End(c, Recorded(a))
    /\ UNCHANGED <<doc, edits, holder, base, seen, snap, written, hit>>

\* What a lock request leaves at Yuque: a lock nobody else has becomes ours.
Granted == IF doc.locker = Theirs THEN doc ELSE [doc EXCEPT !.locker = Ours]

MutantVerified(c, d) == d.version = seen[c].version /\ d.locker # Nobody
Verified(c, d) == d.version = seen[c].version /\ d.locker = Ours

(* acquireResourceLock.  The state is read after an "ok", and after an     *)
(* "uncertain" to reconcile.  The read after an "ok" is returned without   *)
(* an await inside the try: its failure is not reconciled and leaves the   *)
(* lock taken but `acquired' false, so nobody will release it.             *)
Acquire(c) ==
    /\ pc[c] = "acquiring"
    /\ \E a \in Answer, reached \in BOOLEAN, readable \in BOOLEAN :
        /\ a = "ok" => reached
        /\ doc' = IF reached THEN Granted ELSE doc
        /\ LET back == readable /\ (a = "ok" \/ (a = "uncertain" /\ doc'.locker = Ours))
           IN  /\ locked' = [locked EXCEPT ![c] = back]
               /\ IF back
                  THEN IF Verified(c, doc')
                       THEN Goto(c, "rereading") /\ UNCHANGED verdict
                       ELSE End(c, "conflict")
                  ELSE \E e \in Errors : (a # "ok" => e = a) /\ End(c, Recorded(e))
    /\ UNCHANGED <<edits, holder, base, seen, snap, written, hit>>

\* The second baseline read; createDocSnapshot follows it at once.
SecondRead(c) ==
    /\ Reread(c, "rereading", IF c \in RenamesOnly THEN "renaming" ELSE "saving")
    /\ snap' = IF pc'[c] \in {"renaming", "saving"} THEN [snap EXCEPT ![c] = Read] ELSE snap

-----------------------------------------------------------------------------
(* The writes.                                                             *)

Saved(c) == [doc EXCEPT !.draft = Proposed(c), !.version = @ + 1]

\* updateDocLake: an uncertain answer counts as saved when the draft read
\* back is the proposed one.
Save(c) ==
    /\ pc[c] = "saving" /\ format = "lake"
    /\ \E a \in Answer, reached \in BOOLEAN, readable \in BOOLEAN :
        /\ a = "ok" => reached
        /\ doc' = IF reached THEN Saved(c) ELSE doc
        /\ hit' = IF reached THEN hit \cup {c} ELSE hit
        /\ UNCHANGED locked
        /\ IF a = "ok" \/ (a = "uncertain" /\ readable /\ doc'.draft = Proposed(c))
           THEN /\ written' = [written EXCEPT ![c] = TRUE]
                /\ Goto(c, "publishing")
                /\ UNCHANGED verdict
           ELSE End(c, Recorded(a)) /\ UNCHANGED written
    /\ UNCHANGED <<edits, holder, base, seen, snap>>

\* writeSheetDraft.  When the answer is uncertain and the Sheet read back is
\* the expected one, that read is also the verification.
SaveSheet(c) ==
    /\ pc[c] = "saving"
    /\ \E a \in Answer, reached \in BOOLEAN, readable \in BOOLEAN :
        /\ a = "ok" => reached
        /\ doc' = IF reached THEN Saved(c) ELSE doc
        /\ hit' = IF reached THEN hit \cup {c} ELSE hit
        /\ UNCHANGED locked
        /\ IF a = "ok" THEN Goto(c, "verifying") /\ UNCHANGED verdict
           ELSE IF a = "uncertain" /\ readable /\ doc'.draft = Proposed(c)
           THEN End(c, "succeeded")
           ELSE End(c, Recorded(a))
    /\ UNCHANGED <<edits, holder, base, seen, snap, written>>

UpdateSheet(c)  == Updates(c) /\ SaveSheet(c)
RestoreSheet(c) == Replaces(c) /\ SaveSheet(c)

\* Only a title that differs from the one just read is written.
NewTitle(c) == format = "lake" /\ c \in Renames /\ seen[c].title # c
AfterBody(c) == IF NewTitle(c) THEN "renaming" ELSE "verifying"

\* publishDoc, reconciled by reading the published body
Publish(c) ==
    /\ pc[c] = "publishing"
    /\ \E a \in Answer, reached \in BOOLEAN, readable \in BOOLEAN :
        /\ a = "ok" => reached
        /\ doc' = IF reached THEN [doc EXCEPT !.live = doc.draft] ELSE doc
        /\ UNCHANGED locked
        /\ IF a = "ok" \/ (a = "uncertain" /\ readable /\ doc'.live = Proposed(c))
           THEN Goto(c, AfterBody(c)) /\ UNCHANGED verdict
           ELSE End(c, "partial")
    /\ UNCHANGED <<edits, holder, base, seen, snap, written, hit>>

MutantRenameFailed(c, a) == "partial"

\* An error of a write step is partial once the body was written.
RenameFailed(c, a) == IF written[c] THEN "partial" ELSE Recorded(a)

\* renameDoc, reconciled by reading the title
Rename(c) ==
    /\ pc[c] = "renaming"
    /\ \E a \in Answer, reached \in BOOLEAN, readable \in BOOLEAN :
        /\ a = "ok" => reached
        /\ doc' = IF reached THEN [doc EXCEPT !.title = c] ELSE doc
        /\ hit' = IF reached THEN hit \cup {c} ELSE hit
        /\ UNCHANGED locked
        /\ IF a = "ok" \/ (a = "uncertain" /\ readable /\ doc'.title = c)
           THEN Goto(c, "verifying") /\ UNCHANGED verdict
           ELSE End(c, RenameFailed(c, a))
    /\ UNCHANGED <<edits, holder, base, seen, snap, written>>

\* The read-back of what this change wrote, published and draft.
ReadsBack(c) ==
    /\ c \notin RenamesOnly => doc.draft = Proposed(c) /\ Body = Proposed(c)
    /\ NewTitle(c) => doc.title = c

Verify(c) ==
    /\ pc[c] = "verifying"
    /\ UNCHANGED locked
    /\ \/ ReadsBack(c) /\ End(c, "succeeded")
       \/ ~ReadsBack(c) /\ End(c, "failed")
       \/ \E a \in Errors : End(c, Recorded(a))
    /\ UNCHANGED <<doc, edits, holder, base, seen, snap, written, hit>>

-----------------------------------------------------------------------------
MutantReleaseIgnored(v) == v

\* The finally of withVerifiedResourceLock: what a failed release makes of v.
ReleaseFailed(v) == IF v = "succeeded" THEN "partial" ELSE v

\* releaseResourceLock: an uncertain answer is fine when the lock is not ours.
Release(c) ==
    /\ pc[c] = "releasing"
    /\ \E a \in Answer, reached \in BOOLEAN, readable \in BOOLEAN :
        /\ a = "ok" => reached
        /\ doc' = IF reached /\ doc.locker = Ours THEN [doc EXCEPT !.locker = Nobody] ELSE doc
        /\ verdict' = IF a = "ok" \/ (a = "uncertain" /\ readable /\ doc'.locker # Ours)
                      THEN verdict
                      ELSE [verdict EXCEPT ![c] = ReleaseFailed(@)]
    /\ locked' = [locked EXCEPT ![c] = FALSE]
    /\ Goto(c, "leaving")
    /\ UNCHANGED <<edits, holder, base, seen, snap, written, hit>>

\* The local lock goes, the row gets its state.
Leave(c) ==
    /\ pc[c] = "leaving"
    /\ holder' = [holder EXCEPT ![KeyOf[c]] = Nobody]
    /\ Goto(c, "done")
    /\ UNCHANGED <<doc, edits, base, seen, snap, locked, written, verdict, hit>>

-----------------------------------------------------------------------------
(* The colleague.                                                          *)

quiet == UNCHANGED <<holder, pc, base, seen, snap, locked, written, verdict, hit>>

OpenEditor ==
    /\ doc.locker = Nobody
    /\ edits < MaxEdits
    /\ doc' = [doc EXCEPT !.locker = Theirs]
    /\ UNCHANGED edits /\ quiet

Edit(p) ==
    /\ HonoursLock => doc.locker = Theirs
    /\ edits < MaxEdits
    /\ edits' = edits + 1
    /\ doc' = [doc EXCEPT !.draft[p] = "edited", !.version = @ + 1]
    /\ quiet

PublishEdits ==
    /\ format = "lake" /\ doc.live # doc.draft
    /\ HonoursLock => doc.locker = Theirs
    /\ doc' = [doc EXCEPT !.live = doc.draft]
    /\ UNCHANGED edits /\ quiet

CloseEditor ==
    /\ doc.locker = Theirs
    /\ doc' = [doc EXCEPT !.locker = Nobody]
    /\ UNCHANGED edits /\ quiet

Colleague == OpenEditor \/ CloseEditor \/ PublishEdits \/ \E p \in Part : Edit(p)

Execute(c) ==
    \/ FirstRead(c) \/ FirstReadSheet(c) \/ FirstReadRestore(c) \/ CheckLock(c) \/ Acquire(c) \/ SecondRead(c)
    \/ Save(c) \/ UpdateSheet(c) \/ RestoreSheet(c) \/ Publish(c) \/ Rename(c) \/ Verify(c)
    \/ Release(c) \/ Leave(c)

Next ==
    /\ UNCHANGED format
    /\ \/ \E c \in Change : Preview(c) \/ Confirm(c) \/ Execute(c)
       \/ Colleague

Spec == Init /\ [][Next]_vars

-----------------------------------------------------------------------------
(* Properties                                                              *)

Ended(c) == pc[c] = "done"

ConflictWroteNothing == \A c \in Change : Ended(c) /\ verdict[c] = "conflict" => c \notin hit

ClaimedIsWritten ==
    \A c \in Change : Ended(c) /\ verdict[c] \in {"succeeded", "partial"} => c \in hit

\* "conflict" tells the user that no write occurred, so no request of the change
\* reached the document (ConflictError, repreview_required); "succeeded" and
\* "partial" claim a write, so one did, also when the claim rests on a
\* reconciling read.
OutcomeIsTrue == TypeOK /\ ConflictWroteNothing /\ ClaimedIsWritten

\* What the first write of a change replaces is what its snapshot kept and
\* its user approved: no edit made in between is lost, given a colleague who
\* edits only with the editor lock (withVerifiedResourceLock, the two reads).
SnapshotHoldsReplaced ==
    [][\A c \in Change : c \notin hit /\ c \in hit' => Read = snap[c] /\ snap[c] = base[c]]_vars

\* Of the changes previewed on one baseline at most one writes.
OneWritePerBaseline ==
    \A c, d \in hit : base[c] = base[d] => c = d

\* A lock of ours that outlives its confirms is never behind a plain success:
\* one of them reported something that needs a look at the document.
LeftLockIsReported ==
    (\A c \in Change : pc[c] \in {"new", "previewed", "done"}) /\ doc.locker = Ours =>
        \E c \in Change : verdict[c] \notin {"none", "succeeded"}
=============================================================================
