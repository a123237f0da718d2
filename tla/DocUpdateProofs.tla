-------------------------- MODULE DocUpdateProofs --------------------------
(***************************************************************************)
(* Proofs about DocUpdate, for any number of confirms, sections, spellings *)
(* and edits of the colleague, and either kind of document.                *)
(*                                                                         *)
(* The argument has three layers.  What a change left in the document says *)
(* that it wrote (MarkOK), which with the step it is at makes its outcome  *)
(* true (StepOK).  A document that was written once no longer reads as its *)
(* baseline (StaleOK), so of the changes that go one at a time no second   *)
(* one finds the same baseline (ApprovedOK).  And under the editor lock    *)
(* nothing else moves between the last read and the write (LockedOK).      *)
(***************************************************************************)
EXTENDS DocUpdate, TLAPS

Early  == {"new", "previewed", "reading", "checking", "acquiring", "rereading", "saving"}
Locked == {"rereading", "saving", "publishing", "renaming", "verifying"}
Ending == {"releasing", "leaving", "done"}
Late   == Ending \cup {"verifying"}
Active(c) == pc[c] \notin {"new", "previewed", "done"}

\* The name of a change stands only where it wrote, and is read only after.
MarkOK ==
    /\ \A c \in Change, p \in Part : doc.draft[p] = c \/ doc.live[p] = c => c \in hit
    /\ \A c, d \in Change, p \in Part : seen[d].body[p] = c => c \in hit
    /\ \A c \in Change : doc.title = c => c \in hit

\* Where a change stands, and what it has written and claims by then.
StepOK ==
    \A c \in Change :
        /\ pc[c] \in Early => c \notin hit /\ ~written[c]
        /\ pc[c] \in {"publishing", "verifying"} => c \in hit
        /\ written[c] => c \in hit
        /\ pc[c] \in Ending \/ verdict[c] = "none"
        /\ verdict[c] = "conflict" => c \notin hit
        /\ verdict[c] \in {"succeeded", "partial"} => c \in hit

\* A lock of ours is somebody's who will release it, or was reported.
LockOK ==
    /\ \A c \in Change : locked[c] => pc[c] \in Locked \cup {"releasing"}
    /\ \A c \in Change : pc[c] \in Locked => locked[c]
    /\ \A c \in Change : pc[c] \in Ending => verdict[c] # "none"
    /\ doc.locker = Ours =>
          \E c \in Change : locked[c] \/ verdict[c] \notin {"none", "succeeded"}

DInv == TypeOK /\ MarkOK /\ StepOK /\ LockOK

USE DEF Step, Verdict

-----------------------------------------------------------------------------
\* What is read has the shape of a view.
LEMMA ReadType == TypeOK => Read \in View
  BY DEF TypeOK, Read, View, Body

\* What a change proposes is a body that has its name in it.
LEMMA ProposedFacts ==
  ASSUME TypeOK, NEW c \in Change
  PROVE  /\ Proposed(c) \in Contents
         /\ \E p \in Part : Proposed(c)[p] = c
         /\ \A p \in Part : Proposed(c)[p] \in {c, seen[c].body[p]}
<1>1. PartOf[c] \in Part /\ seen[c].body \in Contents
  BY ModeAssumption DEF TypeOK, View
<1> QED BY <1>1 DEF Proposed, Contents

\* An error is recorded as one, never as a conflict or a success.
LEMMA RecordedFact == ASSUME NEW a PROVE Recorded(a) \in {"unknown", "failed"}
  BY DEF Recorded

\* The mode assumptions leave every change a place in the document.
LEMMA InitInv == Init => DInv
<1> SUFFICES ASSUME Init PROVE DInv
  OBVIOUS
<1>1. NoView \in View /\ NoView.body \in Contents /\ "base" \in Titles
  BY DEF NoView, View, Contents, Titles
<1>2. TypeOK
  BY <1>1, EditAssumption DEF Init, TypeOK
<1>3. MarkOK
  BY ChangeAssumption DEF Init, MarkOK, NoView
<1>4. StepOK /\ LockOK
  BY DEF Init, StepOK, LockOK, Early, Locked, Ending, Nobody, Ours
<1> QED BY <1>2, <1>3, <1>4 DEF DInv
-----------------------------------------------------------------------------
\* A step of a change moves nothing of another one.
Only(c) ==
    /\ \A d \in Change \ {c} :
          /\ pc'[d] = pc[d] /\ base'[d] = base[d] /\ seen'[d] = seen[d] /\ snap'[d] = snap[d]
          /\ locked'[d] = locked[d] /\ written'[d] = written[d] /\ verdict'[d] = verdict[d]
    /\ hit' \in {hit, hit \cup {c}}
    /\ UNCHANGED <<format, edits>>

\* What a change is about: its own components of the state.
Own == <<base, seen, snap, written>>

\* A change that ends goes to the release of its lock, or past it.
LEMMA EndFacts ==
  ASSUME TypeOK, NEW c \in Change, NEW v \in Verdict, End(c, v)
  PROVE  /\ verdict' = [verdict EXCEPT ![c] = v] /\ verdict' \in [Change -> Verdict]
         /\ pc' \in [Change -> Step]
         /\ pc' = [pc EXCEPT ![c] = pc'[c]] /\ pc'[c] \in {"releasing", "leaving"}
         /\ locked'[c] <=> pc'[c] = "releasing"
  BY DEF End, Goto, TypeOK

\* A change that goes on has a next step and no outcome yet.
LEMMA GotoFacts ==
  ASSUME TypeOK, NEW c \in Change, NEW step \in Step, Goto(c, step)
  PROVE  pc' \in [Change -> Step] /\ pc' = [pc EXCEPT ![c] = step] /\ pc'[c] = step
  BY DEF Goto, TypeOK

\* A preview reads the document and nothing else.
LEMMA PreviewStep ==
  ASSUME DInv, NEW c \in Change, Preview(c), UNCHANGED format
  PROVE  DInv' /\ Only(c)
<1>1. pc' = [pc EXCEPT ![c] = "previewed"] /\ pc[c] = "new"
  BY DEF Preview, Goto
<1>2. base' \in [Change -> View] /\ \A d \in Change \ {c} : base'[d] = base[d]
  BY ReadType DEF Preview, DInv, TypeOK
<1>3. UNCHANGED <<doc, edits, holder, seen, snap, locked, written, verdict, hit>>
  BY DEF Preview
<1>4. TypeOK' /\ Only(c)
  BY <1>1, <1>2, <1>3 DEF DInv, TypeOK, Only
<1>5. MarkOK' /\ StepOK' /\ LockOK'
  BY <1>1, <1>3 DEF DInv, TypeOK, MarkOK, StepOK, LockOK, Early, Locked, Ending
<1> QED BY <1>4, <1>5 DEF DInv

\* A confirm takes the local key.
LEMMA ConfirmStep ==
  ASSUME DInv, NEW c \in Change, Confirm(c), UNCHANGED format
  PROVE  DInv' /\ Only(c)
<1>1. pc' = [pc EXCEPT ![c] = "reading"] /\ pc[c] = "previewed"
  BY DEF Confirm, Goto
<1>2. holder' \in [Key -> Change \cup {Nobody}]
  BY DEF Confirm, DInv, TypeOK
<1>3. UNCHANGED <<doc, edits, base, seen, snap, locked, written, verdict, hit>>
  BY DEF Confirm
<1>4. TypeOK' /\ Only(c)
  BY <1>1, <1>2, <1>3 DEF DInv, TypeOK, Only
<1>5. MarkOK' /\ StepOK' /\ LockOK'
  BY <1>1, <1>3 DEF DInv, TypeOK, MarkOK, StepOK, LockOK, Early, Locked, Ending
<1> QED BY <1>4, <1>5 DEF DInv

\* The local key goes.
LEMMA LeaveStep ==
  ASSUME DInv, NEW c \in Change, Leave(c), UNCHANGED format
  PROVE  DInv' /\ Only(c)
<1>1. pc' = [pc EXCEPT ![c] = "done"] /\ pc[c] = "leaving"
  BY DEF Leave, Goto
<1>2. holder' \in [Key -> Change \cup {Nobody}]
  BY DEF Leave, DInv, TypeOK
<1>3. UNCHANGED <<doc, edits, base, seen, snap, locked, written, verdict, hit>>
  BY DEF Leave
<1>4. TypeOK' /\ Only(c)
  BY <1>1, <1>2, <1>3 DEF DInv, TypeOK, Only
<1>5. MarkOK' /\ StepOK' /\ LockOK'
  BY <1>1, <1>3 DEF DInv, TypeOK, MarkOK, StepOK, LockOK, Early, Locked, Ending
<1> QED BY <1>4, <1>5 DEF DInv

\* What an outcome other than a conflict may say, by what the change has written.
Fitting(c, v) ==
    /\ v \in Verdict \ {"none"}
    /\ v = "conflict" => c \notin hit'
    /\ v \in {"succeeded", "partial"} => c \in hit'

\* A step of a change that leaves the document and its locks alone keeps the
\* invariant, if it goes on to a step that fits what it has written, or ends with
\* an outcome that does.
LEMMA MoveStep ==
  ASSUME DInv, NEW c \in Change, NEW from \in Step, pc[c] = from, from \notin Ending,
         UNCHANGED <<format, doc, edits, holder, base, locked, written, hit>>,
         seen' \in [Change -> View], \A d \in Change \ {c} : seen'[d] = seen[d],
         \A d \in Change, p \in Part : seen'[c].body[p] = d => d \in hit,
         snap' \in [Change -> View], \A d \in Change \ {c} : snap'[d] = snap[d],
         \/ \E v \in Verdict : Fitting(c, v) /\ End(c, v)
         \/ \E to \in Step \ Ending :
               /\ Goto(c, to) /\ UNCHANGED verdict
               /\ to \in Early => c \notin hit /\ ~written[c]
               /\ to \in {"publishing", "verifying"} => c \in hit
               /\ to \in Locked <=> from \in Locked
  PROVE  DInv' /\ Only(c)
<1>1. CASE \E v \in Verdict : Fitting(c, v) /\ End(c, v)
  <2>1. PICK v \in Verdict : Fitting(c, v) /\ End(c, v)
    BY <1>1
  <2>2. /\ verdict' = [verdict EXCEPT ![c] = v] /\ verdict' \in [Change -> Verdict]
        /\ pc' \in [Change -> Step]
        /\ pc' = [pc EXCEPT ![c] = pc'[c]] /\ pc'[c] \in {"releasing", "leaving"}
        /\ locked'[c] <=> pc'[c] = "releasing"
    BY <2>1, EndFacts DEF DInv
  <2>3. TypeOK' /\ Only(c)
    BY <2>2 DEF DInv, TypeOK, Only
  <2>4. MarkOK'
    BY DEF DInv, MarkOK
  <2>5. StepOK'
    BY <2>1, <2>2 DEF DInv, TypeOK, StepOK, Fitting, Early, Ending
  <2>6. LockOK'
    <3>1. \A d \in Change : locked[d] \/ verdict[d] \notin {"none", "succeeded"} =>
             locked'[d] \/ verdict'[d] \notin {"none", "succeeded"}
      BY <2>2 DEF DInv, TypeOK, StepOK
    <3> QED BY <2>1, <2>2, <3>1 DEF DInv, TypeOK, LockOK, Fitting, Locked, Ending
  <2> QED BY <2>3, <2>4, <2>5, <2>6 DEF DInv
<1>2. CASE \E to \in Step \ Ending :
               /\ Goto(c, to) /\ UNCHANGED verdict
               /\ to \in Early => c \notin hit /\ ~written[c]
               /\ to \in {"publishing", "verifying"} => c \in hit
               /\ to \in Locked <=> from \in Locked
  <2>1. PICK to \in Step \ Ending :
               /\ Goto(c, to) /\ UNCHANGED verdict
               /\ to \in Early => c \notin hit /\ ~written[c]
               /\ to \in {"publishing", "verifying"} => c \in hit
               /\ to \in Locked <=> from \in Locked
    BY <1>2
  <2>2. pc' \in [Change -> Step] /\ pc' = [pc EXCEPT ![c] = to]
    BY <2>1, GotoFacts DEF DInv
  <2>3. TypeOK' /\ Only(c)
    BY <2>1, <2>2 DEF DInv, TypeOK, Only
  <2>4. MarkOK'
    BY DEF DInv, MarkOK
  <2>5. StepOK'
    BY <2>1, <2>2 DEF DInv, TypeOK, StepOK, Ending
  <2>6. LockOK'
    BY <2>1, <2>2 DEF DInv, TypeOK, LockOK, Ending
  <2> QED BY <2>3, <2>4, <2>5, <2>6 DEF DInv
<1> QED BY <1>1, <1>2
\* What a change reads of the document was written by whom it names.
LEMMA ReadingFacts ==
  ASSUME DInv, NEW c \in Change, seen' = [seen EXCEPT ![c] = Read]
  PROVE  /\ seen' \in [Change -> View] /\ \A d \in Change \ {c} : seen'[d] = seen[d]
         /\ \A d \in Change, p \in Part : seen'[c].body[p] = d => d \in hit
<1>1. seen' \in [Change -> View] /\ \A d \in Change \ {c} : seen'[d] = seen[d]
  BY ReadType DEF DInv, TypeOK
<1>2. seen'[c].body = Body
  BY DEF DInv, TypeOK, Read
<1> QED BY <1>1, <1>2 DEF DInv, MarkOK, Body

\* The reads before the lock and under it, and the look at the lock.
LEMMA ReadStep ==
  ASSUME DInv, NEW c \in Change, UNCHANGED format,
         FirstRead(c) \/ FirstReadSheet(c) \/ FirstReadRestore(c) \/ SecondRead(c)
  PROVE  DInv' /\ Only(c)
<1>1. PICK from \in {"reading", "rereading"}, to \in {"checking", "renaming", "saving"} :
        /\ Reread(c, from, to)
        /\ from = "reading" <=> to = "checking"
        /\ snap' = snap \/ snap' = [snap EXCEPT ![c] = Read]
  <2>1. CASE SecondRead(c)
    <3>1. PICK to \in {"renaming", "saving"} : Reread(c, "rereading", to)
      BY <2>1 DEF SecondRead
    <3>2. snap' = snap \/ snap' = [snap EXCEPT ![c] = Read]
      BY <2>1 DEF SecondRead
    <3> QED BY <3>1, <3>2
  <2>2. CASE ~SecondRead(c)
    BY <2>2 DEF FirstRead, FirstReadSheet, FirstReadRestore
  <2> QED BY <2>1, <2>2
<1>2. /\ pc[c] = from /\ seen' = [seen EXCEPT ![c] = Read]
      /\ UNCHANGED <<doc, edits, holder, base, locked, written, hit>>
      /\ \/ Goto(c, to) /\ UNCHANGED verdict
         \/ End(c, "conflict")
         \/ \E a \in Errors : End(c, Recorded(a))
  BY <1>1 DEF Reread
<1>3. snap' \in [Change -> View] /\ \A d \in Change \ {c} : snap'[d] = snap[d]
  BY <1>1, ReadType DEF DInv, TypeOK
<1>4. c \notin hit /\ ~written[c]
  BY <1>1, <1>2 DEF DInv, StepOK, Early
<1>5. \/ \E v \in Verdict : Fitting(c, v) /\ End(c, v)
      \/ Goto(c, to) /\ UNCHANGED verdict
  BY <1>2, <1>4, RecordedFact DEF Fitting
<1>6. /\ from \in Step /\ from \notin Ending /\ to \in Step \ Ending
      /\ to \in Locked <=> from \in Locked
      /\ to \notin {"publishing", "verifying"}
  BY <1>1 DEF Locked, Ending
<1>7. /\ seen' \in [Change -> View] /\ \A d \in Change \ {c} : seen'[d] = seen[d]
      /\ \A d \in Change, p \in Part : seen'[c].body[p] = d => d \in hit
  BY <1>2, ReadingFacts
<1> QED BY <1>2, <1>3, <1>4, <1>5, <1>6, <1>7, MoveStep

\* The look at the lock before it is taken, and the last read-back.
LEMMA LookStep ==
  ASSUME DInv, NEW c \in Change, UNCHANGED format, CheckLock(c) \/ Verify(c)
  PROVE  DInv' /\ Only(c)
<1>1. UNCHANGED <<doc, edits, holder, base, seen, snap, locked, written, hit>>
  BY DEF CheckLock, Verify
<1>2. /\ seen' \in [Change -> View] /\ snap' \in [Change -> View]
      /\ \A d \in Change, p \in Part : seen'[c].body[p] = d => d \in hit
  BY <1>1 DEF DInv, TypeOK, MarkOK
<1>3. CASE CheckLock(c)
  <2>1. pc[c] = "checking" /\ c \notin hit /\ ~written[c]
    BY <1>3 DEF CheckLock, DInv, StepOK, Early
  <2>2. \/ \E v \in Verdict : Fitting(c, v) /\ End(c, v)
        \/ Goto(c, "acquiring") /\ UNCHANGED verdict
    BY <1>1, <1>3, <2>1, RecordedFact DEF CheckLock, Fitting
  <2>3. "checking" \notin Ending \cup Locked /\ "acquiring" \notin Ending \cup Locked
    BY DEF Ending, Locked
  <2> QED BY <1>1, <1>2, <2>1, <2>2, <2>3, MoveStep
<1>4. CASE Verify(c)
  <2>1. pc[c] = "verifying" /\ c \in hit
    BY <1>4 DEF Verify, DInv, StepOK
  <2>2. \E v \in Verdict : Fitting(c, v) /\ End(c, v)
    BY <1>1, <1>4, <2>1, RecordedFact DEF Verify, Fitting
  <2>3. "verifying" \notin Ending
    BY DEF Ending
  <2> QED BY <1>1, <1>2, <2>1, <2>2, <2>3, MoveStep
<1> QED BY <1>3, <1>4

DocType == [draft: Contents, live: Contents, title: Titles, version: Nat,
            locker: {Nobody, Ours, Theirs}]

\* A lock request: the lock becomes ours, and a change that does not get it back
\* to hold says so.
LEMMA AcquireStep ==
  ASSUME DInv, NEW c \in Change, Acquire(c), UNCHANGED format
  PROVE  DInv' /\ Only(c)
<1>1. PICK a \in Answer, reached \in BOOLEAN, readable \in BOOLEAN :
        /\ a = "ok" => reached
        /\ doc' = IF reached THEN Granted ELSE doc
        /\ LET back == readable /\ (a = "ok" \/ (a = "uncertain" /\ doc'.locker = Ours))
           IN  /\ locked' = [locked EXCEPT ![c] = back]
               /\ IF back
                  THEN IF Verified(c, doc')
                       THEN Goto(c, "rereading") /\ UNCHANGED verdict
                       ELSE End(c, "conflict")
                  ELSE \E e \in Errors : (a # "ok" => e = a) /\ End(c, Recorded(e))
  BY DEF Acquire
<1>2. /\ pc[c] = "acquiring" /\ c \notin hit /\ ~written[c] /\ verdict[c] = "none"
      /\ UNCHANGED <<edits, holder, base, seen, snap, written, hit>>
  BY DEF Acquire, DInv, StepOK, Early, Ending
<1>3. /\ doc' \in DocType
      /\ doc'.draft = doc.draft /\ doc'.live = doc.live /\ doc'.title = doc.title
  BY <1>1 DEF DInv, TypeOK, DocType, Granted
<1>4. PICK back \in BOOLEAN :
        /\ locked' = [locked EXCEPT ![c] = back]
        /\ \/ back /\ Goto(c, "rereading") /\ UNCHANGED verdict
           \/ back /\ End(c, "conflict")
           \/ ~back /\ \E v \in {"unknown", "failed"} : End(c, v)
  <2> DEFINE back == readable /\ (a = "ok" \/ (a = "uncertain" /\ doc'.locker = Ours))
  <2>1. back \in BOOLEAN
    OBVIOUS
  <2> QED BY <1>1, <2>1, RecordedFact
<1>5. locked' \in [Change -> BOOLEAN] /\ locked'[c] = back /\ \A d \in Change \ {c} : locked'[d] = locked[d]
  BY <1>4 DEF DInv, TypeOK
<1>6. MarkOK'
  BY <1>2, <1>3 DEF DInv, MarkOK
<1>7. CASE back /\ Goto(c, "rereading") /\ UNCHANGED verdict
  <2>1. pc' \in [Change -> Step] /\ pc' = [pc EXCEPT ![c] = "rereading"] /\ pc'[c] = "rereading"
    BY <1>7, GotoFacts DEF DInv
  <2>2. TypeOK' /\ Only(c)
    BY <1>2, <1>3, <1>5, <1>7, <2>1 DEF DInv, TypeOK, Only, DocType
  <2>3. StepOK'
    BY <1>2, <1>7, <2>1 DEF DInv, TypeOK, StepOK, Early, Ending
  <2>4. LockOK'
    BY <1>5, <1>7, <2>1 DEF DInv, TypeOK, LockOK, Locked, Ending
  <2> QED BY <1>6, <2>2, <2>3, <2>4 DEF DInv
<1>8. CASE \E v \in {"conflict", "unknown", "failed"} : End(c, v)
  <2>1. PICK v \in {"conflict", "unknown", "failed"} : End(c, v)
    BY <1>8
  <2>2. /\ verdict' = [verdict EXCEPT ![c] = v] /\ verdict' \in [Change -> Verdict]
        /\ pc' \in [Change -> Step]
        /\ pc' = [pc EXCEPT ![c] = pc'[c]] /\ pc'[c] \in {"releasing", "leaving"}
        /\ locked'[c] <=> pc'[c] = "releasing"
    BY <2>1, EndFacts DEF DInv
  <2>3. TypeOK' /\ Only(c)
    BY <1>2, <1>3, <1>5, <2>2 DEF DInv, TypeOK, Only, DocType
  <2>4. StepOK'
    BY <1>2, <2>1, <2>2 DEF DInv, TypeOK, StepOK, Early, Ending
  <2>5. LockOK'
    <3>1. verdict'[c] \notin {"none", "succeeded"}
      BY <2>1, <2>2 DEF DInv, TypeOK
    <3> QED BY <1>5, <2>2, <3>1 DEF DInv, TypeOK, LockOK, Locked, Ending
  <2> QED BY <1>6, <2>3, <2>4, <2>5 DEF DInv
<1> QED BY <1>4, <1>7, <1>8
-----------------------------------------------------------------------------
\* What a write may do to the document: it leaves the lock alone and brings in no
\* name but those of changes that wrote.
Writes(c) ==
    /\ doc' \in DocType /\ doc'.locker = doc.locker
    /\ hit' \in {hit, hit \cup {c}}
    /\ \A d \in Change, p \in Part : doc'.draft[p] = d \/ doc'.live[p] = d => d \in hit'
    /\ \A d \in Change : doc'.title = d => d \in hit'

\* A write goes on, or ends with an outcome that fits it.
LEMMA WriteStep ==
  ASSUME DInv, NEW c \in Change, pc[c] \in {"saving", "publishing", "renaming"}, Writes(c),
         UNCHANGED <<format, edits, holder, base, seen, snap, locked>>,
         written' = written \/ (written' = [written EXCEPT ![c] = TRUE] /\ c \in hit'),
         \/ \E v \in Verdict : Fitting(c, v) /\ End(c, v)
         \/ \E to \in {"publishing", "renaming", "verifying"} :
               /\ Goto(c, to) /\ UNCHANGED verdict
               /\ to \in {"publishing", "verifying"} => c \in hit'
  PROVE  DInv' /\ Only(c)
<1>1. /\ written' \in [Change -> BOOLEAN] /\ (written'[c] => c \in hit')
      /\ \A d \in Change \ {c} : written'[d] = written[d]
  BY DEF DInv, TypeOK, StepOK, Writes
<1>2. hit' \in SUBSET Change /\ hit \subseteq hit' /\ \A d \in Change \ {c} : d \in hit' <=> d \in hit
  BY DEF DInv, TypeOK, Writes
<1>3. MarkOK'
  BY <1>2 DEF DInv, MarkOK, Writes
<1>4. CASE \E v \in Verdict : Fitting(c, v) /\ End(c, v)
  <2>1. PICK v \in Verdict : Fitting(c, v) /\ End(c, v)
    BY <1>4
  <2>2. /\ verdict' = [verdict EXCEPT ![c] = v] /\ verdict' \in [Change -> Verdict]
        /\ pc' \in [Change -> Step]
        /\ pc' = [pc EXCEPT ![c] = pc'[c]] /\ pc'[c] \in {"releasing", "leaving"}
        /\ locked'[c] <=> pc'[c] = "releasing"
    BY <2>1, EndFacts DEF DInv
  <2>3. TypeOK' /\ Only(c)
    BY <1>1, <1>2, <2>2 DEF DInv, TypeOK, Only, Writes, DocType
  <2>4. StepOK'
    BY <1>1, <1>2, <2>1, <2>2 DEF DInv, TypeOK, StepOK, Fitting, Early, Ending
  <2>5. LockOK'
    <3>1. \A d \in Change : locked[d] \/ verdict[d] \notin {"none", "succeeded"} =>
             locked'[d] \/ verdict'[d] \notin {"none", "succeeded"}
      BY <2>2 DEF DInv, TypeOK, StepOK, Ending
    <3> QED BY <2>1, <2>2, <3>1 DEF DInv, TypeOK, LockOK, Fitting, Locked, Ending, Writes
  <2> QED BY <1>3, <2>3, <2>4, <2>5 DEF DInv
<1>5. CASE \E to \in {"publishing", "renaming", "verifying"} :
               /\ Goto(c, to) /\ UNCHANGED verdict
               /\ to \in {"publishing", "verifying"} => c \in hit'
  <2>1. PICK to \in {"publishing", "renaming", "verifying"} :
               /\ Goto(c, to) /\ UNCHANGED verdict
               /\ to \in {"publishing", "verifying"} => c \in hit'
    BY <1>5
  <2>2. pc' \in [Change -> Step] /\ pc' = [pc EXCEPT ![c] = to]
    BY <2>1, GotoFacts DEF DInv
  <2>3. TypeOK' /\ Only(c)
    BY <1>1, <1>2, <2>1, <2>2 DEF DInv, TypeOK, Only, Writes, DocType
  <2>4. StepOK'
    BY <1>1, <1>2, <2>1, <2>2 DEF DInv, TypeOK, StepOK, Early, Ending
  <2>5. LockOK'
    BY <2>1, <2>2 DEF DInv, TypeOK, LockOK, Locked, Ending, Writes
  <2> QED BY <1>3, <2>3, <2>4, <2>5 DEF DInv
<1> QED BY <1>4, <1>5

\* The two ways a body is saved; the name it brings in is the change's own.
LEMMA SaveStep ==
  ASSUME DInv, NEW c \in Change, UNCHANGED format,
         Save(c) \/ (pc[c] = "saving" /\ SaveSheet(c))
  PROVE  DInv' /\ Only(c)
<1>1. PICK a \in Answer, reached \in BOOLEAN, readable \in BOOLEAN :
        /\ a = "ok" => reached
        /\ doc' = IF reached THEN Saved(c) ELSE doc
        /\ hit' = IF reached THEN hit \cup {c} ELSE hit
        /\ UNCHANGED locked
        /\ written' = written \/ (written' = [written EXCEPT ![c] = TRUE]
                                    /\ (a = "ok" \/ doc'.draft = Proposed(c)))
        /\ \/ /\ a = "ok" \/ doc'.draft = Proposed(c)
              /\ \/ Goto(c, "publishing") /\ UNCHANGED verdict
                 \/ Goto(c, "verifying") /\ UNCHANGED verdict
                 \/ End(c, "succeeded")
           \/ End(c, Recorded(a))
  <2>1. CASE Save(c)
    BY <2>1 DEF Save
  <2>2. CASE SaveSheet(c)
    BY <2>2 DEF SaveSheet
  <2> QED BY <2>1, <2>2
<1>2. pc[c] = "saving" /\ UNCHANGED <<edits, holder, base, seen, snap>>
  BY DEF Save, SaveSheet
<1>3. /\ Proposed(c) \in Contents
      /\ \E p \in Part : Proposed(c)[p] = c
      /\ \A p \in Part : Proposed(c)[p] \in {c, seen[c].body[p]}
  BY ProposedFacts DEF DInv
<1>4. Writes(c)
  <2>1. \A d \in Change, p \in Part : Proposed(c)[p] = d => d \in hit \cup {c}
    BY <1>3 DEF DInv, MarkOK
  <2>2. CASE reached
    <3>1. /\ hit' = hit \cup {c} /\ doc.version + 1 \in Nat
          /\ doc' = [doc EXCEPT !.draft = Proposed(c), !.version = @ + 1]
      BY <1>1, <2>2 DEF Saved, DInv, TypeOK
    <3> QED BY <1>3, <2>1, <3>1 DEF DInv, TypeOK, MarkOK, Writes, DocType
  <2>3. CASE ~reached
    BY <1>1, <2>3 DEF DInv, TypeOK, MarkOK, Writes, DocType
  <2> QED BY <2>2, <2>3
<1>5. a = "ok" \/ doc'.draft = Proposed(c) => c \in hit'
  BY <1>1, <1>3, <1>4 DEF Writes
<1>6. \/ \E v \in Verdict : Fitting(c, v) /\ End(c, v)
      \/ \E to \in {"publishing", "renaming", "verifying"} :
            /\ Goto(c, to) /\ UNCHANGED verdict
            /\ to \in {"publishing", "verifying"} => c \in hit'
  BY <1>1, <1>5, RecordedFact DEF Fitting
<1> QED BY <1>1, <1>2, <1>4, <1>5, <1>6, WriteStep

\* Publishing brings in no name that is not in the draft.
LEMMA PublishStep ==
  ASSUME DInv, NEW c \in Change, Publish(c), UNCHANGED format
  PROVE  DInv' /\ Only(c)
<1>1. /\ pc[c] = "publishing" /\ doc' \in {doc, [doc EXCEPT !.live = doc.draft]}
      /\ (Goto(c, AfterBody(c)) /\ UNCHANGED verdict) \/ End(c, "partial")
      /\ UNCHANGED <<edits, holder, base, seen, snap, written, hit, locked>>
  BY DEF Publish
<1>2. c \in hit
  BY <1>1 DEF DInv, StepOK
<1>3. Writes(c)
  BY <1>1 DEF DInv, TypeOK, MarkOK, Writes, DocType
<1>4. AfterBody(c) \in {"renaming", "verifying"} /\ Fitting(c, "partial")
  BY <1>1, <1>2 DEF AfterBody, Fitting
<1> QED BY <1>1, <1>2, <1>3, <1>4, WriteStep

\* A rename brings in the change's own name.
LEMMA RenameStep ==
  ASSUME DInv, NEW c \in Change, Rename(c), UNCHANGED format
  PROVE  DInv' /\ Only(c)
<1>1. PICK a \in Answer, reached \in BOOLEAN :
        /\ a = "ok" => reached
        /\ doc' = IF reached THEN [doc EXCEPT !.title = c] ELSE doc
        /\ hit' = IF reached THEN hit \cup {c} ELSE hit
        /\ \/ (a = "ok" \/ doc'.title = c) /\ Goto(c, "verifying") /\ UNCHANGED verdict
           \/ End(c, RenameFailed(c, a))
  BY DEF Rename
<1>2. pc[c] = "renaming" /\ UNCHANGED <<edits, holder, base, seen, snap, written, locked>>
  BY DEF Rename
<1>3. Writes(c)
  BY <1>1 DEF DInv, TypeOK, MarkOK, Writes, DocType, Titles
<1>4. a = "ok" \/ doc'.title = c => c \in hit'
  BY <1>1, <1>3 DEF Writes, DInv, TypeOK
<1>5. RenameFailed(c, a) \in Verdict /\ Fitting(c, RenameFailed(c, a))
  BY <1>1, RecordedFact DEF RenameFailed, Fitting, DInv, StepOK
<1> QED BY <1>1, <1>2, <1>3, <1>4, <1>5, WriteStep

\* A release that fails is no plain success.
LEMMA ReleaseStep ==
  ASSUME DInv, NEW c \in Change, Release(c), UNCHANGED format
  PROVE  DInv' /\ Only(c)
<1>1. PICK a \in Answer, reached \in BOOLEAN :
        /\ a = "ok" => reached
        /\ doc' = IF reached /\ doc.locker = Ours THEN [doc EXCEPT !.locker = Nobody] ELSE doc
        /\ \/ (a = "ok" \/ doc'.locker # Ours) /\ verdict' = verdict
           \/ verdict' = [verdict EXCEPT ![c] = ReleaseFailed(@)]
  BY DEF Release
<1>2. /\ pc[c] = "releasing" /\ verdict[c] # "none"
      /\ locked' = [locked EXCEPT ![c] = FALSE] /\ pc' = [pc EXCEPT ![c] = "leaving"]
      /\ UNCHANGED <<edits, holder, base, seen, snap, written, hit>>
  BY DEF Release, Goto, DInv, LockOK, Ending
<1>3. /\ doc' \in DocType /\ doc'.draft = doc.draft /\ doc'.live = doc.live
      /\ doc'.title = doc.title /\ doc'.version = doc.version
  BY <1>1 DEF DInv, TypeOK, DocType
<1>4. doc'.locker = Ours => doc' = doc /\ verdict' = [verdict EXCEPT ![c] = ReleaseFailed(@)]
  BY <1>1 DEF DInv, TypeOK, DocType, Ours, Nobody
<1>5. /\ verdict' \in [Change -> Verdict] /\ \A d \in Change \ {c} : verdict'[d] = verdict[d]
      /\ verdict'[c] \in {verdict[c], ReleaseFailed(verdict[c])}
  BY <1>1 DEF DInv, TypeOK, ReleaseFailed
<1>6. TypeOK' /\ Only(c)
  BY <1>2, <1>3, <1>5 DEF DInv, TypeOK, Only, DocType
<1>7. MarkOK'
  BY <1>2, <1>3 DEF DInv, MarkOK
<1>8. StepOK'
  BY <1>2, <1>5 DEF DInv, TypeOK, StepOK, Early, Ending, ReleaseFailed
<1>9. LockOK'
  <2>1. doc'.locker = Ours => \E d \in Change : locked'[d] \/ verdict'[d] \notin {"none", "succeeded"}
    BY <1>2, <1>4 DEF DInv, TypeOK, ReleaseFailed
  <2> QED BY <1>2, <1>5, <2>1 DEF DInv, TypeOK, LockOK, Locked, Ending, ReleaseFailed
<1> QED BY <1>6, <1>7, <1>8, <1>9 DEF DInv

\* The colleague moves only the document, and never into a lock of ours.
LEMMA ColleagueStep ==
  ASSUME DInv, Colleague, UNCHANGED format
  PROVE  DInv' /\ UNCHANGED <<base, pc, seen, snap, hit, verdict, holder>>
<1>1. UNCHANGED <<holder, pc, base, seen, snap, locked, written, verdict, hit>>
  BY DEF Colleague, OpenEditor, CloseEditor, PublishEdits, Edit, quiet
<1>2. /\ doc' \in DocType /\ edits' \in 0 .. MaxEdits
      /\ \A d \in Change, p \in Part : doc'.draft[p] = d \/ doc'.live[p] = d => d \in hit
      /\ doc'.title = doc.title
      /\ doc'.locker = Ours => doc.locker = Ours
  <2> USE DEF DInv, TypeOK, MarkOK, DocType, Nobody, Ours, Theirs
  <2>1. CASE OpenEditor \/ CloseEditor \/ PublishEdits
    BY <2>1 DEF OpenEditor, CloseEditor, PublishEdits
  <2>2. ASSUME NEW p \in Part, Edit(p)
        PROVE  /\ doc' \in DocType /\ edits' \in 0 .. MaxEdits
               /\ \A d \in Change, q \in Part : doc'.draft[q] = d \/ doc'.live[q] = d => d \in hit
               /\ doc'.title = doc.title /\ doc'.locker = doc.locker
    <3>1. /\ doc'.draft = [doc.draft EXCEPT ![p] = "edited"] /\ doc'.live = doc.live
          /\ doc'.version = doc.version + 1 /\ doc'.title = doc.title
          /\ doc'.locker = doc.locker /\ doc' \in DocType
      <4>1. doc' = [doc EXCEPT !.draft = [doc.draft EXCEPT ![p] = "edited"], !.version = @ + 1]
        BY <2>2 DEF Edit
      <4>2. [doc.draft EXCEPT ![p] = "edited"] \in Contents /\ doc.version + 1 \in Nat
        BY DEF Contents
      <4> QED BY <4>1, <4>2
    <3>2. edits' \in 0 .. MaxEdits
      BY <2>2, EditAssumption DEF Edit
    <3> QED BY <3>1, <3>2, ChangeAssumption DEF Contents
  <2> QED BY <2>1, <2>2 DEF Colleague
<1>3. TypeOK' /\ MarkOK'
  BY <1>1, <1>2 DEF DInv, TypeOK, MarkOK, DocType
<1>4. StepOK' /\ LockOK'
  BY <1>1, <1>2 DEF DInv, StepOK, LockOK
<1> QED BY <1>1, <1>3, <1>4 DEF DInv

\* Every step of a change keeps the invariant and moves nothing of another one.
LEMMA ChangeStep ==
  ASSUME DInv, NEW c \in Change, Preview(c) \/ Confirm(c) \/ Execute(c), UNCHANGED format
  PROVE  DInv' /\ Only(c)
  BY PreviewStep, ConfirmStep, LeaveStep, ReadStep, LookStep, AcquireStep, SaveStep,
     PublishStep, RenameStep, ReleaseStep
  DEF Execute, UpdateSheet, RestoreSheet, SaveSheet

\* ... and so does every step of the system.
THEOREM InvStep == DInv /\ [Next]_vars => DInv'
<1> SUFFICES ASSUME DInv, [Next]_vars PROVE DInv'
  OBVIOUS
<1>1. CASE UNCHANGED vars
  BY <1>1 DEF vars, DInv, TypeOK, MarkOK, StepOK, LockOK
<1> QED BY <1>1, ChangeStep, ColleagueStep DEF Next

\* The invariant is inductive, hence holds of every reachable state.
THEOREM Invariance == Spec => []DInv
  BY InitInv, InvStep, PTL DEF Spec

(* Type correctness: of the document, its lock and what every change has   *)
(* read and reported, for every set of keys, contents and changes.         *)
THEOREM TypeCorrect == Spec => []TypeOK
  BY Invariance, PTL DEF DInv

(* "conflict" wrote nothing, "succeeded" and "partial" wrote: also when a  *)
(* reconciling read decided, whatever the colleague does meanwhile.        *)
THEOREM OutcomeIsTrueHolds == Spec => []OutcomeIsTrue
<1>1. DInv => OutcomeIsTrue
  BY DEF DInv, StepOK, OutcomeIsTrue, ConflictWroteNothing, ClaimedIsWritten
<1> QED BY <1>1, Invariance, PTL

(* A lock of ours that outlives its confirms was reported.                 *)
THEOREM LeftLockIsReportedHolds == Spec => []LeftLockIsReported
<1>1. DInv => LeftLockIsReported
  BY DEF DInv, LockOK, LeftLockIsReported, Locked
<1> QED BY <1>1, Invariance, PTL
-----------------------------------------------------------------------------
(* One at a time: changes whose previews spelled the URL alike.            *)

OneSpelled == \A c, d \in Change : KeyOf[c] = KeyOf[d]

\* Who is under way holds the local key of its spelling.
TurnOK == \A c \in Change : Active(c) => holder[KeyOf[c]] = c

\* A baseline is no younger than the document, and names only titles that were set.
BaseOK ==
    /\ \A c \in Change : base[c].version <= doc.version
    /\ \A c \in Change : doc.title = c \/ (\E d \in Change : base[d].title = c) => pc[c] \in Late

\* What was written no longer reads as the baseline of who wrote it.
StaleOK == \A c \in hit : base[c].version < doc.version \/ base[c].title # doc.title

\* About to write, and not written yet.
Poised(c) == pc[c] = "saving" \/ (pc[c] = "renaming" /\ c \notin hit)

\* Nobody has written on the baseline of a change that is about to write.
ApprovedOK == \A c \in Change : Poised(c) => \A d \in hit : base[d] # base[c]

BInv == DInv /\ TurnOK /\ BaseOK /\ StaleOK /\ ApprovedOK /\ OneWritePerBaseline

\* The steps of a change by what they do to the document and its history.
Effect(c) ==
    \* it looks on, or ends
    \/ /\ UNCHANGED <<base, hit>> /\ doc'.version = doc.version /\ doc'.title = doc.title
       /\ pc[c] # "new" /\ pc'[c] # "saving" /\ (pc'[c] = "renaming" => c \in hit)
    \* its preview
    \/ /\ pc[c] = "new" /\ pc'[c] = "previewed" /\ UNCHANGED <<doc, hit>>
       /\ base' = [base EXCEPT ![c] = Read]
    \* the read that approves
    \/ /\ pc[c] = "rereading" /\ pc'[c] \in {"saving", "renaming"} /\ UNCHANGED <<doc, base, hit>>
       /\ Read = base[c] /\ snap'[c] = Read
    \* its body, its title
    \/ /\ pc[c] = "saving" /\ pc'[c] \notin {"saving", "renaming"}
       /\ UNCHANGED base /\ hit' = hit \cup {c}
       /\ doc'.version = doc.version + 1 /\ doc'.title = doc.title
    \/ /\ pc[c] = "renaming" /\ pc'[c] \in Late
       /\ UNCHANGED base /\ hit' = hit \cup {c}
       /\ doc'.version = doc.version /\ doc'.title = c

\* Every step of a change has one of the effects, and never leaves the end.
LEMMA ChangeEffect ==
  ASSUME DInv, NEW c \in Change, Preview(c) \/ Confirm(c) \/ Execute(c), UNCHANGED format
  PROVE  /\ Effect(c)
         /\ pc[c] \in Late => pc'[c] \in Late
         /\ ~Active(c) => UNCHANGED doc
         /\ pc'[c] \in Locked => doc'.locker = Ours \/ (pc[c] \in Locked /\ doc'.locker = doc.locker)
<1> USE DEF Late, Ending, Active, Locked
<1>0. pc \in [Change -> Step] /\ doc.version \in Nat /\ (pc[c] = "publishing" => c \in hit)
      /\ doc \in DocType
  BY DEF DInv, TypeOK, StepOK, DocType
<1>1. CASE Preview(c)
  BY <1>0, <1>1 DEF Preview, Goto, Effect
<1>2. CASE Confirm(c) \/ Leave(c) \/ CheckLock(c) \/ Verify(c)
  BY <1>0, <1>2 DEF Confirm, Leave, CheckLock, Verify, End, Goto, Effect
<1>3. CASE FirstRead(c) \/ FirstReadSheet(c) \/ FirstReadRestore(c)
  <2>1. Reread(c, "reading", "checking")
    BY <1>3 DEF FirstRead, FirstReadSheet, FirstReadRestore
  <2> QED BY <1>0, <2>1 DEF Reread, End, Goto, Effect
<1>4. CASE SecondRead(c)
  <2>1. PICK to \in {"saving", "renaming"} : Reread(c, "rereading", to)
    BY <1>4 DEF SecondRead
  <2>2. /\ pc[c] = "rereading" /\ UNCHANGED <<doc, base, hit>>
        /\ pc'[c] \in {"saving", "renaming"} => SameBaseline(c)
        /\ pc'[c] \in {"saving", "renaming", "releasing", "leaving"}
    BY <1>0, <2>1 DEF Reread, End, Goto
  <2>3. pc'[c] \in {"saving", "renaming"} => snap'[c] = Read
    BY <1>4 DEF SecondRead, DInv, TypeOK
  <2> QED BY <2>2, <2>3 DEF SameBaseline, Effect
<1>5. CASE Acquire(c)
  <2>1. /\ pc[c] = "acquiring" /\ UNCHANGED <<base, hit>>
        /\ doc'.version = doc.version /\ doc'.title = doc.title
    BY <1>0, <1>5 DEF Acquire, Granted, DocType
  <2>2. /\ pc'[c] \in {"rereading", "releasing", "leaving"}
        /\ pc'[c] = "rereading" => Verified(c, doc')
    BY <1>0, <1>5 DEF Acquire, End, Goto
  <2> QED BY <2>1, <2>2 DEF Verified, Effect
<1>6. CASE Save(c) \/ (pc[c] = "saving" /\ SaveSheet(c))
  <2>1. /\ pc[c] = "saving" /\ UNCHANGED base
        /\ pc'[c] \in {"publishing", "verifying", "releasing", "leaving"}
        /\ (doc' = doc /\ hit' = hit) \/ (doc' = Saved(c) /\ hit' = hit \cup {c})
    BY <1>0, <1>6 DEF Save, SaveSheet, End, Goto
  <2>2. doc' = Saved(c) => doc'.version = doc.version + 1 /\ doc'.title = doc.title
                           /\ doc'.locker = doc.locker
    BY <1>0 DEF Saved, DocType
  <2> QED BY <2>1, <2>2 DEF Effect
<1>7. CASE Publish(c)
  <2>1. /\ pc[c] = "publishing" /\ UNCHANGED <<base, hit>>
        /\ pc'[c] \in {"renaming", "verifying", "releasing", "leaving"}
    BY <1>0, <1>7 DEF Publish, AfterBody, End, Goto
  <2>2. doc'.version = doc.version /\ doc'.title = doc.title /\ doc'.locker = doc.locker
    BY <1>0, <1>7 DEF Publish, DocType
  <2> QED BY <1>0, <2>1, <2>2 DEF Effect
<1>8. CASE Rename(c)
  <2>1. /\ pc[c] = "renaming" /\ UNCHANGED base
        /\ pc'[c] \in {"verifying", "releasing", "leaving"}
        /\ (doc' = doc /\ hit' = hit) \/ (doc' = [doc EXCEPT !.title = c] /\ hit' = hit \cup {c})
    BY <1>0, <1>8 DEF Rename, End, Goto
  <2> QED BY <1>0, <2>1 DEF Effect, DocType
<1>9. CASE Release(c)
  <2>1. pc[c] = "releasing" /\ pc'[c] = "leaving" /\ UNCHANGED <<base, hit>>
    BY <1>0, <1>9 DEF Release, Goto
  <2>2. doc'.version = doc.version /\ doc'.title = doc.title
    BY <1>0, <1>9 DEF Release, DocType
  <2> QED BY <2>1, <2>2 DEF Effect
<1> QED BY <1>1, <1>2, <1>3, <1>4, <1>5, <1>6, <1>7, <1>8, <1>9
        DEF Execute, UpdateSheet, RestoreSheet, SaveSheet

\* The local key has one confirm inside at a time.
LEMMA TurnStep ==
  ASSUME DInv, TurnOK, [Next]_vars
  PROVE  TurnOK'
<1>1. CASE UNCHANGED vars \/ Colleague
  BY <1>1, ColleagueStep DEF vars, TurnOK, Active, Next, Colleague, OpenEditor, CloseEditor,
                             PublishEdits, Edit, quiet
<1>2. ASSUME NEW c \in Change, Preview(c) \/ Confirm(c) \/ Execute(c), UNCHANGED format PROVE TurnOK'
  <2>1. Only(c)
    BY <1>2, ChangeStep
  <2>2. KeyOf \in [Change -> Key] /\ holder \in [Key -> Change \cup {Nobody}] /\ pc \in [Change -> Step]
        /\ Nobody \notin Change
    BY ModeAssumption, ChangeAssumption DEF DInv, TypeOK
  <2>3. CASE Confirm(c)
    BY <2>1, <2>2, <2>3 DEF Confirm, Goto, TurnOK, Active, Only
  <2>4. CASE Leave(c)
    BY <2>1, <2>2, <2>4 DEF Leave, Goto, TurnOK, Active, Only
  <2>5. CASE UNCHANGED holder /\ (Active(c)' => Active(c))
    BY <2>1, <2>5 DEF TurnOK, Active, Only
  <2>6. Confirm(c) \/ Leave(c) \/ (UNCHANGED holder /\ (Active(c)' => Active(c)))
    BY <1>2, <2>2 DEF Preview, Goto, Execute, FirstRead, FirstReadSheet, FirstReadRestore,
       SecondRead, Reread, CheckLock, Acquire, Save, UpdateSheet, RestoreSheet, SaveSheet,
       Publish, Rename, Verify, Release, Active
  <2> QED BY <2>3, <2>4, <2>5, <2>6
<1> QED BY <1>1, <1>2 DEF Next
\* Baselines age, the written ones are outdated, and no one writes on them.
LEMMA WriteOnceStep ==
  ASSUME OneSpelled, BInv, DInv', NEW c \in Change,
         Preview(c) \/ Confirm(c) \/ Execute(c), UNCHANGED format
  PROVE  BaseOK' /\ StaleOK' /\ ApprovedOK' /\ OneWritePerBaseline'
<1>1. /\ Effect(c) /\ (pc[c] \in Late => pc'[c] \in Late) /\ Only(c)
      /\ ~Active(c) => UNCHANGED doc
  BY ChangeEffect, ChangeStep DEF BInv
<1>2. /\ doc.version \in Nat /\ \A d \in Change : base[d].version \in Nat
      /\ base \in [Change -> View] /\ hit \subseteq Change
      /\ Read.version = doc.version /\ Read.title = doc.title
  BY DEF BInv, DInv, TypeOK, View, Read
<1>3. \A d \in Change : Active(d) /\ Active(c) => d = c
  BY DEF OneSpelled, BInv, TurnOK
<1>4. \A d \in Change : Poised(d) => Active(d)
  BY DEF Poised, Active
<1>5. CASE /\ UNCHANGED <<base, hit>> /\ doc'.version = doc.version /\ doc'.title = doc.title
           /\ pc[c] # "new" /\ pc'[c] # "saving" /\ (pc'[c] = "renaming" => c \in hit)
  BY <1>1, <1>5 DEF BInv, BaseOK, StaleOK, ApprovedOK, OneWritePerBaseline, Poised, Only
<1>6. CASE /\ pc[c] = "new" /\ pc'[c] = "previewed" /\ UNCHANGED <<doc, hit>>
           /\ base' = [base EXCEPT ![c] = Read]
  <2>1. c \notin hit
    BY <1>6 DEF BInv, DInv, StepOK, Early
  <2>2. base'[c] = Read /\ \A d \in Change \ {c} : base'[d] = base[d]
    BY <1>2, <1>6
  <2>3. BaseOK'
    BY <1>1, <1>2, <1>6, <2>2 DEF BInv, BaseOK, Only
  <2>4. StaleOK' /\ OneWritePerBaseline'
    BY <1>2, <1>6, <2>1, <2>2 DEF BInv, StaleOK, OneWritePerBaseline
  <2>5. ApprovedOK'
    BY <1>1, <1>2, <1>6, <2>1, <2>2 DEF BInv, ApprovedOK, Poised, Only
  <2> QED BY <2>3, <2>4, <2>5
<1>7. CASE /\ pc[c] = "rereading" /\ pc'[c] \in {"saving", "renaming"} /\ UNCHANGED <<doc, base, hit>>
           /\ Read = base[c]
  <2>1. BaseOK' /\ StaleOK' /\ OneWritePerBaseline'
    BY <1>1, <1>7 DEF BInv, BaseOK, StaleOK, OneWritePerBaseline, Only
  <2>2. \A d \in hit : base[d] # base[c]
    BY <1>2, <1>7 DEF BInv, StaleOK
  <2> QED BY <1>1, <1>7, <2>1, <2>2 DEF BInv, ApprovedOK, Poised, Only
<1>8. CASE /\ pc[c] = "saving" /\ pc'[c] \notin {"saving", "renaming"}
           /\ UNCHANGED base /\ hit' = hit \cup {c}
           /\ doc'.version = doc.version + 1 /\ doc'.title = doc.title
  <2>1. Active(c) /\ Poised(c)
    BY <1>8 DEF Active, Poised
  <2>2. BaseOK'
    BY <1>1, <1>2, <1>8 DEF BInv, BaseOK, Only
  <2>3. StaleOK'
    BY <1>2, <1>8 DEF BInv, BaseOK, StaleOK
  <2>4. OneWritePerBaseline'
    BY <1>8, <2>1 DEF BInv, ApprovedOK, OneWritePerBaseline
  <2>5. \A d \in Change : ~Poised(d)'
    BY <1>1, <1>3, <1>4, <1>8, <2>1 DEF Poised, Only, Active
  <2> QED BY <2>2, <2>3, <2>4, <2>5 DEF ApprovedOK
<1>9. CASE /\ pc[c] = "renaming" /\ pc'[c] \in Late
           /\ UNCHANGED base /\ hit' = hit \cup {c}
           /\ doc'.version = doc.version /\ doc'.title = c
  <2>1. Active(c) /\ pc[c] \notin Late
    BY <1>9 DEF Active, Late, Ending
  <2>2. BaseOK'
    BY <1>1, <1>2, <1>9 DEF BInv, BaseOK, Only
  <2>3. \A d \in Change : base[d].title # c
    BY <2>1 DEF BInv, BaseOK
  <2>4. StaleOK'
    BY <1>2, <1>9, <2>3 DEF StaleOK
  <2>5. OneWritePerBaseline'
    BY <1>9 DEF BInv, ApprovedOK, OneWritePerBaseline, Poised
  <2>6. \A d \in Change : ~Poised(d)'
    BY <1>1, <1>3, <1>4, <1>9, <2>1 DEF Poised, Only, Active, Late, Ending
  <2> QED BY <2>2, <2>4, <2>5, <2>6 DEF ApprovedOK
<1> QED BY <1>1, <1>5, <1>6, <1>7, <1>8, <1>9 DEF Effect

\* What the colleague does to the document.
LEMMA ColleagueEffect ==
  ASSUME DInv, Colleague
  PROVE  /\ doc'.version >= doc.version /\ doc'.title = doc.title
         /\ HonoursLock => doc.locker # Ours
         /\ doc.version \in Nat /\ doc'.version \in Nat
<1>1. doc \in DocType
  BY DEF DInv, TypeOK, DocType
<1>2. CASE OpenEditor \/ CloseEditor \/ PublishEdits
  BY <1>1, <1>2 DEF OpenEditor, CloseEditor, PublishEdits, DocType, Nobody, Ours, Theirs
<1>3. ASSUME NEW p \in Part, Edit(p)
      PROVE  /\ doc'.version = doc.version + 1 /\ doc'.title = doc.title
             /\ HonoursLock => doc.locker # Ours
  BY <1>1, <1>3 DEF Edit, DocType, Ours, Theirs
<1> QED BY <1>1, <1>2, <1>3 DEF Colleague, DocType

\* The layers together are inductive for changes that go one at a time.
LEMMA WriteOnceInvariance == OneSpelled => (Spec => []BInv)
<1> SUFFICES ASSUME OneSpelled PROVE Spec => []BInv
  OBVIOUS
<1>1. Init => BInv
  <2> SUFFICES ASSUME Init PROVE BInv
    OBVIOUS
  <2>1. BaseOK
    BY ChangeAssumption DEF Init, BaseOK, NoView
  <2> QED BY <2>1, InitInv
          DEF Init, BInv, TurnOK, StaleOK, ApprovedOK, OneWritePerBaseline, Active, Poised
<1>2. ASSUME BInv, [Next]_vars PROVE BInv'
  <2>1. DInv' /\ TurnOK'
    BY <1>2, InvStep, TurnStep DEF BInv
  <2>2. CASE UNCHANGED vars
    BY <1>2, <2>1, <2>2 DEF vars, BInv, BaseOK, StaleOK, ApprovedOK, OneWritePerBaseline, Poised
  <2>3. ASSUME NEW c \in Change, Preview(c) \/ Confirm(c) \/ Execute(c), UNCHANGED format PROVE BInv'
    BY <1>2, <2>1, <2>3, WriteOnceStep DEF BInv
  <2>4. CASE Colleague /\ UNCHANGED format
    <3>1. UNCHANGED <<base, pc, hit>>
      BY <1>2, <2>4, ColleagueStep DEF BInv
    <3>2. doc'.version >= doc.version /\ doc'.title = doc.title
          /\ doc.version \in Nat /\ doc'.version \in Nat
      BY <1>2, <2>4, ColleagueEffect DEF BInv
    <3>3. \A d \in Change : base[d].version \in Nat
      BY <1>2 DEF BInv, DInv, TypeOK, View
    <3>4. hit \subseteq Change
      BY <1>2 DEF BInv, DInv, TypeOK
    <3>5. BaseOK' /\ StaleOK'
      BY <1>2, <3>1, <3>2, <3>3, <3>4 DEF BInv, BaseOK, StaleOK
    <3>6. ApprovedOK' /\ OneWritePerBaseline'
      BY <1>2, <3>1 DEF BInv, ApprovedOK, OneWritePerBaseline, Poised
    <3> QED BY <2>1, <3>5, <3>6 DEF BInv
  <2> QED BY <1>2, <2>2, <2>3, <2>4 DEF Next
<1> QED BY <1>1, <1>2, PTL DEF Spec

(* Of the changes previewed on one baseline at most one writes, whatever   *)
(* the colleague does; their previews must have spelled the URL alike.     *)
THEOREM OneWritePerBaselineHolds == OneSpelled => (Spec => []OneWritePerBaseline)
<1>1. BInv => OneWritePerBaseline
  BY DEF BInv
<1> QED BY <1>1, WriteOnceInvariance, PTL

-----------------------------------------------------------------------------
(* Under the editor lock nothing moves between the last read and the write.*)

LockedOK ==
    \A c \in Change :
        /\ pc[c] \in Locked => doc.locker = Ours
        /\ Poised(c) => Read = snap[c] /\ snap[c] = base[c]

\* The lock is ours from the verified look on, and what was read under it stays.
LEMMA LockedStep ==
  ASSUME OneSpelled, HonoursLock, BInv, LockedOK, [Next]_vars
  PROVE  LockedOK'
<1>1. CASE UNCHANGED vars
  BY <1>1 DEF vars, LockedOK, Poised, Read, Body
<1>2. CASE Colleague /\ UNCHANGED format
  <2>1. UNCHANGED <<pc, base, snap, hit>> /\ doc.locker # Ours
    BY <1>2, ColleagueStep, ColleagueEffect DEF BInv
  <2> QED BY <2>1 DEF LockedOK, Poised, Locked
<1>3. ASSUME NEW c \in Change, Preview(c) \/ Confirm(c) \/ Execute(c), UNCHANGED format
      PROVE  LockedOK'
  <2>1. /\ Effect(c) /\ Only(c)
        /\ ~Active(c) => UNCHANGED doc
        /\ pc'[c] \in Locked => doc'.locker = Ours \/ (pc[c] \in Locked /\ doc'.locker = doc.locker)
    BY <1>3, ChangeEffect, ChangeStep DEF BInv
  <2>2. \A d \in Change : Active(d) /\ Active(c) => d = c
    BY DEF OneSpelled, BInv, TurnOK
  <2>3. ASSUME NEW d \in Change, d # c
        PROVE  /\ pc'[d] \in Locked => doc'.locker = Ours
               /\ Poised(d)' => Read' = snap'[d] /\ snap'[d] = base'[d]
    <3>1. pc'[d] = pc[d] /\ snap'[d] = snap[d] /\ base'[d] = base[d] /\ (d \in hit' <=> d \in hit)
      BY <2>1, <2>3 DEF Only
    <3>2. CASE Active(d)
      BY <1>3, <2>1, <2>2, <2>3, <3>1, <3>2 DEF LockedOK, Poised, Read, Body
    <3>3. CASE ~Active(d)
      BY <3>1, <3>3 DEF Active, Locked, Poised
    <3> QED BY <3>2, <3>3
  <2>4. pc'[c] \in Locked => doc'.locker = Ours
    BY <2>1 DEF LockedOK
  <2>5. Poised(c)' => Read' = snap'[c] /\ snap'[c] = base'[c]
    BY <1>3, <2>1 DEF Effect, Poised, Read, Body, Late, Ending
  <2> QED BY <2>3, <2>4, <2>5 DEF LockedOK
<1> QED BY <1>1, <1>2, <1>3 DEF Next

(* What the first write of a change replaces is what its snapshot kept and *)
(* its user approved, with a colleague who honours the editor lock.        *)
THEOREM SnapshotHoldsReplacedHolds ==
  OneSpelled /\ HonoursLock => (Spec => SnapshotHoldsReplaced)
<1> SUFFICES ASSUME OneSpelled, HonoursLock PROVE Spec => SnapshotHoldsReplaced
  OBVIOUS
<1> DEFINE Replaced ==
      \A c \in Change : c \notin hit /\ c \in hit' => Read = snap[c] /\ snap[c] = base[c]
<1>1. Init => LockedOK
  BY DEF Init, LockedOK, Locked, Poised
<1>2. BInv /\ LockedOK /\ [Next]_vars => LockedOK'
  BY LockedStep
<1>3. ASSUME BInv, LockedOK, [Next]_vars PROVE [Replaced]_vars
  <2>1. ASSUME NEW c \in Change, Preview(c) \/ Confirm(c) \/ Execute(c), UNCHANGED format
        PROVE  Replaced
    <3>1. Effect(c) /\ Only(c)
      BY <1>3, <2>1, ChangeEffect, ChangeStep DEF BInv
    <3>2. \A d \in Change : d \notin hit /\ d \in hit' => d = c /\ Poised(c)
      BY <3>1 DEF Effect, Poised
    <3> QED BY <1>3, <3>2 DEF LockedOK
  <2>2. CASE Colleague /\ UNCHANGED format
    BY <1>3, <2>2, ColleagueStep DEF BInv
  <2> QED BY <1>3, <2>1, <2>2 DEF Next
<1> QED BY <1>1, <1>2, <1>3, WriteOnceInvariance, PTL DEF Spec, SnapshotHoldsReplaced
=============================================================================
