---------------------------- MODULE TableArchive ----------------------------
(***************************************************************************)
(* executeTableArchive: one record of a Table is copied into another and   *)
(* then removed from the first, in three writes without a transaction.     *)
(* Around each write the code checkpoints its phase in the encrypted       *)
(* journal and reads everything back.                                      *)
(*                                                                         *)
(* A write request stays in flight until it reaches Yuque, which may be    *)
(* after its caller gave up, or after a restart; every read may fail.      *)
(* Colleagues edit both tables.  Field mapping and canonical forms are     *)
(* abstracted: a record has one value.  assertWritable repeats, in the     *)
(* same process, checks of fixed configuration which Confirm has passed.   *)
(***************************************************************************)
EXTENDS Naturals

CONSTANTS
    Change,     \* archives; each also names the record id it creates
    Row,        \* ids of the records there are without them
    Table,
    Value,      \* what a record may hold
    Absent,     \* the value of a record that is not there
    Blank,      \* the value of a record without fields
    From, To, Moves,   \* source table, target table and record of an archive
    First,      \* the values in the beginning
    MaxEdits    \* bound: edits of the colleagues

Id  == Row \cup Change
Val == Value \cup {Absent, Blank}

ASSUME PlanAssumption ==
    /\ From \in [Change -> Table] /\ To \in [Change -> Table]
    /\ \A c \in Change : From[c] # To[c]
    /\ Moves \in [Change -> Row]
    /\ First \in [Table -> [Row -> Value \cup {Absent}]]
ASSUME IdAssumption == Row \cap Change = {} /\ Absent # Blank /\ {Absent, Blank} \cap Value = {}
ASSUME EditAssumption == MaxEdits \in Nat

VARIABLES
    table,    \* remote: value and detail body of every record
    edits,    \* edits so far
    state,    \* state of the row in pending_changes
    plan,     \* the values the preview read
    journal,  \* the phase in the row's payload
    run,      \* locals of executeTableArchive
    flight,   \* write requests on their way
    sent,     \* history: write requests made
    raced     \* history: archives whose last look an edit came after

vars == <<table, edits, state, plan, journal, run, flight, sent, raced>>

Write == {"creating_target", "writing_target", "removing_source"}
Phase == Write \cup {"prepared", "target_verified", "completed"}
State == {"new", "planning", "previewed", "executing",
          "conflict", "partial", "unknown", "succeeded"}

\* Where the code is: before a read, before a write, in a write (its phase).
Step == {"idle", "readSource", "readTarget", "readBody", "create", "readCreated",
         "populate", "readCopy", "bodyCopy", "readCopy2", "bodyCopy2", "readSource2",
         "bodySource2", "remove", "readSource3", "readTarget3", "bodyCopy3", "over"} \cup Write

Record == [val: Val, body: BOOLEAN]
NoRecord == [val |-> Absent, body |-> FALSE]
Idle == [at |-> "idle", phase |-> "prepared", attempted |-> FALSE, pending |-> FALSE]
NoPlan == [source |-> [i \in Id |-> Absent], target |-> [i \in Id |-> Absent]]

TypeOK ==
    /\ table \in [Table -> [Id -> Record]]
    /\ edits \in 0 .. MaxEdits
    /\ state \in [Change -> State]
    /\ plan \in [Change -> [source: [Id -> Val], target: [Id -> Val]]]
    /\ journal \in [Change -> Phase]
    /\ run \in [Change -> [at: Step, phase: Phase, attempted: BOOLEAN, pending: BOOLEAN]]
    /\ flight \in SUBSET (Change \X Write)
    /\ sent \in SUBSET (Change \X Write)
    /\ raced \in SUBSET Change

Init ==
    /\ table = [t \in Table |-> [i \in Id |->
                   IF i \in Row THEN [val |-> First[t][i], body |-> FALSE] ELSE NoRecord]]
    /\ edits = 0
    /\ state = [c \in Change |-> "new"]
    /\ plan = [c \in Change |-> NoPlan]
    /\ journal = [c \in Change |-> "prepared"]
    /\ run = [c \in Change |-> Idle]
    /\ flight = {}
    /\ sent = {}
    /\ raced = {}

-----------------------------------------------------------------------------
(* Preview and confirm                                                     *)

Values(t) == [i \in Id |-> table[t][i].val]
Moved(c) == plan[c].source[Moves[c]]      \* the value to move

remote == <<table, edits, raced>>

PreviewSource(c) ==
    /\ state[c] = "new"
    /\ plan' = [plan EXCEPT ![c].source = Values(From[c])]
    /\ state' = [state EXCEPT ![c] = "planning"]
    /\ UNCHANGED <<remote, journal, run, flight, sent>>

MutantArchived(c) == FALSE
\* An equal record is in the target already.
Archived(c) == \E i \in Id : table[To[c]][i].val = Moved(c)

\* prepareTableArchive and savePreview; a refused preview leaves nothing.
PreviewTarget(c) ==
    /\ state[c] = "planning"
    /\ \/ /\ Moved(c) \in Value /\ ~Archived(c) /\ ~table[From[c]][Moves[c]].body
          /\ plan' = [plan EXCEPT ![c].target = Values(To[c])]
          /\ state' = [state EXCEPT ![c] = "previewed"]
       \/ /\ plan' = [plan EXCEPT ![c] = NoPlan]
          /\ state' = [state EXCEPT ![c] = "new"]
    /\ UNCHANGED <<remote, journal, run, flight, sent>>

Running(c) == run[c].at \notin {"idle", "over"}

\* confirmChange, once withTargetLocks has both tables for it
Confirm(c) ==
    /\ state[c] = "previewed"
    /\ \A d \in Change : Running(d) => {From[d], To[d]} \cap {From[c], To[c]} = {}
    /\ state' = [state EXCEPT ![c] = "executing"]
    /\ run' = [run EXCEPT ![c] = [Idle EXCEPT !.at = "readSource"]]
    /\ UNCHANGED <<remote, plan, journal, flight, sent>>

-----------------------------------------------------------------------------
(* The steps of executeTableArchive                                        *)

MutantByPending(r) ==  \* mutant: the phase of the removal is forgotten
    IF ~r.attempted THEN "conflict" ELSE IF r.pending THEN "unknown" ELSE "partial"

\* The state an error ends in, from the locals at the throw.
Outcome(r) ==
    IF ~r.attempted THEN "conflict"
    ELSE IF r.pending \/ r.phase = "removing_source" THEN "unknown" ELSE "partial"

Stop(c, r) ==
    /\ run' = [run EXCEPT ![c] = [r EXCEPT !.at = "over"]]
    /\ state' = [state EXCEPT ![c] = Outcome(r)]

Goto(c, step) == run' = [run EXCEPT ![c].at = step] /\ UNCHANGED state

\* A read and the check of what it returned; both may throw.
Look(c, step, good, next) ==
    /\ run[c].at = step
    /\ \/ good /\ Goto(c, next)
       \/ Stop(c, run[c])
    /\ UNCHANGED <<remote, plan, journal, flight, sent>>

\* unchanged(): every record but the ignored ones has the value of the preview.
Same(t, values, ignored) == \A i \in Id \ ignored : table[t][i].val = values[i]
SourceSame(c) == Same(From[c], plan[c].source, {})
TargetSame(c) == Same(To[c], plan[c].target, {c})

MutantHasCopy(c) == TargetSame(c) /\ table[To[c]][c].val # Absent  \* mutant: no match
\* verifyCopy
HasCopy(c) == TargetSame(c) /\ table[To[c]][c].val = Moved(c)

SourceBodyEmpty(c) == ~table[From[c]][Moves[c]].body
CopyBodyEmpty(c)   == ~table[To[c]][c].body

MutantJournaled(c, phase) == [journal EXCEPT ![c] = run[c].phase]  \* mutant: saved too early
Journaled(c, phase) == [journal EXCEPT ![c] = phase]

\* The inner write(): the phase is journaled, then the request is made.
Send(c, step, phase) ==
    /\ run[c].at = step
    /\ LET r == [run[c] EXCEPT !.phase = phase]
       IN  \/ Stop(c, r) /\ UNCHANGED <<journal, flight, sent>>   \* checkpoint throws
           \/ /\ journal' = Journaled(c, phase)
              /\ run' = [run EXCEPT ![c] =
                     [r EXCEPT !.at = phase, !.attempted = TRUE, !.pending = TRUE]]
              /\ flight' = flight \cup {<<c, phase>>}
              /\ sent' = sent \cup {<<c, phase>>}
              /\ UNCHANGED state
    /\ UNCHANGED <<remote, plan>>

\* The request returns, well only when it reached Yuque.
Answered(c, phase, next) ==
    /\ run[c].at = phase
    /\ \/ /\ <<c, phase>> \notin flight
          /\ run' = [run EXCEPT ![c].at = next, ![c].pending = FALSE]
          /\ UNCHANGED state
       \/ Stop(c, run[c])
    /\ UNCHANGED <<remote, plan, journal, flight, sent>>

\* A last look at the copy's body, then a phase that is journaled on its own.
LookAndMark(c, step, phase, next) ==
    /\ run[c].at = step
    /\ LET r == [run[c] EXCEPT !.phase = phase]
       IN  \/ Stop(c, run[c]) /\ UNCHANGED journal
           \/ CopyBodyEmpty(c) /\ Stop(c, r) /\ UNCHANGED journal  \* checkpoint throws
           \/ /\ CopyBodyEmpty(c)
              /\ journal' = Journaled(c, phase)
              /\ run' = [run EXCEPT ![c] = [r EXCEPT !.at = next]]
              /\ state' = IF next = "over" THEN [state EXCEPT ![c] = "succeeded"] ELSE state
    /\ UNCHANGED <<remote, plan, flight, sent>>

ReadSource(c)  == Look(c, "readSource", SourceSame(c), "readTarget")
ReadTarget(c)  == Look(c, "readTarget", Same(To[c], plan[c].target, {}), "readBody")
ReadBody(c)    == Look(c, "readBody", SourceBodyEmpty(c), "create")
Create(c)      == Send(c, "create", "creating_target")
Created(c)     == Answered(c, "creating_target", "readCreated")
ReadCreated(c) ==
    Look(c, "readCreated", TargetSame(c) /\ table[To[c]][c].val = Blank, "populate")
Populate(c)    == Send(c, "populate", "writing_target")
Populated(c)   == Answered(c, "writing_target", "readCopy")
ReadCopy(c)    == Look(c, "readCopy", HasCopy(c), "bodyCopy")
BodyCopy(c)    == LookAndMark(c, "bodyCopy", "target_verified", "readCopy2")
ReadCopy2(c)   == Look(c, "readCopy2", HasCopy(c), "bodyCopy2")
BodyCopy2(c)   == Look(c, "bodyCopy2", CopyBodyEmpty(c), "readSource2")
ReadSource2(c) == Look(c, "readSource2", SourceSame(c), "bodySource2")
BodySource2(c) == Look(c, "bodySource2", SourceBodyEmpty(c), "remove")
RemoveRecord(c)      == Send(c, "remove", "removing_source")
Removed(c)     == Answered(c, "removing_source", "readSource3")
ReadSource3(c) ==
    Look(c, "readSource3", /\ Same(From[c], plan[c].source, {Moves[c]})
                           /\ table[From[c]][Moves[c]].val = Absent, "readTarget3")
ReadTarget3(c) == Look(c, "readTarget3", HasCopy(c), "bodyCopy3")
BodyCopy3(c)   == LookAndMark(c, "bodyCopy3", "completed", "over")

Execute(c) ==
    \/ ReadSource(c) \/ ReadTarget(c) \/ ReadBody(c) \/ Create(c) \/ Created(c)
    \/ ReadCreated(c) \/ Populate(c) \/ Populated(c) \/ ReadCopy(c) \/ BodyCopy(c)
    \/ ReadCopy2(c) \/ BodyCopy2(c) \/ ReadSource2(c) \/ BodySource2(c) \/ RemoveRecord(c)
    \/ Removed(c) \/ ReadSource3(c) \/ ReadTarget3(c) \/ BodyCopy3(c)

\* The process dies; the next one writes the interrupted rows off as unknown.
Restart ==
    /\ \E c \in Change : state[c] = "executing"
    /\ run' = [c \in Change |-> IF Running(c)
                                THEN [Idle EXCEPT !.at = "over", !.phase = journal[c]]
                                ELSE run[c]]
    /\ state' = [c \in Change |-> IF state[c] = "executing" THEN "unknown" ELSE state[c]]
    /\ UNCHANGED <<remote, plan, journal, flight, sent>>

-----------------------------------------------------------------------------
(* Yuque and the colleagues                                                *)

Arrive(c, phase) ==
    /\ <<c, phase>> \in flight
    /\ flight' = flight \ {<<c, phase>>}
    /\ table' =
        CASE phase = "creating_target" ->
               [table EXCEPT ![To[c]][c] = IF @.val = Absent THEN [@ EXCEPT !.val = Blank] ELSE @]
          [] phase = "writing_target" ->
               [table EXCEPT ![To[c]][c] = IF @.val = Absent THEN @ ELSE [@ EXCEPT !.val = Moved(c)]]
          [] phase = "removing_source" ->
               [table EXCEPT ![From[c]][Moves[c]] = NoRecord]
    /\ UNCHANGED <<edits, raced, state, plan, journal, run, sent>>

\* An edit of table t that no later look of archive c can find before the removal.
Unguarded(c, t) ==
    \/ <<c, "removing_source">> \in flight
    \/ t = From[c] /\ run[c].at \in {"bodySource2", "remove"}
    \/ t = To[c] /\ run[c].at \in {"bodyCopy2", "readSource2", "bodySource2", "remove"}

\* A record gets another value or body, or is added or deleted.
Edit(t, i, rec) ==
    /\ edits < MaxEdits
    /\ edits' = edits + 1
    /\ i \in Change => table[t][i] # NoRecord
    /\ rec.val = Absent => rec = NoRecord
    /\ table' = [table EXCEPT ![t][i] = rec]
    /\ raced' = raced \cup {c \in Change : Unguarded(c, t)}
    /\ UNCHANGED <<state, plan, journal, run, flight, sent>>

Next ==
    \/ \E c \in Change : PreviewSource(c) \/ PreviewTarget(c) \/ Confirm(c) \/ Execute(c)
    \/ \E c \in Change, phase \in Write : Arrive(c, phase)
    \/ \E t \in Table, i \in Id, rec \in Record : Edit(t, i, rec)
    \/ Restart

Spec == Init /\ [][Next]_vars

-----------------------------------------------------------------------------
(* Properties                                                              *)

ConflictWroteNothing ==
    \A c \in Change, w \in Write : state[c] = "conflict" => <<c, w>> \notin sent

Rank == [prepared |-> 0, creating_target |-> 1, writing_target |-> 2,
         target_verified |-> 3, removing_source |-> 4, completed |-> 5]

\* The journal is ahead of the remote tables: whatever request may have
\* reached Yuque, a restart finds its phase or a later one (checkpoint).
JournalAhead == \A c \in Change, w \in Write : <<c, w>> \in sent => Rank[journal[c]] >= Rank[w]

\* As long as the removal may reach Yuque, the copy holds the value it
\* removes and the source has nothing that is not copied, unless a colleague
\* edited after the last look, the window TABLE_ARCHIVE.md concedes.
RemovesOnlyCopied ==
    \A c \in Change : <<c, "removing_source">> \in flight /\ c \notin raced =>
        /\ table[To[c]][c] = [val |-> Moved(c), body |-> FALSE]
        /\ table[From[c]][Moves[c]] \in {NoRecord, [val |-> Moved(c), body |-> FALSE]}

SourceGoneIsSaid ==
    \A c \in Change : <<c, "removing_source">> \in sent =>
        \/ state[c] \in {"executing", "unknown", "succeeded"}
        \/ state[c] = "partial" /\ run[c].phase = "completed"

\* "conflict" is the state before the first write request: no request of the
\* archive was ever made.  And an archive whose removal was requested is never
\* reported as a mere copy: it ends as unknown or succeeded, or as partial in the
\* phase "completed" (TableArchiveExecutionError, TABLE_ARCHIVE.md).
OutcomeIsTrue == ConflictWroteNothing /\ SourceGoneIsSaid

\* While nobody edits, two archives of one value never both leave a copy in
\* a table unless one ended as unknown, whose copy nobody had seen (prepare-
\* TableArchive's refusal of an equivalent record, unchanged(), the locks).
OneCopy ==
    \A c, d \in Change :
        /\ edits = 0
        /\ {<<c, "writing_target">>, <<d, "writing_target">>} \subseteq sent
        /\ To[c] = To[d] /\ Moved(c) = Moved(d)
        /\ table[To[c]][c].val = Moved(c) /\ table[To[d]][d].val = Moved(c)
        /\ "unknown" \notin {state[c], state[d]}
        => c = d
=============================================================================
