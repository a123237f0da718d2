----------------------------- MODULE TableProofs -----------------------------
(***************************************************************************)
(* Proofs of the invariants of TableArchive, for any number of archives,   *)
(* tables and records and any bound on the colleagues' edits, and of those *)
(* of TableRead, for any table, request, page size and limit.              *)
(***************************************************************************)
EXTENDS TableArchive, TableRead, FiniteSetTheorems, SequenceTheorems, WellFoundedInduction,
        FunctionTheorems, TLAPS

-----------------------------------------------------------------------------
(* The record archive.                                                     *)


Early == {"readSource", "readTarget", "readBody", "create"}   \* nothing is sent
Late  == {"removing_source", "readSource3", "readTarget3", "bodyCopy3"}

\* The phase the code is in at a step.
PhaseAt(step) ==
    IF step \in Early THEN "prepared"
    ELSE IF step \in {"creating_target", "readCreated", "populate"} THEN "creating_target"
    ELSE IF step \in {"writing_target", "readCopy", "bodyCopy"} THEN "writing_target"
    ELSE IF step \in Late THEN "removing_source" ELSE "target_verified"

\* Where an archive stands, and what its locals and its journal are there.
StepOK(c) ==
    /\ state[c] \in {"new", "planning", "previewed"} =>
           run[c].at = "idle" /\ journal[c] = "prepared"
    /\ state[c] = "executing" <=> Running(c)
    /\ state[c] \notin {"new", "planning"} => Moved(c) \in Value
    /\ Running(c) => /\ run[c].phase = PhaseAt(run[c].at)
                     /\ journal[c] = run[c].phase
                     /\ run[c].attempted <=> run[c].at \notin Early

\* Which requests an archive can have made, and which are on their way.
RequestOK(c) ==
    \A w \in Write :
        /\ <<c, w>> \in flight => <<c, w>> \in sent /\ (Running(c) => run[c].at = w)
        /\ <<c, w>> \in sent => run[c].at \notin Early \cup {"idle"}
        /\ <<c, w>> \in sent /\ w = "removing_source" /\ Running(c) => run[c].at \in Late

Whole(c) == [val |-> Moved(c), body |-> FALSE]
Removing(c) == <<c, "removing_source">> \in flight

\* What the last looks have found stays so until the removal, short of an edit.
LookOK(c) ==
    c \notin raced =>
        /\ run[c].at = "bodyCopy2" => table[To[c]][c].val = Moved(c)
        /\ run[c].at \in {"readSource2", "bodySource2", "remove"} \/ Removing(c) =>
               table[To[c]][c] = Whole(c)
        /\ run[c].at = "bodySource2" => table[From[c]][Moves[c]].val \in {Absent, Moved(c)}
        /\ run[c].at = "remove" \/ Removing(c) =>
               table[From[c]][Moves[c]] \in {NoRecord, Whole(c)}

\* The three properties that tie state and journal to the requests.
SaidOK(c) ==
    /\ \A w \in Write : state[c] = "conflict" => <<c, w>> \notin sent
    /\ \A w \in Write : <<c, w>> \in sent => Rank[journal[c]] >= Rank[w]
    /\ <<c, "removing_source">> \in sent =>
           \/ state[c] \in {"executing", "unknown", "succeeded"}
           \/ state[c] = "partial" /\ run[c].phase = "completed"

IInv ==
    /\ TypeOK
    /\ \A c \in Change : StepOK(c) /\ RequestOK(c) /\ LookOK(c) /\ SaidOK(c)

USE PlanAssumption, IdAssumption, EditAssumption

Locals == [at: Step, phase: Phase, attempted: BOOLEAN, pending: BOOLEAN]

-----------------------------------------------------------------------------
(* The nineteen steps of executeTableArchive have five shapes.             *)

\* From step to step: after a look, after an answer, at a journaled phase.
Looks == {<<"readSource", "readTarget">>, <<"readTarget", "readBody">>,
          <<"readBody", "create">>, <<"readCreated", "populate">>,
          <<"readCopy", "bodyCopy">>, <<"readCopy2", "bodyCopy2">>,
          <<"bodyCopy2", "readSource2">>, <<"readSource2", "bodySource2">>,
          <<"bodySource2", "remove">>, <<"readSource3", "readTarget3">>,
          <<"readTarget3", "bodyCopy3">>}
Sends == {<<"create", "creating_target">>, <<"populate", "writing_target">>,
          <<"remove", "removing_source">>}
Returns == {<<"creating_target", "readCreated">>, <<"writing_target", "readCopy">>,
            <<"removing_source", "readSource3">>}
Marks == {<<"bodyCopy", "target_verified">>, <<"bodyCopy3", "completed">>}

Advance(c, e) ==
    /\ run[c].at = e[1]
    /\ Goto(c, e[2])
    /\ UNCHANGED <<remote, plan, journal, flight, sent>>

\* It stops, in its phase or in the one it could not journal.
Halt(c, p) ==
    /\ p = run[c].phase \/ <<run[c].at, p>> \in Sends \cup Marks
    /\ Running(c)
    /\ Stop(c, [run[c] EXCEPT !.phase = p])
    /\ UNCHANGED <<remote, plan, journal, flight, sent>>

Request(c, e) ==
    /\ run[c].at = e[1]
    /\ journal' = [journal EXCEPT ![c] = e[2]]
    /\ run' = [run EXCEPT ![c] = [run[c] EXCEPT !.phase = e[2], !.at = e[2],
                                                !.attempted = TRUE, !.pending = TRUE]]
    /\ flight' = flight \cup {<<c, e[2]>>}
    /\ sent' = sent \cup {<<c, e[2]>>}
    /\ UNCHANGED <<state, remote, plan>>

Return(c, e) ==
    /\ run[c].at = e[1]
    /\ <<c, e[1]>> \notin flight
    /\ run' = [run EXCEPT ![c] = [run[c] EXCEPT !.at = e[2], !.pending = FALSE]]
    /\ UNCHANGED <<state, remote, plan, journal, flight, sent>>

Mark(c, e) ==
    /\ run[c].at = e[1]
    /\ journal' = [journal EXCEPT ![c] = e[2]]
    /\ run' = [run EXCEPT ![c] = [run[c] EXCEPT !.phase = e[2],
                   !.at = IF e[1] = "bodyCopy" THEN "readCopy2" ELSE "over"]]
    /\ state' = IF e[1] = "bodyCopy" THEN state ELSE [state EXCEPT ![c] = "succeeded"]
    /\ UNCHANGED <<remote, plan, flight, sent>>

Shape(c) ==
    \/ \E e \in Looks : Advance(c, e)
    \/ \E p \in Phase : Halt(c, p)
    \/ \E e \in Sends : Request(c, e)
    \/ \E e \in Returns : Return(c, e)
    \/ \E e \in Marks : Mark(c, e)

\* A stop in the phase of the locals, or in the phase a checkpoint refused.
LEMMA StopIsHalt ==
  ASSUME TypeOK, NEW c \in Change, Running(c), Stop(c, run[c]),
         UNCHANGED <<remote, plan, journal, flight, sent>>
  PROVE  \E p \in Phase : Halt(c, p)
  <1>1. run[c] \in Locals
    BY DEF TypeOK, Locals
  <1>2. [run[c] EXCEPT !.phase = run[c].phase] = run[c] /\ run[c].phase \in Phase
    BY <1>1 DEF Locals
  <1> QED
    BY <1>2 DEF Halt

\* A refused checkpoint ends the run in the phase that was refused.
LEMMA RefusedIsHalt ==
  ASSUME TypeOK, NEW c \in Change, NEW p \in Phase, <<run[c].at, p>> \in Sends \cup Marks,
         Stop(c, [run[c] EXCEPT !.phase = p]),
         UNCHANGED <<remote, plan, journal, flight, sent>>
  PROVE  \E q \in Phase : Halt(c, q)
  <1>1. Running(c)
    BY DEF Sends, Marks, Running
  <1> QED
    BY <1>1 DEF Halt

\* A read that goes on, or fails, is a look: it sends and marks nothing.
LEMMA LookShape ==
  ASSUME TypeOK, NEW c \in Change, NEW e \in Looks, NEW STATE good,
         Look(c, e[1], good, e[2])
  PROVE  Shape(c)
  <1>1. Running(c)
    BY DEF Looks, Look, Running
  <1>2. CASE Goto(c, e[2])
    BY <1>2 DEF Look, Advance, Shape
  <1>3. CASE Stop(c, run[c])
    BY <1>1, <1>3, StopIsHalt DEF Look, Shape
  <1> QED
    BY <1>2, <1>3 DEF Look

\* A write whose checkpoint was saved sends one request, in the phase it saved.
LEMMA SendShape ==
  ASSUME TypeOK, NEW c \in Change, NEW e \in Sends, Send(c, e[1], e[2])
  PROVE  Shape(c)
  <1> DEFINE r == [run[c] EXCEPT !.phase = e[2]]
  <1>1. /\ run[c] \in Locals /\ run[c].at = e[1] /\ e = <<run[c].at, e[2]>>
        /\ e[2] \in Phase
    BY DEF TypeOK, Locals, Sends, Send, Phase, Write
  <1>2. CASE Stop(c, r) /\ UNCHANGED <<journal, flight, sent>>
    BY <1>1, <1>2, RefusedIsHalt DEF Send, Shape
  <1>3. CASE /\ journal' = Journaled(c, e[2])
             /\ run' = [run EXCEPT ![c] = [r EXCEPT !.at = e[2], !.attempted = TRUE, !.pending = TRUE]]
             /\ flight' = flight \cup {<<c, e[2]>>}
             /\ sent' = sent \cup {<<c, e[2]>>}
             /\ UNCHANGED state
    <2>1. [r EXCEPT !.at = e[2], !.attempted = TRUE, !.pending = TRUE]
             = [run[c] EXCEPT !.phase = e[2], !.at = e[2], !.attempted = TRUE, !.pending = TRUE]
      BY <1>1 DEF Locals
    <2> QED
      BY <1>1, <1>3, <2>1 DEF Request, Send, Shape, Journaled
  <1> QED
    BY <1>2, <1>3 DEF Send

\* Waiting for the answer of a request either goes on or stops in that phase.
LEMMA AnsweredShape ==
  ASSUME TypeOK, NEW c \in Change, NEW e \in Returns, Answered(c, e[1], e[2])
  PROVE  Shape(c)
  <1>1. Running(c)
    BY DEF Returns, Answered, Running
  <1>2. CASE Stop(c, run[c])
    BY <1>1, <1>2, StopIsHalt DEF Answered, Shape
  <1>3. CASE /\ <<c, e[1]>> \notin flight
             /\ run' = [run EXCEPT ![c].at = e[2], ![c].pending = FALSE]
             /\ UNCHANGED state
    <2>1. run' = [run EXCEPT ![c] = [run[c] EXCEPT !.at = e[2], !.pending = FALSE]]
      BY <1>3 DEF TypeOK
    <2> QED
      BY <1>3, <2>1 DEF Answered, Return, Shape
  <1> QED
    BY <1>2, <1>3 DEF Answered

\* A look that also remembers what it saw of the two records.
LEMMA MarkShape ==
  ASSUME TypeOK, NEW c \in Change, NEW e \in Marks,
         LookAndMark(c, e[1], e[2], IF e[1] = "bodyCopy" THEN "readCopy2" ELSE "over")
  PROVE  Shape(c)
  <1> DEFINE r == [run[c] EXCEPT !.phase = e[2]]
             next == IF e[1] = "bodyCopy" THEN "readCopy2" ELSE "over"
  <1>1. /\ run[c] \in Locals /\ run[c].at = e[1] /\ e = <<run[c].at, e[2]>>
        /\ e[2] \in Phase /\ Running(c)
    BY DEF TypeOK, Locals, Marks, LookAndMark, Phase, Running
  <1>2. CASE Stop(c, run[c]) /\ UNCHANGED journal
    BY <1>1, <1>2, StopIsHalt DEF LookAndMark, Shape
  <1>3. CASE Stop(c, r) /\ UNCHANGED journal
    BY <1>1, <1>3, RefusedIsHalt DEF LookAndMark, Shape
  <1>4. CASE /\ journal' = Journaled(c, e[2])
             /\ run' = [run EXCEPT ![c] = [r EXCEPT !.at = next]]
             /\ state' = IF next = "over" THEN [state EXCEPT ![c] = "succeeded"] ELSE state
    <2>1. [r EXCEPT !.at = next] = [run[c] EXCEPT !.phase = e[2], !.at = next]
      BY <1>1 DEF Locals
    <2> QED
      BY <1>1, <1>4, <2>1 DEF Mark, LookAndMark, Shape, Journaled
  <1> QED
    BY <1>2, <1>3, <1>4 DEF LookAndMark

\* Every step of executeTableArchive has one of the shapes.
LEMMA Shapes == ASSUME TypeOK, NEW c \in Change, Execute(c) PROVE Shape(c)
  <1>1. CASE ReadSource(c)
    <2> DEFINE e == <<"readSource", "readTarget">>
    <2>1. e \in Looks /\ e[1] = "readSource" /\ e[2] = "readTarget"
      BY DEF Looks
    <2> QED
      BY <1>1, <2>1, LookShape DEF ReadSource
  <1>2. CASE ReadTarget(c)
    <2> DEFINE e == <<"readTarget", "readBody">>
    <2>1. e \in Looks /\ e[1] = "readTarget" /\ e[2] = "readBody"
      BY DEF Looks
    <2> QED
      BY <1>2, <2>1, LookShape DEF ReadTarget
  <1>3. CASE ReadBody(c)
    <2> DEFINE e == <<"readBody", "create">>
    <2>1. e \in Looks /\ e[1] = "readBody" /\ e[2] = "create"
      BY DEF Looks
    <2> QED
      BY <1>3, <2>1, LookShape DEF ReadBody
  <1>4. CASE ReadCreated(c)
    <2> DEFINE e == <<"readCreated", "populate">>
    <2>1. e \in Looks /\ e[1] = "readCreated" /\ e[2] = "populate"
      BY DEF Looks
    <2> QED
      BY <1>4, <2>1, LookShape DEF ReadCreated
  <1>5. CASE ReadCopy(c)
    <2> DEFINE e == <<"readCopy", "bodyCopy">>
    <2>1. e \in Looks /\ e[1] = "readCopy" /\ e[2] = "bodyCopy"
      BY DEF Looks
    <2> QED
      BY <1>5, <2>1, LookShape DEF ReadCopy
  <1>6. CASE ReadCopy2(c)
    <2> DEFINE e == <<"readCopy2", "bodyCopy2">>
    <2>1. e \in Looks /\ e[1] = "readCopy2" /\ e[2] = "bodyCopy2"
      BY DEF Looks
    <2> QED
      BY <1>6, <2>1, LookShape DEF ReadCopy2
  <1>7. CASE BodyCopy2(c)
    <2> DEFINE e == <<"bodyCopy2", "readSource2">>
    <2>1. e \in Looks /\ e[1] = "bodyCopy2" /\ e[2] = "readSource2"
      BY DEF Looks
    <2> QED
      BY <1>7, <2>1, LookShape DEF BodyCopy2
  <1>8. CASE ReadSource2(c)
    <2> DEFINE e == <<"readSource2", "bodySource2">>
    <2>1. e \in Looks /\ e[1] = "readSource2" /\ e[2] = "bodySource2"
      BY DEF Looks
    <2> QED
      BY <1>8, <2>1, LookShape DEF ReadSource2
  <1>9. CASE BodySource2(c)
    <2> DEFINE e == <<"bodySource2", "remove">>
    <2>1. e \in Looks /\ e[1] = "bodySource2" /\ e[2] = "remove"
      BY DEF Looks
    <2> QED
      BY <1>9, <2>1, LookShape DEF BodySource2
  <1>10. CASE ReadSource3(c)
    <2> DEFINE e == <<"readSource3", "readTarget3">>
    <2>1. e \in Looks /\ e[1] = "readSource3" /\ e[2] = "readTarget3"
      BY DEF Looks
    <2> QED
      BY <1>10, <2>1, LookShape DEF ReadSource3
  <1>11. CASE ReadTarget3(c)
    <2> DEFINE e == <<"readTarget3", "bodyCopy3">>
    <2>1. e \in Looks /\ e[1] = "readTarget3" /\ e[2] = "bodyCopy3"
      BY DEF Looks
    <2> QED
      BY <1>11, <2>1, LookShape DEF ReadTarget3
  <1>12. CASE Create(c)
    <2> DEFINE e == <<"create", "creating_target">>
    <2>1. e \in Sends /\ e[1] = "create" /\ e[2] = "creating_target"
      BY DEF Sends
    <2> QED
      BY <1>12, <2>1, SendShape DEF Create
  <1>13. CASE Populate(c)
    <2> DEFINE e == <<"populate", "writing_target">>
    <2>1. e \in Sends /\ e[1] = "populate" /\ e[2] = "writing_target"
      BY DEF Sends
    <2> QED
      BY <1>13, <2>1, SendShape DEF Populate
  <1>14. CASE RemoveRecord(c)
    <2> DEFINE e == <<"remove", "removing_source">>
    <2>1. e \in Sends /\ e[1] = "remove" /\ e[2] = "removing_source"
      BY DEF Sends
    <2> QED
      BY <1>14, <2>1, SendShape DEF RemoveRecord
  <1>15. CASE Created(c)
    <2> DEFINE e == <<"creating_target", "readCreated">>
    <2>1. e \in Returns /\ e[1] = "creating_target" /\ e[2] = "readCreated"
      BY DEF Returns
    <2> QED
      BY <1>15, <2>1, AnsweredShape DEF Created
  <1>16. CASE Populated(c)
    <2> DEFINE e == <<"writing_target", "readCopy">>
    <2>1. e \in Returns /\ e[1] = "writing_target" /\ e[2] = "readCopy"
      BY DEF Returns
    <2> QED
      BY <1>16, <2>1, AnsweredShape DEF Populated
  <1>17. CASE Removed(c)
    <2> DEFINE e == <<"removing_source", "readSource3">>
    <2>1. e \in Returns /\ e[1] = "removing_source" /\ e[2] = "readSource3"
      BY DEF Returns
    <2> QED
      BY <1>17, <2>1, AnsweredShape DEF Removed
  <1>18. CASE BodyCopy(c)
    <2> DEFINE e == <<"bodyCopy", "target_verified">>
    <2>1. e \in Marks /\ e[1] = "bodyCopy" /\ e[2] = "target_verified"
      BY DEF Marks
    <2> QED
      BY <1>18, <2>1, MarkShape DEF BodyCopy
  <1>19. CASE BodyCopy3(c)
    <2> DEFINE e == <<"bodyCopy3", "completed">>
    <2>1. e \in Marks /\ e[1] = "bodyCopy3" /\ e[2] = "completed"
      BY DEF Marks
    <2> QED
      BY <1>19, <2>1, MarkShape DEF BodyCopy3
  <1> QED
    BY <1>1, <1>2, <1>3, <1>4, <1>5, <1>6, <1>7, <1>8, <1>9, <1>10,
       <1>11, <1>12, <1>13, <1>14, <1>15, <1>16, <1>17, <1>18, <1>19 DEF Execute

-----------------------------------------------------------------------------
(* Types                                                                   *)

\* Before the first preview the invariant holds.
LEMMA InitInv == Init => IInv
  <1> SUFFICES ASSUME Init PROVE IInv
    OBVIOUS
  <1>1. TypeOK
    BY DEF Init, TypeOK, Record, NoRecord, Val, Id, Write, Phase, State, Step, Idle, NoPlan
  <1>2. ASSUME NEW c \in Change PROVE StepOK(c) /\ RequestOK(c) /\ LookOK(c) /\ SaidOK(c)
    BY DEF Init, StepOK, RequestOK, LookOK, SaidOK, Idle, Running, Removing, Early
  <1> QED
    BY <1>1, <1>2 DEF IInv

\* A step of one archive, as its locals, its state and its requests see it.
LEMMA ShapeType == ASSUME TypeOK, NEW c \in Change, Shape(c) PROVE TypeOK'
  <1>1. run \in [Change -> Locals] /\ run[c] \in Locals /\ state \in [Change -> State]
    BY DEF TypeOK, Locals
  <1>2. ASSUME NEW e \in Looks, Advance(c, e) PROVE TypeOK'
    <2>1. e[2] \in Step
      BY DEF Looks, Step
    <2>2. run' \in [Change -> Locals]
      BY <1>1, <1>2, <2>1 DEF Advance, Goto, Locals
    <2> QED
      BY <1>2, <2>2 DEF Advance, Goto, TypeOK, Locals, remote
  <1>3. ASSUME NEW p \in Phase, Halt(c, p) PROVE TypeOK'
    <2> DEFINE r == [run[c] EXCEPT !.phase = p]
    <2>1. [r EXCEPT !.at = "over"] \in Locals
      BY <1>1 DEF Locals, Step
    <2>2. Outcome(r) \in State
      BY DEF Outcome, State
    <2>3. run' \in [Change -> Locals] /\ state' \in [Change -> State]
      BY <1>1, <1>3, <2>1, <2>2 DEF Halt, Stop
    <2> QED
      BY <1>3, <2>3 DEF Halt, TypeOK, Locals, remote
  <1>4. ASSUME NEW e \in Sends, Request(c, e) PROVE TypeOK'
    <2>1. e[2] \in Step /\ e[2] \in Phase /\ e[2] \in Write
      BY DEF Sends, Step, Phase, Write
    <2>2. run' \in [Change -> Locals]
      BY <1>1, <1>4, <2>1 DEF Request, Locals
    <2> QED
      BY <1>4, <2>1, <2>2 DEF Request, TypeOK, Locals, remote
  <1>5. ASSUME NEW e \in Returns, Return(c, e) PROVE TypeOK'
    <2>1. e[2] \in Step
      BY DEF Returns, Step
    <2>2. run' \in [Change -> Locals]
      BY <1>1, <1>5, <2>1 DEF Return, Locals
    <2> QED
      BY <1>5, <2>2 DEF Return, TypeOK, Locals, remote
  <1>6. ASSUME NEW e \in Marks, Mark(c, e) PROVE TypeOK'
    <2>1. e[2] \in Phase /\ {"readCopy2", "over"} \subseteq Step /\ "succeeded" \in State
      BY DEF Marks, Step, Phase, Write, State
    <2>2. run' \in [Change -> Locals] /\ state' \in [Change -> State]
      BY <1>1, <1>6, <2>1 DEF Mark, Locals
    <2> QED
      BY <1>6, <2>1, <2>2 DEF Mark, TypeOK, Locals, remote
  <1> QED
    BY <1>2, <1>3, <1>4, <1>5, <1>6 DEF Shape

\* Every step of the system keeps every variable in its type.
LEMMA TypeStep == TypeOK /\ [Next]_vars => TypeOK'
  <1> SUFFICES ASSUME TypeOK, [Next]_vars PROVE TypeOK'
    OBVIOUS
  <1>1. ASSUME NEW c \in Change, PreviewSource(c) PROVE TypeOK'
    <2>1. Values(From[c]) \in [Id -> Val] /\ "planning" \in State
      BY DEF Values, TypeOK, Record, State
    <2> QED
      BY <1>1, <2>1 DEF PreviewSource, TypeOK, remote
  <1>2. ASSUME NEW c \in Change, PreviewTarget(c) PROVE TypeOK'
    <2>1. Values(To[c]) \in [Id -> Val] /\ NoPlan \in [source: [Id -> Val], target: [Id -> Val]]
      BY DEF Values, TypeOK, Record, NoPlan, Val
    <2>2. /\ [state EXCEPT ![c] = "previewed"] \in [Change -> State]
          /\ [state EXCEPT ![c] = "new"] \in [Change -> State]
      BY DEF TypeOK, State
    <2>3. /\ [plan EXCEPT ![c].target = Values(To[c])]
               \in [Change -> [source: [Id -> Val], target: [Id -> Val]]]
          /\ [plan EXCEPT ![c] = NoPlan] \in [Change -> [source: [Id -> Val], target: [Id -> Val]]]
      BY <2>1 DEF TypeOK
    <2>4. plan' \in [Change -> [source: [Id -> Val], target: [Id -> Val]]]
      BY <1>2, <2>3 DEF PreviewTarget
    <2>5. state' \in [Change -> State]
      BY <1>2, <2>2 DEF PreviewTarget
    <2> QED
      BY <1>2, <2>4, <2>5 DEF PreviewTarget, TypeOK, remote
  <1>3. ASSUME NEW c \in Change, Confirm(c) PROVE TypeOK'
    <2>1. [Idle EXCEPT !.at = "readSource"] \in Locals /\ "executing" \in State
      BY DEF Idle, Locals, Step, Phase, State
    <2> QED
      BY <1>3, <2>1 DEF Confirm, TypeOK, Locals, remote
  <1>4. ASSUME NEW c \in Change, Execute(c) PROVE TypeOK'
    BY <1>4, Shapes, ShapeType
  <1>5. ASSUME NEW c \in Change, NEW w \in Write, Arrive(c, w) PROVE TypeOK'
    <2>1. /\ table \in [Table -> [Id -> Record]]
          /\ c \in Id /\ Moves[c] \in Id /\ From[c] \in Table /\ To[c] \in Table
      BY DEF TypeOK, Id
    <2>2. /\ Moved(c) \in Val /\ Blank \in Val /\ NoRecord \in Record
      BY <2>1 DEF TypeOK, Moved, Val, NoRecord, Record
    <2>3. table' \in [Table -> [Id -> Record]]
      <3> DEFINE old == table[To[c]][c]
      <3>a. old \in Record
        BY <2>1
      <3>b. \A r \in Record, v \in Val : [r EXCEPT !.val = v] \in Record
        BY DEF Record
      <3>0. /\ old \in Record
            /\ [old EXCEPT !.val = Blank] \in Record /\ [old EXCEPT !.val = Moved(c)] \in Record
        BY <2>2, <3>a, <3>b
      <3>1. CASE w = "creating_target"
        <4>1. table' = [table EXCEPT ![To[c]] = [table[To[c]] EXCEPT
                  ![c] = IF old.val = Absent THEN [old EXCEPT !.val = Blank] ELSE old]]
          BY <1>5, <2>1, <3>1 DEF Arrive
        <4> QED
          BY <2>1, <3>0, <4>1
      <3>2. CASE w = "writing_target"
        <4>1. table' = [table EXCEPT ![To[c]] = [table[To[c]] EXCEPT
                  ![c] = IF old.val = Absent THEN old ELSE [old EXCEPT !.val = Moved(c)]]]
          BY <1>5, <2>1, <3>2 DEF Arrive
        <4> QED
          BY <2>1, <3>0, <4>1
      <3>3. CASE w = "removing_source"
        BY <1>5, <2>1, <2>2, <3>3 DEF Arrive
      <3> QED
        BY <3>1, <3>2, <3>3 DEF Write
    <2> QED
      BY <1>5, <2>3 DEF Arrive, TypeOK
  <1>6. ASSUME NEW t \in Table, NEW i \in Id, NEW rec \in Record, Edit(t, i, rec) PROVE TypeOK'
    BY <1>6 DEF Edit, TypeOK
  <1>7. CASE Restart
    <2>1. \A c \in Change : [Idle EXCEPT !.at = "over", !.phase = journal[c]] \in Locals
      BY DEF Idle, Locals, Step, TypeOK
    <2>2. "unknown" \in State
      BY DEF State
    <2> QED
      BY <1>7, <2>1, <2>2 DEF Restart, TypeOK, Locals, remote
  <1>8. CASE UNCHANGED vars
    BY <1>8 DEF vars, TypeOK
  <1> QED
    BY <1>1, <1>2, <1>3, <1>4, <1>5, <1>6, <1>7, <1>8 DEF Next

-----------------------------------------------------------------------------
(* What each shape does to its archive; the others see nothing of it.      *)

Untouched(d) ==
    /\ run'[d] = run[d] /\ state'[d] = state[d] /\ journal'[d] = journal[d]
    /\ \A w \in Write : /\ <<d, w>> \in flight' <=> <<d, w>> \in flight
                        /\ <<d, w>> \in sent' <=> <<d, w>> \in sent

\* A step of one archive leaves the locals, plan and journal of the others alone.
LEMMA ShapeOthers ==
  ASSUME TypeOK, NEW c \in Change, Shape(c)
  PROVE  UNCHANGED <<table, raced, plan>> /\ \A d \in Change \ {c} : Untouched(d)
  <1>1. ASSUME NEW e \in Looks, Advance(c, e)
        PROVE  UNCHANGED <<table, raced, plan>> /\ \A d \in Change \ {c} : Untouched(d)
    BY <1>1 DEF Advance, Goto, Untouched, TypeOK, remote
  <1>2. ASSUME NEW p \in Phase, Halt(c, p)
        PROVE  UNCHANGED <<table, raced, plan>> /\ \A d \in Change \ {c} : Untouched(d)
    BY <1>2 DEF Halt, Stop, Untouched, TypeOK, remote
  <1>3. ASSUME NEW e \in Sends, Request(c, e)
        PROVE  UNCHANGED <<table, raced, plan>> /\ \A d \in Change \ {c} : Untouched(d)
    BY <1>3 DEF Request, Untouched, TypeOK, remote
  <1>4. ASSUME NEW e \in Returns, Return(c, e)
        PROVE  UNCHANGED <<table, raced, plan>> /\ \A d \in Change \ {c} : Untouched(d)
    BY <1>4 DEF Return, Untouched, TypeOK, remote
  <1>5. ASSUME NEW e \in Marks, Mark(c, e)
        PROVE  UNCHANGED <<table, raced, plan>> /\ \A d \in Change \ {c} : Untouched(d)
    BY <1>5 DEF Mark, Untouched, TypeOK, remote
  <1> QED
    BY <1>1, <1>2, <1>3, <1>4, <1>5 DEF Shape

\* What each part of an archive is after an advance of its program counter.
LEMMA AdvanceSees ==
  ASSUME TypeOK, NEW c \in Change, NEW e \in Looks, Advance(c, e)
  PROVE  /\ run'[c].at = e[2] /\ run'[c].phase = run[c].phase
         /\ run'[c].attempted = run[c].attempted /\ run'[c].pending = run[c].pending
         /\ UNCHANGED <<state, journal, flight, sent, plan, table, raced>>
  <1>1. run \in [Change -> Locals] /\ run[c] \in Locals
    BY DEF TypeOK, Locals
  <1> QED
    BY <1>1 DEF Advance, Goto, Locals, remote

\* What each part of an archive is after its run has ended.
LEMMA HaltSees ==
  ASSUME TypeOK, NEW c \in Change, NEW p \in Phase, Halt(c, p)
  PROVE  /\ run'[c].at = "over" /\ run'[c].phase = p
         /\ state'[c] = IF ~run[c].attempted THEN "conflict"
                        ELSE IF run[c].pending \/ p = "removing_source" THEN "unknown"
                        ELSE "partial"
         /\ UNCHANGED <<journal, flight, sent, plan, table, raced>>
  <1>1. run \in [Change -> Locals] /\ run[c] \in Locals /\ state \in [Change -> State]
    BY DEF TypeOK, Locals
  <1> QED
    BY <1>1 DEF Halt, Stop, Outcome, Locals, remote

\* What each part of an archive is after it has sent a request.
LEMMA RequestSees ==
  ASSUME TypeOK, NEW c \in Change, NEW e \in Sends, Request(c, e)
  PROVE  /\ run'[c].at = e[2] /\ run'[c].phase = e[2] /\ run'[c].attempted = TRUE
         /\ run'[c].pending /\ journal'[c] = e[2]
         /\ flight' = flight \cup {<<c, e[2]>>} /\ sent' = sent \cup {<<c, e[2]>>}
         /\ UNCHANGED <<state, plan, table, raced>>
  <1>1. run \in [Change -> Locals] /\ run[c] \in Locals /\ journal \in [Change -> Phase]
    BY DEF TypeOK, Locals
  <1> QED
    BY <1>1 DEF Request, Locals, remote

\* What each part of an archive is after a request has been answered.
LEMMA ReturnSees ==
  ASSUME TypeOK, NEW c \in Change, NEW e \in Returns, Return(c, e)
  PROVE  /\ run'[c].at = e[2] /\ run'[c].phase = run[c].phase
         /\ run'[c].attempted = run[c].attempted /\ ~run'[c].pending
         /\ UNCHANGED <<state, journal, flight, sent, plan, table, raced>>
  <1>1. run \in [Change -> Locals] /\ run[c] \in Locals
    BY DEF TypeOK, Locals
  <1> QED
    BY <1>1 DEF Return, Locals, remote

\* What each part of an archive is after it has noted what a look saw.
LEMMA MarkSees ==
  ASSUME TypeOK, NEW c \in Change, NEW e \in Marks, Mark(c, e)
  PROVE  /\ run'[c].at = IF e[1] = "bodyCopy" THEN "readCopy2" ELSE "over"
         /\ run'[c].phase = e[2] /\ run'[c].attempted = run[c].attempted
         /\ run'[c].pending = run[c].pending /\ journal'[c] = e[2]
         /\ state'[c] = IF e[1] = "bodyCopy" THEN state[c] ELSE "succeeded"
         /\ UNCHANGED <<flight, sent, plan, table, raced>>
  <1>1. /\ run \in [Change -> Locals] /\ run[c] \in Locals
        /\ journal \in [Change -> Phase] /\ state \in [Change -> State]
    BY DEF TypeOK, Locals
  <1> QED
    BY <1>1 DEF Mark, Locals, remote

-----------------------------------------------------------------------------
(* What the tables of steps say.                                           *)

Outside == {"idle", "over"}

\* The steps that only look, with the phase they run in.
LEMMA LooksFacts ==
  \A e \in Looks : /\ e[1] \notin Write \cup Outside /\ e[2] \notin Write \cup Outside
                   /\ PhaseAt(e[1]) = PhaseAt(e[2])
                   /\ e[1] \in Early <=> e[2] \in Early
                   /\ e[1] \in Late => e[2] \in Late
  BY DEF Looks, Write, Outside, PhaseAt, Early, Late

\* The steps that send, with the phase they save and the step that follows.
LEMMA SendsFacts ==
  \A e \in Sends : /\ e[1] \notin Write \cup Outside \cup Late /\ e[2] \in Write
                   /\ e[2] \notin Early \cup Outside
                   /\ PhaseAt(e[2]) = e[2]
                   /\ e[2] = "removing_source" => e[2] \in Late
                   /\ e[2] = "removing_source" => e[1] = "remove"
                   /\ Rank[e[2]] >= Rank[PhaseAt(e[1])]
  BY DEF Sends, Write, Outside, PhaseAt, Early, Late, Rank

\* The steps that await an answer, with the step that follows.
LEMMA ReturnsFacts ==
  \A e \in Returns : /\ e[1] \in Write /\ e[2] \notin Write \cup Outside \cup Early
                     /\ e[1] \notin Early \cup Outside
                     /\ PhaseAt(e[1]) = PhaseAt(e[2])
                     /\ e[1] \in Late => e[2] \in Late
  BY DEF Returns, Write, Outside, PhaseAt, Early, Late

\* The steps that remember what they saw.
LEMMA MarksFacts ==
  \A e \in Marks : \/ e[1] = "bodyCopy" /\ e[2] = "target_verified"
                   \/ e[1] = "bodyCopy3" /\ e[2] = "completed"
  BY DEF Marks

\* The order of the phases is an order of naturals.
LEMMA RankNat == \A p \in Phase : Rank[p] \in Nat
  BY DEF Rank, Phase, Write

\* A step in which a run ends, in the phase p.
LEMMA HaltFacts ==
  ASSUME NEW c \in Change, NEW p \in Phase, Halt(c, p), run[c].phase = PhaseAt(run[c].at)
  PROVE  /\ run[c].at \notin Outside
         /\ run[c].at \in Late => p \in {"removing_source", "completed"}
  <1>1. CASE p = run[c].phase
    BY <1>1 DEF Halt, Running, Outside, PhaseAt, Late, Early
  <1>2. CASE <<run[c].at, p>> \in Sends \cup Marks
    BY <1>2 DEF Halt, Running, Outside, Sends, Marks, Late
  <1> QED
    BY <1>1, <1>2 DEF Halt

-----------------------------------------------------------------------------
(* The steps of executeTableArchive preserve the invariant.                *)

\* A step of an archive keeps the phase, the saved phase and the step in agreement.
LEMMA ShapeStep ==
  ASSUME IInv, TypeOK, NEW c \in Change, Shape(c) PROVE \A d \in Change : StepOK(d)'
  <1>1. StepOK(c) /\ UNCHANGED plan
    BY ShapeOthers DEF IInv
  <1>2. ASSUME NEW e \in Looks, Advance(c, e) PROVE StepOK(c)'
    BY <1>1, <1>2, AdvanceSees, LooksFacts DEF Advance, StepOK, Running, Moved, Outside
  <1>3. ASSUME NEW e \in Sends, Request(c, e) PROVE StepOK(c)'
    BY <1>1, <1>3, RequestSees, SendsFacts DEF Request, StepOK, Running, Moved, Outside
  <1>4. ASSUME NEW e \in Returns, Return(c, e) PROVE StepOK(c)'
    BY <1>1, <1>4, ReturnSees, ReturnsFacts DEF Return, StepOK, Running, Moved, Outside
  <1>5. ASSUME NEW e \in Marks, Mark(c, e) PROVE StepOK(c)'
    <2>0. run[c].at = e[1]
      BY <1>5 DEF Mark
    <2>1. CASE e[1] = "bodyCopy"
      <3>1. /\ run'[c].at = "readCopy2" /\ run'[c].phase = "target_verified"
            /\ run'[c].attempted = run[c].attempted
            /\ journal'[c] = "target_verified" /\ state'[c] = state[c]
        BY <1>5, <2>1, MarkSees, MarksFacts
      <3>2. PhaseAt("readCopy2") = "target_verified"
        BY DEF PhaseAt, Early, Late
      <3>3. Running(c) /\ state[c] = "executing" /\ run[c].attempted
        BY <1>1, <2>0, <2>1 DEF StepOK, Running, Early
      <3> QED
        BY <1>1, <3>1, <3>2, <3>3 DEF StepOK, Running, Moved, Early
    <2>2. CASE e[1] = "bodyCopy3"
      <3>1. run'[c].at = "over" /\ state'[c] = "succeeded"
        BY <1>5, <2>2, MarkSees, MarksFacts
      <3>2. state[c] = "executing"
        BY <1>1, <2>0, <2>2 DEF StepOK, Running
      <3> QED
        BY <1>1, <3>1, <3>2 DEF StepOK, Running, Moved
    <2> QED
      BY <2>1, <2>2, MarksFacts
  <1>6. ASSUME NEW p \in Phase, Halt(c, p) PROVE StepOK(c)'
    BY <1>1, <1>6, HaltSees DEF Halt, StepOK, Running, Moved
  <1>7. StepOK(c)'
    BY <1>2, <1>3, <1>4, <1>5, <1>6 DEF Shape
  <1>8. ASSUME NEW d \in Change \ {c} PROVE StepOK(d)'
    BY ShapeOthers DEF IInv, Untouched, StepOK, Running, Moved
  <1> QED
    BY <1>7, <1>8

\* A step of an archive has a request in flight only for a phase it has saved.
LEMMA ShapeRequest ==
  ASSUME IInv, TypeOK, NEW c \in Change, Shape(c) PROVE \A d \in Change : RequestOK(d)'
  <1>1. RequestOK(c) /\ StepOK(c)
    BY DEF IInv
  <1>2. ASSUME NEW e \in Looks, Advance(c, e) PROVE RequestOK(c)'
    BY <1>1, <1>2, AdvanceSees, LooksFacts DEF Advance, RequestOK, Running, Outside
  <1>3. ASSUME NEW e \in Sends, Request(c, e) PROVE RequestOK(c)'
    <2>1. /\ run[c].at = e[1] /\ run'[c].at = e[2]
          /\ flight' = flight \cup {<<c, e[2]>>} /\ sent' = sent \cup {<<c, e[2]>>}
      BY <1>3, RequestSees DEF Request
    <2>2. Running(c) /\ run[c].at \notin Write /\ run[c].at \notin Late
      BY <2>1, SendsFacts DEF Running, Outside
    <2>3. \A w \in Write : <<c, w>> \notin flight
      BY <1>1, <2>2 DEF RequestOK
    <2>4. \A w \in Write : /\ <<c, w>> \in flight' => w = e[2]
                           /\ w = e[2] => <<c, w>> \in sent'
                           /\ <<c, w>> \in sent' => w = e[2] \/ <<c, w>> \in sent
      BY <2>1, <2>3
    <2>5. \A w \in Write : <<c, w>> \in sent => w # "removing_source"
      BY <1>1, <2>2 DEF RequestOK
    <2>6. e[2] \notin Early \cup {"idle"} /\ (e[2] = "removing_source" => e[2] \in Late)
      BY SendsFacts DEF Outside
    <2> QED
      BY <2>1, <2>4, <2>5, <2>6 DEF RequestOK
  <1>4. ASSUME NEW e \in Returns, Return(c, e) PROVE RequestOK(c)'
    BY <1>1, <1>4, ReturnSees, ReturnsFacts DEF Return, RequestOK, Running, Outside
  <1>5. ASSUME NEW e \in Marks, Mark(c, e) PROVE RequestOK(c)'
    <2>1. /\ run[c].at = e[1] /\ UNCHANGED <<flight, sent>>
          /\ run'[c].at = IF e[1] = "bodyCopy" THEN "readCopy2" ELSE "over"
      BY <1>5, MarkSees DEF Mark
    <2>2. run[c].at \notin Write /\ Running(c) /\ (e[1] = "bodyCopy" => run[c].at \notin Late)
      BY <2>1, MarksFacts DEF Write, Running, Late
    <2>3. \A w \in Write : <<c, w>> \notin flight
      BY <1>1, <2>2 DEF RequestOK
    <2>4. run'[c].at \notin Early \cup {"idle"}
      BY <2>1 DEF Early
    <2>5. \A w \in Write : <<c, w>> \in sent /\ Running(c)' => w # "removing_source"
      BY <1>1, <2>1, <2>2 DEF RequestOK, Running
    <2> QED
      BY <2>1, <2>3, <2>4, <2>5 DEF RequestOK
  <1>6. ASSUME NEW p \in Phase, Halt(c, p) PROVE RequestOK(c)'
    BY <1>1, <1>6, HaltSees DEF Halt, RequestOK, Running, Early
  <1>7. RequestOK(c)'
    BY <1>2, <1>3, <1>4, <1>5, <1>6 DEF Shape
  <1>8. ASSUME NEW d \in Change \ {c} PROVE RequestOK(d)'
    BY ShapeOthers DEF IInv, Untouched, RequestOK, Running
  <1> QED
    BY <1>7, <1>8

\* What an archive says when it ends agrees with the requests it has made.
LEMMA ShapeSaid ==
  ASSUME IInv, TypeOK, NEW c \in Change, Shape(c) PROVE \A d \in Change : SaidOK(d)'
  <1>1. SaidOK(c) /\ RequestOK(c) /\ StepOK(c)
    BY DEF IInv
  <1>2. ASSUME NEW e \in Looks, Advance(c, e) PROVE SaidOK(c)'
    <2>1. state[c] = "executing"
      BY <1>1, <1>2, LooksFacts DEF Advance, StepOK, Running, Outside
    <2> QED
      BY <1>1, <1>2, <2>1, AdvanceSees DEF SaidOK
  <1>3. ASSUME NEW e \in Sends, Request(c, e) PROVE SaidOK(c)'
    <2>1. state[c] = "executing" /\ journal[c] = PhaseAt(e[1])
      BY <1>1, <1>3, SendsFacts DEF Request, StepOK, Running, Outside
    <2>2. /\ journal'[c] = e[2] /\ state'[c] = "executing"
          /\ sent' = sent \cup {<<c, e[2]>>}
      BY <1>3, <2>1, RequestSees
    <2>3. Rank[e[2]] >= Rank[journal[c]] /\ e[2] \in Phase /\ journal[c] \in Phase
      BY <2>1, SendsFacts DEF Phase, TypeOK
    <2>4. ASSUME NEW w \in Write, <<c, w>> \in sent' PROVE Rank[journal'[c]] >= Rank[w]
      <3>1. w \in Phase
        BY DEF Phase
      <3>2. CASE w = e[2]
        BY <2>2, <3>1, <3>2, RankNat
      <3>3. CASE <<c, w>> \in sent
        <4>1. Rank[journal[c]] >= Rank[w]
          BY <1>1, <3>3 DEF SaidOK
        <4> QED
          BY <2>2, <2>3, <3>1, <4>1, RankNat
      <3> QED
        BY <2>2, <2>4, <3>2, <3>3
    <2> QED
      BY <2>2, <2>4 DEF SaidOK
  <1>4. ASSUME NEW e \in Returns, Return(c, e) PROVE SaidOK(c)'
    <2>1. state[c] = "executing"
      BY <1>1, <1>4, ReturnsFacts DEF Return, StepOK, Running, Outside
    <2> QED
      BY <1>1, <1>4, <2>1, ReturnSees DEF SaidOK
  <1>5. ASSUME NEW e \in Marks, Mark(c, e) PROVE SaidOK(c)'
    <2>1. state[c] = "executing" /\ journal[c] = PhaseAt(e[1])
      BY <1>1, <1>5, MarksFacts DEF Mark, StepOK, Running
    <2>2. \A w \in Write : <<c, w>> \in sent' => Rank[journal'[c]] >= Rank[w]
      <3>1. CASE e[1] = "bodyCopy"
        <4>1. journal[c] = "writing_target" /\ journal'[c] = "target_verified"
          BY <1>5, <2>1, <3>1, MarkSees, MarksFacts DEF PhaseAt, Early
        <4>2. \A w \in Write : <<c, w>> \in sent => Rank["writing_target"] >= Rank[w]
          BY <1>1, <4>1 DEF SaidOK
        <4>3. \A w \in Write : Rank["writing_target"] >= Rank[w] => Rank["target_verified"] >= Rank[w]
          BY DEF Rank, Write
        <4>4. sent' = sent
          BY <1>5, MarkSees
        <4> QED
          BY <4>1, <4>2, <4>3, <4>4
      <3>2. CASE e[1] = "bodyCopy3"
        <4>1. journal'[c] = "completed"
          BY <1>5, <3>2, MarkSees, MarksFacts
        <4> QED
          BY <4>1 DEF Rank, Write
      <3> QED
        BY <3>1, <3>2, MarksFacts
    <2>3. state'[c] \in {"executing", "succeeded"} /\ sent' = sent
      BY <1>5, <2>1, MarkSees
    <2> QED
      BY <2>2, <2>3 DEF SaidOK
  <1>6. ASSUME NEW p \in Phase, Halt(c, p) PROVE SaidOK(c)'
    <2>1. /\ Running(c) /\ run[c].phase = PhaseAt(run[c].at)
          /\ run[c].attempted <=> run[c].at \notin Early
      BY <1>1, <1>6 DEF Halt, StepOK
    <2>2. \A w \in Write : state'[c] = "conflict" => <<c, w>> \notin sent'
      BY <1>1, <1>6, <2>1, HaltSees DEF RequestOK
    <2>3. \A w \in Write : <<c, w>> \in sent' => Rank[journal'[c]] >= Rank[w]
      BY <1>1, <1>6, HaltSees DEF SaidOK
    <2>4. ASSUME <<c, "removing_source">> \in sent'
          PROVE  \/ state'[c] \in {"executing", "unknown", "succeeded"}
                 \/ state'[c] = "partial" /\ run'[c].phase = "completed"
      <3>1. run[c].at \in Late /\ run[c].attempted
        BY <1>1, <1>6, <2>1, <2>4, HaltSees DEF RequestOK, Write
      <3>2. p \in {"removing_source", "completed"}
        BY <1>6, <2>1, <3>1, HaltFacts
      <3> QED
        BY <1>6, <3>1, <3>2, HaltSees
    <2> QED
      BY <2>2, <2>3, <2>4 DEF SaidOK
  <1>7. SaidOK(c)'
    BY <1>2, <1>3, <1>4, <1>5, <1>6 DEF Shape
  <1>8. ASSUME NEW d \in Change \ {c} PROVE SaidOK(d)'
    BY ShapeOthers DEF IInv, Untouched, SaidOK, Write
  <1> QED
    BY <1>7, <1>8

\* What a look has seen when the code goes on after it.
LEMMA LookSaw ==
  ASSUME TypeOK, NEW c \in Change, Execute(c), run'[c].at # "over"
  PROVE  /\ run[c].at = "readCopy2" => HasCopy(c)
         /\ run[c].at = "bodyCopy2" => CopyBodyEmpty(c)
         /\ run[c].at = "readSource2" => SourceSame(c)
         /\ run[c].at = "bodySource2" => SourceBodyEmpty(c)
  <1>1. ~Stop(c, run[c])
    BY DEF TypeOK, Stop
  <1>2. ASSUME run[c].at \in {"readCopy2", "bodyCopy2", "readSource2", "bodySource2"}
        PROVE  ReadCopy2(c) \/ BodyCopy2(c) \/ ReadSource2(c) \/ BodySource2(c)
    BY <1>2 DEF Execute, Look, Send, Answered, LookAndMark,
         ReadSource, ReadTarget, ReadBody, Create, Created, ReadCreated, Populate,
         Populated, ReadCopy, BodyCopy, ReadCopy2, BodyCopy2, ReadSource2, BodySource2,
         RemoveRecord,
         Removed, ReadSource3, ReadTarget3, BodyCopy3
  <1> QED
    BY <1>1, <1>2 DEF Look, ReadCopy2, BodyCopy2, ReadSource2, BodySource2

\* A step of an archive keeps what its looks have seen true of the remote tables.
LEMMA ExecuteLook ==
  ASSUME IInv, TypeOK, NEW c \in Change, Execute(c) PROVE \A d \in Change : LookOK(d)'
  <1>1. /\ Shape(c) /\ UNCHANGED <<table, raced, plan>>
        /\ LookOK(c) /\ RequestOK(c) /\ StepOK(c)
    BY Shapes, ShapeOthers DEF IInv
  <1>2. ASSUME NEW e \in Looks, Advance(c, e) PROVE LookOK(c)'
    <2>1. run[c].at = e[1] /\ run'[c].at = e[2] /\ flight' = flight
      BY <1>2, AdvanceSees DEF Advance
    <2>2. ~Removing(c)
      BY <1>1, <2>1, LooksFacts DEF RequestOK, Removing, Running, Outside, Write
    <2>3. run'[c].at # "over"
      BY <2>1, LooksFacts DEF Outside
    <2>4. CASE e[2] = "bodyCopy2"
      <3>1. table[To[c]][c].val = Moved(c)
        BY <2>1, <2>3, <2>4, LookSaw DEF Looks, HasCopy
      <3> QED
        BY <1>1, <2>1, <2>2, <2>4, <3>1 DEF LookOK, Removing, Moved
    <2>5. CASE e[2] = "readSource2"
      <3>1. run[c].at = "bodyCopy2"
        BY <2>1, <2>5 DEF Looks
      <3>2. table[To[c]][c] \in Record /\ table[To[c]][c].body = FALSE
        <4>1. table[To[c]][c] \in Record
          BY DEF TypeOK, Id
        <4>2. table[To[c]][c].body \in BOOLEAN
          BY <4>1 DEF Record
        <4>3. ~table[To[c]][c].body
          BY <2>3, <3>1, LookSaw DEF CopyBodyEmpty
        <4> QED
          BY <4>1, <4>2, <4>3
      <3>3. c \notin raced => table[To[c]][c] = Whole(c)
        BY <1>1, <3>1, <3>2 DEF LookOK, Whole, Record
      <3> QED
        BY <1>1, <2>1, <2>2, <2>5, <3>3 DEF LookOK, Removing, Moved, Whole
    <2>6. CASE e[2] = "bodySource2"
      <3>1. run[c].at = "readSource2"
        BY <2>1, <2>6 DEF Looks
      <3>2. table[From[c]][Moves[c]].val = Moved(c)
        BY <2>3, <3>1, LookSaw DEF SourceSame, Same, Moved, Id
      <3> QED
        BY <1>1, <2>1, <2>2, <2>6, <3>1, <3>2 DEF LookOK, Removing, Moved, Whole
    <2>7. CASE e[2] = "remove"
      <3>1. run[c].at = "bodySource2"
        BY <2>1, <2>7 DEF Looks
      <3>2. table[From[c]][Moves[c]] \in Record /\ table[From[c]][Moves[c]].body = FALSE
        <4>1. table[From[c]][Moves[c]] \in Record
          BY DEF TypeOK, Id
        <4>2. table[From[c]][Moves[c]].body \in BOOLEAN
          BY <4>1 DEF Record
        <4>3. ~table[From[c]][Moves[c]].body
          BY <2>3, <3>1, LookSaw DEF SourceBodyEmpty
        <4> QED
          BY <4>1, <4>2, <4>3
      <3>3. c \notin raced => table[From[c]][Moves[c]] \in {NoRecord, Whole(c)}
        BY <1>1, <3>1, <3>2 DEF LookOK, Whole, NoRecord, Record
      <3> QED
        BY <1>1, <2>1, <2>2, <2>7, <3>1, <3>3 DEF LookOK, Removing, Moved, Whole
    <2>8. CASE e[2] \notin {"bodyCopy2", "readSource2", "bodySource2", "remove"}
      BY <2>1, <2>2, <2>8 DEF LookOK, Removing
    <2> QED
      BY <2>4, <2>5, <2>6, <2>7, <2>8
  <1>3. ASSUME NEW e \in Sends, Request(c, e) PROVE LookOK(c)'
    <2>1. /\ run[c].at = e[1] /\ run'[c].at = e[2] /\ flight' = flight \cup {<<c, e[2]>>}
          /\ e[2] \in Write
      BY <1>3, RequestSees, SendsFacts DEF Request
    <2>2. ~Removing(c)
      BY <1>1, <2>1, SendsFacts DEF RequestOK, Removing, Running, Outside, Write
    <2>3. CASE e[2] = "removing_source"
      <3>1. run[c].at = "remove"
        BY <2>1, <2>3, SendsFacts
      <3> QED
        BY <1>1, <2>1, <2>3, <3>1 DEF LookOK, Moved, Whole
    <2>4. CASE e[2] # "removing_source"
      <3>1. ~Removing(c)'
        BY <2>1, <2>2, <2>4 DEF Removing
      <3> QED
        BY <2>1, <3>1 DEF LookOK, Write
    <2> QED
      BY <2>3, <2>4
  <1>4. ASSUME NEW e \in Returns, Return(c, e) PROVE LookOK(c)'
    <2>1. run'[c].at = e[2] /\ flight' = flight
      BY <1>4, ReturnSees
    <2>2. run'[c].at \notin {"bodyCopy2", "readSource2", "bodySource2", "remove"}
      BY <2>1 DEF Returns
    <2> QED
      BY <1>1, <2>1, <2>2 DEF LookOK, Removing, Moved, Whole
  <1>5. ASSUME NEW e \in Marks, Mark(c, e) PROVE LookOK(c)'
    <2>1. run'[c].at \in {"readCopy2", "over"} /\ flight' = flight
      BY <1>5, MarkSees
    <2> QED
      BY <1>1, <2>1 DEF LookOK, Removing, Moved, Whole
  <1>6. ASSUME NEW p \in Phase, Halt(c, p) PROVE LookOK(c)'
    BY <1>1, <1>6, HaltSees DEF LookOK, Removing, Moved, Whole
  <1>7. LookOK(c)'
    BY <1>1, <1>2, <1>3, <1>4, <1>5, <1>6 DEF Shape
  <1>8. ASSUME NEW d \in Change \ {c} PROVE LookOK(d)'
    <2>1. Untouched(d) /\ LookOK(d)
      BY <1>1, ShapeOthers DEF IInv
    <2> QED
      BY <1>1, <2>1 DEF Untouched, LookOK, Removing, Moved, Whole, Write
  <1> QED
    BY <1>7, <1>8

-----------------------------------------------------------------------------
(* The other actions.                                                      *)

AllOK(c) == StepOK(c) /\ RequestOK(c) /\ LookOK(c) /\ SaidOK(c)

\* An archive that an action leaves as it was keeps its part of the invariant.
LEMMA Unseen ==
  ASSUME IInv, NEW d \in Change, Untouched(d), UNCHANGED <<table, raced>>, plan'[d] = plan[d]
  PROVE  AllOK(d)'
  BY DEF IInv, AllOK, Untouched, StepOK, RequestOK, LookOK, SaidOK, Running, Removing, Moved,
         Whole, Write

\* Reading the source record for a preview keeps the invariant.
LEMMA PreviewSourceStep ==
  ASSUME IInv, NEW c \in Change, PreviewSource(c) PROVE \A d \in Change : AllOK(d)'
  <1>1. TypeOK /\ StepOK(c) /\ RequestOK(c) /\ SaidOK(c)
    BY DEF IInv
  <1>2. /\ state[c] = "new" /\ state'[c] = "planning" /\ run[c].at = "idle"
        /\ UNCHANGED <<run, journal, flight, sent>>
    BY <1>1 DEF PreviewSource, StepOK, TypeOK
  <1>3. \A w \in Write : <<c, w>> \notin sent /\ <<c, w>> \notin flight
    BY <1>1, <1>2 DEF RequestOK
  <1>4. AllOK(c)'
    BY <1>1, <1>2, <1>3 DEF AllOK, StepOK, RequestOK, LookOK, SaidOK, Running, Removing, Write
  <1>5. ASSUME NEW d \in Change \ {c} PROVE AllOK(d)'
    <2>1. Untouched(d) /\ UNCHANGED <<table, raced>> /\ plan'[d] = plan[d]
      BY <1>1 DEF PreviewSource, Untouched, remote, TypeOK
    <2> QED
      BY <2>1, Unseen
  <1> QED
    BY <1>4, <1>5

\* Storing the plan of a preview keeps the invariant.
LEMMA PreviewTargetStep ==
  ASSUME IInv, NEW c \in Change, PreviewTarget(c) PROVE \A d \in Change : AllOK(d)'
  <1>1. TypeOK /\ StepOK(c) /\ RequestOK(c) /\ SaidOK(c)
    BY DEF IInv
  <1>2. /\ state[c] = "planning" /\ run[c].at = "idle"
        /\ UNCHANGED <<run, journal, flight, sent>>
    BY <1>1 DEF PreviewTarget, StepOK
  <1>3. \A w \in Write : <<c, w>> \notin sent /\ <<c, w>> \notin flight
    BY <1>1, <1>2 DEF RequestOK
  <1>4. \/ state'[c] = "previewed" /\ plan'[c].source = plan[c].source /\ Moved(c) \in Value
        \/ state'[c] = "new"
    <2>1. CASE plan' = [plan EXCEPT ![c].target = Values(To[c])] /\ Moved(c) \in Value
                 /\ state' = [state EXCEPT ![c] = "previewed"]
      BY <1>1, <2>1 DEF TypeOK
    <2>2. CASE state' = [state EXCEPT ![c] = "new"]
      BY <1>1, <2>2 DEF TypeOK
    <2> QED
      BY <2>1, <2>2 DEF PreviewTarget
  <1>5. AllOK(c)'
    BY <1>1, <1>2, <1>3, <1>4
    DEF AllOK, StepOK, RequestOK, LookOK, SaidOK, Running, Removing, Write, Moved
  <1>6. ASSUME NEW d \in Change \ {c} PROVE AllOK(d)'
    <2>1. state'[d] = state[d] /\ plan'[d] = plan[d]
      BY <1>1 DEF PreviewTarget, TypeOK
    <2>2. Untouched(d) /\ UNCHANGED <<table, raced>>
      BY <1>2, <2>1 DEF PreviewTarget, Untouched, remote
    <2> QED
      BY <2>1, <2>2, Unseen
  <1> QED
    BY <1>5, <1>6

\* Claiming a preview for its execution keeps the invariant.
LEMMA ConfirmStep ==
  ASSUME IInv, NEW c \in Change, Confirm(c) PROVE \A d \in Change : AllOK(d)'
  <1>1. TypeOK /\ StepOK(c) /\ RequestOK(c) /\ SaidOK(c)
    BY DEF IInv
  <1>2. /\ state[c] = "previewed" /\ run[c].at = "idle" /\ journal[c] = "prepared"
        /\ Moved(c) \in Value /\ UNCHANGED <<plan, journal, flight, sent>>
    BY <1>1 DEF Confirm, StepOK
  <1>3. /\ state'[c] = "executing"
        /\ run'[c].at = "readSource" /\ run'[c].phase = "prepared" /\ ~run'[c].attempted
    BY <1>1 DEF Confirm, TypeOK, Idle
  <1>4. \A w \in Write : <<c, w>> \notin sent /\ <<c, w>> \notin flight
    BY <1>1, <1>2 DEF RequestOK
  <1>5. PhaseAt("readSource") = "prepared"
    BY DEF PhaseAt, Early
  <1>6. AllOK(c)'
    BY <1>2, <1>3, <1>4, <1>5
    DEF AllOK, StepOK, RequestOK, LookOK, SaidOK, Running, Removing, Write, Moved, Early
  <1>7. ASSUME NEW d \in Change \ {c} PROVE AllOK(d)'
    <2>1. Untouched(d) /\ UNCHANGED <<table, raced>> /\ plan'[d] = plan[d]
      BY <1>1 DEF Confirm, Untouched, remote, TypeOK
    <2> QED
      BY <2>1, Unseen
  <1> QED
    BY <1>6, <1>7

\* A restart, which ends every run as unknown, keeps the invariant.
LEMMA RestartStep ==
  ASSUME IInv, Restart PROVE \A d \in Change : AllOK(d)'
  <1> SUFFICES ASSUME NEW d \in Change PROVE AllOK(d)'
    OBVIOUS
  <1>1. TypeOK /\ StepOK(d) /\ RequestOK(d) /\ SaidOK(d) /\ LookOK(d)
    BY DEF IInv
  <1>2. UNCHANGED <<table, raced, plan, journal, flight, sent>>
    BY DEF Restart, remote
  <1>3. CASE Running(d)
    <2>1. run'[d].at = "over" /\ state'[d] = "unknown" /\ state[d] = "executing"
      BY <1>1, <1>3 DEF Restart, Idle, StepOK
    <2> QED
      BY <1>1, <1>2, <2>1
      DEF AllOK, StepOK, RequestOK, LookOK, SaidOK, Running, Removing, Write, Moved, Early, Whole
  <1>4. CASE ~Running(d)
    <2>1. run'[d] = run[d] /\ state'[d] = state[d]
      BY <1>1, <1>4 DEF Restart, StepOK
    <2> QED
      BY <1>2, <2>1, Unseen DEF Untouched
  <1> QED
    BY <1>3, <1>4

\* A colleague's edit of either table keeps the invariant.
LEMMA EditStep ==
  ASSUME IInv, NEW t \in Table, NEW i \in Id, NEW rec \in Record, Edit(t, i, rec)
  PROVE  \A d \in Change : AllOK(d)'
  <1> SUFFICES ASSUME NEW d \in Change PROVE AllOK(d)'
    OBVIOUS
  <1>1. TypeOK /\ StepOK(d) /\ RequestOK(d) /\ SaidOK(d) /\ LookOK(d)
    BY DEF IInv
  <1>2. UNCHANGED <<state, plan, journal, run, flight, sent>>
    BY DEF Edit
  <1>3. StepOK(d)' /\ RequestOK(d)' /\ SaidOK(d)'
    BY <1>1, <1>2 DEF StepOK, RequestOK, SaidOK, Running, Moved
  <1>4. \A u \in Table \ {t} : table'[u] = table[u]
    BY <1>1 DEF Edit, TypeOK
  <1>5. LookOK(d)'
    <2>1. SUFFICES ASSUME d \notin raced' PROVE LookOK(d)'
      BY DEF LookOK
    <2>2. d \notin raced /\ ~Unguarded(d, t)
      BY <2>1 DEF Edit
    <2>3. ~Removing(d)
      BY <2>2 DEF Unguarded, Removing
    <2>4. CASE t = To[d]
      BY <1>2, <2>2, <2>3, <2>4 DEF Unguarded, LookOK, Removing
    <2>5. CASE t = From[d]
      <3>1. table'[To[d]] = table[To[d]]
        BY <1>4, <2>5
      <3>2. run[d].at \notin {"bodySource2", "remove"}
        BY <2>2, <2>5 DEF Unguarded
      <3> QED
        BY <1>1, <1>2, <2>2, <2>3, <3>1, <3>2 DEF LookOK, Removing, Moved, Whole
    <2>6. CASE t \notin {From[d], To[d]}
      <3>1. table'[To[d]] = table[To[d]] /\ table'[From[d]] = table[From[d]]
        BY <1>4, <2>6
      <3> QED
        BY <1>1, <1>2, <2>2, <2>3, <3>1 DEF LookOK, Removing, Moved, Whole
    <2> QED
      BY <2>4, <2>5, <2>6
  <1> QED
    BY <1>3, <1>5 DEF AllOK

\* A request that arrives, in time or late, keeps the invariant.
LEMMA ArriveStep ==
  ASSUME IInv, NEW c \in Change, NEW w \in Write, Arrive(c, w)
  PROVE  \A d \in Change : AllOK(d)'
  <1> SUFFICES ASSUME NEW d \in Change PROVE AllOK(d)'
    OBVIOUS
  <1>1. /\ TypeOK /\ StepOK(d) /\ RequestOK(d) /\ SaidOK(d) /\ LookOK(d)
        /\ StepOK(c) /\ RequestOK(c)
    BY DEF IInv
  <1>2. /\ UNCHANGED <<raced, state, plan, journal, run, sent>>
        /\ flight' = flight \ {<<c, w>>} /\ <<c, w>> \in flight
    BY DEF Arrive
  <1>3. StepOK(d)' /\ RequestOK(d)' /\ SaidOK(d)'
    BY <1>1, <1>2 DEF StepOK, RequestOK, SaidOK, Running, Moved
  <1>4. Removing(d)' => Removing(d)
    BY <1>2 DEF Removing
  <1>5. table \in [Table -> [Id -> Record]] /\ c \in Id /\ d \in Id /\ Moves[c] \in Id
        /\ Moves[d] \in Id /\ Moves[c] # d /\ Moves[d] # c
    BY <1>1 DEF TypeOK, Id
  <1>6. LookOK(d)'
    <2>1. SUFFICES ASSUME d \notin raced,
                          \/ run[d].at \in {"bodyCopy2", "readSource2", "bodySource2", "remove"}
                          \/ Removing(d)
                   PROVE  LookOK(d)'
      BY <1>2, <1>4 DEF LookOK
    <2>2. table[To[d]][d].val = Moved(d) /\ Moved(d) \in Value
      <3>1. table[To[d]][d].val = Moved(d)
        BY <1>1, <2>1 DEF LookOK, Whole
      <3>2. state[d] \notin {"new", "planning"}
        BY <1>1, <2>1 DEF StepOK, RequestOK, Removing, Write
      <3> QED
        BY <1>1, <3>1, <3>2 DEF StepOK
    <2>3. table'[To[d]][d] = table[To[d]][d]
      <3>1. CASE w = "creating_target"
        BY <1>5, <2>2, <3>1 DEF Arrive
      <3>2. CASE w = "writing_target"
        BY <1>5, <2>2, <3>2 DEF Arrive, Record
      <3>3. CASE w = "removing_source"
        BY <1>5, <3>3 DEF Arrive
      <3> QED
        BY <3>1, <3>2, <3>3 DEF Write
    <2>4. \/ table'[From[d]][Moves[d]] = table[From[d]][Moves[d]]
          \/ table'[From[d]][Moves[d]] = NoRecord
      <3>1. CASE w = "creating_target"
        BY <1>5, <3>1 DEF Arrive
      <3>2. CASE w = "writing_target"
        BY <1>5, <3>2 DEF Arrive
      <3>3. CASE w = "removing_source"
        BY <1>5, <3>3 DEF Arrive
      <3> QED
        BY <3>1, <3>2, <3>3 DEF Write
    <2>5. NoRecord.val = Absent
      BY DEF NoRecord
    <2> QED
      BY <1>1, <1>2, <1>4, <2>1, <2>3, <2>4, <2>5 DEF LookOK, Moved, Whole
  <1> QED
    BY <1>3, <1>6 DEF AllOK

-----------------------------------------------------------------------------
(* The invariant and what follows from it.                                 *)

\* The induction step.
LEMMA NextInv == IInv /\ [Next]_vars => IInv'
  <1> SUFFICES ASSUME IInv, [Next]_vars PROVE IInv'
    OBVIOUS
  <1>1. TypeOK /\ TypeOK'
    BY TypeStep DEF IInv
  <1>2. \A d \in Change : AllOK(d)'
    <2>1. ASSUME NEW c \in Change, Execute(c) PROVE \A d \in Change : AllOK(d)'
      BY <1>1, <2>1, Shapes, ShapeStep, ShapeRequest, ShapeSaid, ExecuteLook DEF AllOK
    <2>2. CASE UNCHANGED vars
      BY <2>2, Unseen DEF vars, Untouched
    <2> QED
      BY <2>1, <2>2, PreviewSourceStep, PreviewTargetStep, ConfirmStep, RestartStep, EditStep,
         ArriveStep DEF Next
  <1> QED
    BY <1>1, <1>2 DEF IInv, AllOK

\* The conjunction is inductive, hence holds of every reachable state.
THEOREM Invariance == Spec => []IInv
  BY InitInv, NextInv, PTL DEF Spec

\* Every reachable state is well typed.
THEOREM TypeCorrect == Spec => []TypeOK
  BY Invariance, PTL DEF IInv

\* No request of an archive that ends in conflict was ever made.
THEOREM ConflictWroteNothingHolds == Spec => []ConflictWroteNothing
  <1>1. IInv => ConflictWroteNothing
    BY DEF IInv, SaidOK, ConflictWroteNothing
  <1> QED
    BY <1>1, Invariance, PTL

\* The journal is ahead of the remote tables, whatever dies or is late.
THEOREM JournalAheadHolds == Spec => []JournalAhead
  <1>1. IInv => JournalAhead
    BY DEF IInv, SaidOK, JournalAhead
  <1> QED
    BY <1>1, Invariance, PTL

\* A requested removal is never reported as a mere copy.
THEOREM SourceGoneIsSaidHolds == Spec => []SourceGoneIsSaid
  <1>1. IInv => SourceGoneIsSaid
    BY DEF IInv, SaidOK, SourceGoneIsSaid
  <1> QED
    BY <1>1, Invariance, PTL

\* What the row says of an archive is true of the requests it made.
THEOREM OutcomeIsTrueHolds == Spec => []OutcomeIsTrue
  BY ConflictWroteNothingHolds, SourceGoneIsSaidHolds, PTL DEF OutcomeIsTrue

\* No record is removed that is not copied, short of an edit in the window.
THEOREM RemovesOnlyCopiedHolds == Spec => []RemovesOnlyCopied
  <1>1. IInv => RemovesOnlyCopied
    BY DEF IInv, LookOK, RemovesOnlyCopied, Removing, Whole
  <1> QED
    BY <1>1, Invariance, PTL

-----------------------------------------------------------------------------
(* One copy.  An archive that reached its writes had read the target as    *)
(* its preview did, without an equal record; the lock keeps the others     *)
(* away, and what has ended without being unknown has nothing in flight.   *)

\* A request is awaited exactly in the three writes.
PendingOK(c) == Running(c) => (run[c].pending <=> run[c].at \in Write)

\* Only an archive under way or given up as unknown has a request in flight.
FlightOK(c) == \A w \in Write : <<c, w>> \in flight => state[c] \in {"executing", "unknown"}

\* No record of the target equals the one to move.
PlannedOK(c) == state[c] \notin {"new", "planning"} => \A i \in Id : plan[c].target[i] # Moved(c)

\* Two archives into one table do not run at once.
Apart == \A c, d \in Change : c # d /\ Running(c) /\ Running(d) => To[c] # To[d]

\* The copies of the others are still as the preview read them.
SeenOK(d) ==
    Running(d) /\ run[d].at \notin {"readSource", "readTarget"} /\ edits = 0 =>
        \A c \in Change \ {d} :
            To[c] = To[d] /\ state[c] # "unknown" => table[To[d]][c].val = plan[d].target[c]

CopyInv ==
    /\ \A c \in Change : PendingOK(c) /\ FlightOK(c) /\ PlannedOK(c) /\ SeenOK(c)
    /\ Apart /\ OneCopy

\* An archive whose copy is there, and whose end is known.
Left(c) ==
    /\ <<c, "writing_target">> \in sent /\ state[c] # "unknown"
    /\ table[To[c]][c].val = Moved(c)

\* OneCopy, said of archives that left a copy.
LEMMA OneCopyIsLeft ==
  OneCopy <=> \A c, d \in Change :
                  edits = 0 /\ Left(c) /\ Left(d) /\ To[c] = To[d] /\ Moved(c) = Moved(d) => c = d
  BY DEF OneCopy, Left

\* A request never writes the copy of another archive.
LEMMA RowKept ==
  ASSUME TypeOK, NEW c \in Change, NEW w \in Write, Arrive(c, w),
         NEW d \in Change \ {c}, NEW t \in Table
  PROVE  table'[t][d] = table[t][d]
  <1>1. /\ table \in [Table -> [Id -> Record]] /\ c \in Id /\ d \in Id /\ Moves[c] \in Id
        /\ Moves[c] # d
    BY DEF TypeOK, Id
  <1>2. CASE w = "creating_target"
    BY <1>1, <1>2 DEF Arrive
  <1>3. CASE w = "writing_target"
    BY <1>1, <1>3 DEF Arrive
  <1>4. CASE w = "removing_source"
    BY <1>1, <1>4 DEF Arrive
  <1> QED
    BY <1>2, <1>3, <1>4 DEF Write

\* The steps of an archive are taken while it runs, and it alone changes.
LEMMA ShapeRuns ==
  ASSUME IInv, NEW c \in Change, Shape(c)
  PROVE  /\ Running(c) /\ state[c] = "executing"
         /\ edits' = edits
         /\ \A d \in Change : /\ Running(d)' => Running(d)
                              /\ plan'[d] = plan[d] /\ table' = table
                              /\ d # c => state'[d] = state[d] /\ run'[d] = run[d]
  <1>1. TypeOK /\ StepOK(c)
    BY DEF IInv
  <1>2. Running(c)
    <2>1. ASSUME NEW e \in Looks \cup Sends \cup Returns \cup Marks, run[c].at = e[1]
          PROVE  Running(c)
      BY <2>1, LooksFacts, SendsFacts, ReturnsFacts, MarksFacts DEF Running, Outside
    <2> QED
      BY <2>1 DEF Shape, Advance, Halt, Request, Return, Mark
  <1>3. edits' = edits
    BY DEF Shape, Advance, Halt, Request, Return, Mark, remote
  <1> QED
    BY <1>1, <1>2, <1>3, ShapeOthers DEF StepOK, Untouched, Running

\* What one step of an archive does to its flight and to what it awaits.
LEMMA ShapePending ==
  ASSUME IInv, CopyInv, NEW c \in Change, Shape(c)
  PROVE  \A d \in Change : PendingOK(d)' /\ FlightOK(d)'
  <1>1. /\ TypeOK /\ StepOK(c) /\ RequestOK(c) /\ PendingOK(c) /\ FlightOK(c)
        /\ Running(c) /\ state[c] = "executing"
    BY ShapeRuns DEF IInv, CopyInv
  <1>2. ASSUME NEW e \in Looks, Advance(c, e) PROVE PendingOK(c)' /\ FlightOK(c)'
    BY <1>1, <1>2, AdvanceSees, LooksFacts DEF Advance, PendingOK, FlightOK, Running
  <1>3. ASSUME NEW e \in Sends, Request(c, e) PROVE PendingOK(c)' /\ FlightOK(c)'
    BY <1>1, <1>3, RequestSees, SendsFacts DEF Request, PendingOK, FlightOK, Running
  <1>4. ASSUME NEW e \in Returns, Return(c, e) PROVE PendingOK(c)' /\ FlightOK(c)'
    BY <1>1, <1>4, ReturnSees, ReturnsFacts DEF Return, PendingOK, FlightOK, Running
  <1>5. ASSUME NEW e \in Marks, Mark(c, e) PROVE PendingOK(c)' /\ FlightOK(c)'
    <2>1. /\ run[c].at = e[1] /\ e[1] \notin Write /\ flight' = flight
          /\ run'[c].at \notin Write /\ run'[c].pending = run[c].pending
      <3>1. e[1] \in {"bodyCopy", "bodyCopy3"} /\ run[c].at = e[1] /\ flight' = flight
        BY <1>1, <1>5, MarkSees, MarksFacts DEF Mark
      <3>2. /\ run'[c].at = IF e[1] = "bodyCopy" THEN "readCopy2" ELSE "over"
            /\ run'[c].pending = run[c].pending
        BY <1>1, <1>5, MarkSees
      <3> QED
        BY <3>1, <3>2 DEF Write
    <2> QED
      BY <1>1, <2>1 DEF PendingOK, FlightOK, RequestOK
  <1>6. ASSUME NEW p \in Phase, Halt(c, p) PROVE PendingOK(c)' /\ FlightOK(c)'
    <2>1. ~Running(c)' /\ flight' = flight
      BY <1>1, <1>6, HaltSees DEF Running
    <2>2. ASSUME NEW w \in Write, <<c, w>> \in flight
          PROVE  state'[c] = "unknown"
      <3>1. run[c].at = w /\ run[c].pending /\ run[c].at \notin Early
        BY <1>1, <2>2 DEF RequestOK, PendingOK, Write, Early
      <3> QED
        BY <1>1, <1>6, <3>1, HaltSees DEF StepOK
    <2> QED
      BY <2>1, <2>2 DEF PendingOK, FlightOK
  <1>7. PendingOK(c)' /\ FlightOK(c)'
    BY <1>2, <1>3, <1>4, <1>5, <1>6 DEF Shape
  <1>8. ASSUME NEW d \in Change \ {c} PROVE PendingOK(d)' /\ FlightOK(d)'
    BY <1>1, ShapeOthers DEF CopyInv, Untouched, PendingOK, FlightOK, Running
  <1> QED
    BY <1>7, <1>8

\* After the look at the target, and until the end, it is as it was previewed.
LEMMA ShapeSeen ==
  ASSUME IInv, CopyInv, NEW c \in Change, Execute(c)
  PROVE  \A d \in Change : SeenOK(d)'
  <1> SUFFICES ASSUME NEW d \in Change, Running(d)', edits' = 0,
                      run'[d].at \notin {"readSource", "readTarget"},
                      NEW e \in Change \ {d}, To[e] = To[d], state'[e] # "unknown"
               PROVE  table'[To[d]][e].val = plan'[d].target[e]
    BY DEF SeenOK
  <1>1. TypeOK /\ Shape(c) /\ SeenOK(d) /\ Apart
    BY Shapes DEF IInv, CopyInv
  <1>2. /\ Running(c) /\ Running(d) /\ edits = 0
        /\ UNCHANGED <<plan, table>>
    BY <1>1, ShapeRuns, ShapeOthers
  <1>3. e # c /\ state[e] # "unknown"
    BY <1>1, <1>2, ShapeRuns DEF Apart
  <1>4. CASE run[d].at \notin {"readSource", "readTarget"}
    BY <1>1, <1>2, <1>3, <1>4 DEF SeenOK
  <1>5. CASE run[d].at \in {"readSource", "readTarget"}
    <2>1. c = d /\ run'[d].at # "over"
      BY <1>1, <1>5, ShapeRuns DEF Running
    <2>2. ReadTarget(c)
      BY <1>1, <1>5, <2>1 DEF Execute, Look, Send, Answered, LookAndMark, Goto, Stop, TypeOK,
         ReadSource, ReadTarget, ReadBody, Create, Created, ReadCreated, Populate,
         Populated, ReadCopy, BodyCopy, ReadCopy2, BodyCopy2, ReadSource2, BodySource2,
         RemoveRecord,
         Removed, ReadSource3, ReadTarget3, BodyCopy3
    <2>3. Same(To[d], plan[d].target, {})
      BY <1>1, <2>1, <2>2 DEF ReadTarget, Look, Stop, TypeOK
    <2> QED
      BY <1>2, <2>3 DEF Same, Id
  <1> QED
    BY <1>4, <1>5

\* A running archive has seen a target without an equal record in it.
LEMMA SeesNoEqual ==
  ASSUME IInv, CopyInv, NEW c \in Change, NEW d \in Change, c # d, edits = 0,
         Running(c), run[c].at \notin {"readSource", "readTarget"}, Left(d),
         To[c] = To[d]
  PROVE  Moved(c) # Moved(d)
  <1>1. state[c] = "executing" /\ d \in Id
    BY DEF IInv, StepOK, Id
  <1>2. plan[c].target[d] # Moved(c)
    BY <1>1 DEF CopyInv, PlannedOK
  <1>3. table[To[c]][d].val = plan[c].target[d]
    BY DEF CopyInv, SeenOK, Left
  <1> QED
    BY <1>2, <1>3 DEF Left

\* While nobody edits, only an archive beyond that look comes to leave a copy.
LEMMA LeftKept ==
  ASSUME IInv, CopyInv, [Next]_vars, edits' = 0, NEW c \in Change, Left(c)'
  PROVE  /\ edits = 0 /\ Moved(c)' = Moved(c)
         /\ Left(c) \/ (Running(c) /\ run[c].at \notin {"readSource", "readTarget"})
  <1>1. /\ TypeOK /\ StepOK(c) /\ RequestOK(c) /\ FlightOK(c)
    BY DEF IInv, CopyInv
  <1>2. CASE UNCHANGED vars
    BY <1>2 DEF vars, Left, Moved
  <1>3. ASSUME NEW d \in Change, PreviewSource(d) \/ PreviewTarget(d) \/ Confirm(d)
        PROVE  edits = 0 /\ Moved(c)' = Moved(c) /\ Left(c)
    <2>1. /\ UNCHANGED <<edits, table, sent>>
          /\ state[d] \in {"new", "planning", "previewed"}
          /\ d # c => state'[c] = state[c] /\ plan'[c] = plan[c]
      BY <1>1, <1>3 DEF PreviewSource, PreviewTarget, Confirm, remote, TypeOK
    <2>2. <<d, "writing_target">> \notin sent
      BY <2>1 DEF IInv, StepOK, RequestOK, Write
    <2> QED
      BY <2>1, <2>2 DEF Left, Moved
  <1>4. ASSUME NEW d \in Change, Execute(d)
        PROVE  /\ edits = 0 /\ Moved(c)' = Moved(c)
               /\ Left(c) \/ (Running(c) /\ run[c].at \notin {"readSource", "readTarget"})
    <2>1. Shape(d) /\ edits' = edits /\ UNCHANGED <<table, plan>>
      BY <1>1, <1>4, Shapes, ShapeRuns, ShapeOthers
    <2>2. CASE d # c
      BY <1>1, <2>1, <2>2, ShapeOthers DEF Untouched, Left, Moved, Write
    <2>3. CASE d = c
      <3>1. Running(c)
        BY <2>1, <2>3, ShapeRuns
      <3>2. CASE run[c].at \in {"readSource", "readTarget"}
        <4>1. \A e \in Sends : ~Request(c, e)
          BY <3>2 DEF Request, Sends
        <4>2. sent' = sent
          BY <2>1, <2>3, <4>1 DEF Shape, Advance, Halt, Return, Mark
        <4> QED
          BY <1>1, <3>2, <4>2 DEF Left, RequestOK, Write, Early
      <3>3. edits = 0 /\ Moved(c)' = Moved(c)
        BY <2>1 DEF Moved
      <3> QED
        BY <3>1, <3>2, <3>3
    <2> QED
      BY <2>2, <2>3
  <1>5. ASSUME NEW d \in Change, NEW w \in Write, Arrive(d, w)
        PROVE  /\ edits = 0 /\ Moved(c)' = Moved(c)
               /\ Left(c) \/ (Running(c) /\ run[c].at \notin {"readSource", "readTarget"})
    <2>1. UNCHANGED <<edits, state, plan, run, sent>> /\ <<d, w>> \in flight
      BY <1>5 DEF Arrive
    <2>2. CASE d # c
      BY <1>1, <1>5, <2>1, <2>2, RowKept DEF Left, Moved
    <2>3. CASE d = c
      <3>1. Running(c) /\ run[c].at = w
        BY <1>1, <2>1, <2>3 DEF FlightOK, Left, StepOK, RequestOK
      <3> QED
        BY <2>1, <3>1 DEF Write, Moved
    <2> QED
      BY <2>2, <2>3
  <1>6. CASE Restart
    <2>1. state'[c] = state[c]
      BY <1>1, <1>6 DEF Restart, Left
    <2> QED
      BY <1>6, <2>1 DEF Restart, Left, Moved, remote
  <1>7. ASSUME NEW t \in Table, NEW i \in Id, NEW rec \in Record, Edit(t, i, rec)
        PROVE  FALSE
    BY <1>1, <1>7 DEF Edit, TypeOK
  <1> QED
    BY <1>2, <1>3, <1>4, <1>5, <1>6, <1>7 DEF Next

\* No step brings a second copy.
LEMMA OneCopyStep == ASSUME IInv, CopyInv, [Next]_vars PROVE OneCopy'
  <1> SUFFICES ASSUME NEW c \in Change, NEW d \in Change, edits' = 0, Left(c)', Left(d)',
                      To[c] = To[d], Moved(c)' = Moved(d)', c # d
               PROVE  FALSE
    BY DEF OneCopy, Left
  <1>1. /\ edits = 0 /\ Moved(c) = Moved(d)
        /\ Left(c) \/ (Running(c) /\ run[c].at \notin {"readSource", "readTarget"})
        /\ Left(d) \/ (Running(d) /\ run[d].at \notin {"readSource", "readTarget"})
    BY LeftKept
  <1>2. ~(Left(c) /\ Left(d))
    BY <1>1, OneCopyIsLeft DEF CopyInv
  <1>3. ~(Running(c) /\ Running(d))
    BY DEF CopyInv, Apart
  <1> QED
    BY <1>1, <1>2, <1>3, SeesNoEqual

\* The rest of the invariant, for the steps outside executeTableArchive.
LEMMA OthersCopy ==
  ASSUME IInv, CopyInv, [Next]_vars, ~\E c \in Change : Execute(c)
  PROVE  /\ \A d \in Change : PendingOK(d)' /\ FlightOK(d)' /\ PlannedOK(d)' /\ SeenOK(d)'
         /\ Apart'
  <1> SUFFICES ASSUME NEW d \in Change
               PROVE  PendingOK(d)' /\ FlightOK(d)' /\ PlannedOK(d)' /\ SeenOK(d)' /\ Apart'
    BY DEF Apart
  <1>1. /\ TypeOK /\ StepOK(d) /\ RequestOK(d)
        /\ PendingOK(d) /\ FlightOK(d) /\ PlannedOK(d) /\ SeenOK(d) /\ Apart
    BY DEF IInv, CopyInv
  <1>2. CASE UNCHANGED vars
    BY <1>1, <1>2 DEF vars, PendingOK, FlightOK, PlannedOK, SeenOK, Apart, Running, Moved
  <1>3. ASSUME NEW c \in Change, PreviewSource(c)
        PROVE  PendingOK(d)' /\ FlightOK(d)' /\ PlannedOK(d)' /\ SeenOK(d)' /\ Apart'
    <2>1. /\ UNCHANGED <<table, edits, run, flight, sent>>
          /\ state[c] = "new" /\ state'[c] = "planning" /\ run[c].at = "idle"
          /\ \A e \in Change \ {c} : state'[e] = state[e] /\ plan'[e] = plan[e]
      BY <1>1, <1>3 DEF PreviewSource, remote, TypeOK, IInv, StepOK
    <2>2. PendingOK(d)' /\ Apart'
      BY <1>1, <2>1 DEF PendingOK, Apart, Running
    <2>3. FlightOK(d)' /\ PlannedOK(d)' /\ SeenOK(d)'
      <3>1. CASE d = c
        BY <1>1, <2>1, <3>1 DEF FlightOK, PlannedOK, SeenOK, Running
      <3>2. CASE d # c
        BY <1>1, <2>1, <3>2 DEF FlightOK, PlannedOK, SeenOK, Running, Moved
      <3> QED
        BY <3>1, <3>2
    <2> QED
      BY <2>2, <2>3
  <1>4. ASSUME NEW c \in Change, PreviewTarget(c)
        PROVE  PendingOK(d)' /\ FlightOK(d)' /\ PlannedOK(d)' /\ SeenOK(d)' /\ Apart'
    <2>1. /\ UNCHANGED <<table, edits, run, flight, sent>>
          /\ state[c] = "planning" /\ state'[c] \in {"new", "previewed"} /\ run[c].at = "idle"
          /\ \A e \in Change \ {c} : state'[e] = state[e] /\ plan'[e] = plan[e]
      BY <1>1, <1>4 DEF PreviewTarget, remote, TypeOK, IInv, StepOK
    <2>2. PendingOK(d)' /\ Apart'
      BY <1>1, <2>1 DEF PendingOK, Apart, Running
    <2>3. state'[c] = "previewed" => /\ ~Archived(c) /\ plan'[c].source = plan[c].source
                                     /\ plan'[c].target = Values(To[c])
      BY <1>1, <1>4 DEF PreviewTarget, TypeOK
    <2>4. FlightOK(d)' /\ PlannedOK(d)' /\ SeenOK(d)'
      <3>1. CASE d = c
        <4>1. PlannedOK(c)'
          BY <2>1, <2>3 DEF PlannedOK, Archived, Values, Moved
        <4> QED
          BY <1>1, <2>1, <3>1, <4>1 DEF FlightOK, SeenOK, Running
      <3>2. CASE d # c
        BY <1>1, <2>1, <3>2 DEF FlightOK, PlannedOK, SeenOK, Running, Moved
      <3> QED
        BY <3>1, <3>2
    <2> QED
      BY <2>2, <2>4
  <1>5. ASSUME NEW c \in Change, Confirm(c)
        PROVE  PendingOK(d)' /\ FlightOK(d)' /\ PlannedOK(d)' /\ SeenOK(d)' /\ Apart'
    <2>1. /\ UNCHANGED <<table, edits, plan, flight>>
          /\ state[c] = "previewed" /\ state'[c] = "executing"
          /\ run'[c].at = "readSource" /\ ~run'[c].pending
          /\ \A e \in Change \ {c} : state'[e] = state[e] /\ run'[e] = run[e]
      BY <1>1, <1>5 DEF Confirm, remote, TypeOK, Idle
    <2>2. PendingOK(d)' /\ FlightOK(d)' /\ PlannedOK(d)' /\ SeenOK(d)'
      BY <1>1, <2>1 DEF PendingOK, FlightOK, PlannedOK, SeenOK, Running, Moved, Write
    <2>3. \A e \in Change : Running(e) => To[e] # To[c]
      BY <1>5 DEF Confirm
    <2>4. Apart'
      BY <1>1, <2>1, <2>3 DEF Apart, Running
    <2> QED
      BY <2>2, <2>4
  <1>6. ASSUME NEW c \in Change, NEW w \in Write, Arrive(c, w)
        PROVE  PendingOK(d)' /\ FlightOK(d)' /\ PlannedOK(d)' /\ SeenOK(d)' /\ Apart'
    <2>1. UNCHANGED <<edits, state, plan, run>> /\ flight' \subseteq flight /\ <<c, w>> \in flight
      BY <1>6 DEF Arrive
    <2>2. PendingOK(d)' /\ FlightOK(d)' /\ PlannedOK(d)' /\ Apart'
      BY <1>1, <2>1 DEF PendingOK, FlightOK, PlannedOK, Apart, Running, Moved
    <2>3. ASSUME Running(d), NEW e \in Change \ {d}, To[e] = To[d], state[e] # "unknown"
          PROVE  table'[To[d]][e] = table[To[d]][e]
      <3>1. c # e
        BY <2>1, <2>3 DEF IInv, CopyInv, FlightOK, StepOK, Apart
      <3> QED
        BY <1>1, <1>6, <3>1, RowKept
    <2>4. SeenOK(d)'
      BY <1>1, <2>1, <2>3 DEF SeenOK, Running
    <2> QED
      BY <2>2, <2>4
  <1>7. CASE Restart
    <2>1. /\ \A e \in Change : ~Running(e)'
          /\ UNCHANGED <<plan, flight>>
          /\ state'[d] = IF state[d] = "executing" THEN "unknown" ELSE state[d]
      BY <1>1, <1>7 DEF Restart, Running, Idle
    <2> QED
      BY <1>1, <2>1 DEF PendingOK, FlightOK, PlannedOK, SeenOK, Apart, Moved
  <1>8. ASSUME NEW t \in Table, NEW i \in Id, NEW rec \in Record, Edit(t, i, rec)
        PROVE  PendingOK(d)' /\ FlightOK(d)' /\ PlannedOK(d)' /\ SeenOK(d)' /\ Apart'
    <2>1. UNCHANGED <<state, plan, run, flight>> /\ edits' # 0
      BY <1>1, <1>8 DEF Edit, TypeOK
    <2> QED
      BY <1>1, <2>1 DEF PendingOK, FlightOK, PlannedOK, SeenOK, Apart, Running, Moved
  <1> QED
    BY <1>2, <1>3, <1>4, <1>5, <1>6, <1>7, <1>8 DEF Next

LEMMA CopyNext == IInv /\ CopyInv /\ [Next]_vars => CopyInv'
  <1> SUFFICES ASSUME IInv, CopyInv, [Next]_vars PROVE CopyInv'
    OBVIOUS
  <1>1. ASSUME NEW c \in Change, Execute(c)
        PROVE  /\ \A d \in Change : PendingOK(d)' /\ FlightOK(d)' /\ PlannedOK(d)' /\ SeenOK(d)'
               /\ Apart'
    <2>1. Shape(c)
      BY <1>1, Shapes DEF IInv
    <2>2. \A d \in Change : PendingOK(d)' /\ FlightOK(d)' /\ SeenOK(d)'
      BY <1>1, <2>1, ShapePending, ShapeSeen
    <2>3. Apart'
      BY <2>1, ShapeRuns DEF CopyInv, Apart
    <2>4. ASSUME NEW d \in Change PROVE PlannedOK(d)'
      BY <2>1, ShapeRuns DEF CopyInv, PlannedOK, Moved
    <2> QED
      BY <2>2, <2>3, <2>4
  <1> QED
    BY <1>1, OthersCopy, OneCopyStep DEF CopyInv

\* While nobody edits, two archives of one value never both leave a copy in a
\* table unless one ended as unknown, for any number of archives and restarts.
THEOREM OneCopyHolds == Spec => []OneCopy
  <1>1. Init => CopyInv
    BY DEF Init, Idle, CopyInv, PendingOK, FlightOK, PlannedOK, SeenOK, Apart, OneCopy, Running
  <1>2. CopyInv => OneCopy
    BY DEF CopyInv
  <1> QED
    BY <1>1, <1>2, CopyNext, Invariance, PTL DEF Spec

-----------------------------------------------------------------------------
(* The reading of a Table: it has nothing to do with the archives.         *)

HIDE DEF PlanAssumption, IdAssumption, EditAssumption

(* Numbers and finite sets.                                                *)

\* A set of numbers that is not empty has a least one.
LEMMA Least ==
  ASSUME NEW N, N \subseteq Nat, N # {}
  PROVE  \E n \in N : \A m \in N : n <= m
<1> DEFINE U == {1 .. n : n \in N}
<1>1. U \subseteq FiniteSubsetsOf(Nat) /\ U # {}
  <2>1. U \subseteq FiniteSubsetsOf(Nat)
    BY FS_Interval DEF FiniteSubsetsOf
  <2>2. U # {}
    OBVIOUS
  <2> QED BY <2>1, <2>2
<1>2. PICK x \in U : \A y \in U : ~(<<y, x>> \in StrictSubsetOrdering(Nat))
  <2>1. IsWellFoundedOn(StrictSubsetOrdering(Nat), FiniteSubsetsOf(Nat))
    BY FS_StrictSubsetOrderingWellFounded
  <2> HIDE DEF U
  <2> QED BY <1>1, <2>1, WFMin
<1>3. PICK n \in N : x = 1 .. n
  OBVIOUS
<1>4. SUFFICES ASSUME NEW m \in N, m < n PROVE FALSE
  BY <1>3
<1>5. /\ 1 .. m \in SUBSET Nat /\ 1 .. n \in SUBSET Nat
      /\ 1 .. m \subseteq 1 .. n /\ n \in 1 .. n /\ n \notin 1 .. m
  BY <1>4
<1>6. <<1 .. m, 1 .. n>> \in StrictSubsetOrdering(Nat)
  BY <1>5 DEF StrictSubsetOrdering
<1> QED BY <1>2, <1>3, <1>6

\* The smaller one of two numbers.
LEMMA MinOfTwo ==
  ASSUME NEW a \in Int, NEW b \in Int
  PROVE  Min({a, b}) = IF a <= b THEN a ELSE b
<1> DEFINE small == IF a <= b THEN a ELSE b
<1>1. \A x \in {a, b} : (\A y \in {a, b} : x <= y) <=> x = small
  OBVIOUS
<1>2. small \in {a, b}
  OBVIOUS
<1> HIDE DEF small
<1>3. Min({a, b}) = small
  BY <1>1, <1>2 DEF Min
<1> QED BY <1>3 DEF small

\* The larger one of two numbers.
LEMMA MaxOfTwo ==
  ASSUME NEW a \in Int, NEW b \in Int
  PROVE  Max({a, b}) = IF a >= b THEN a ELSE b
<1> DEFINE large == IF a >= b THEN a ELSE b
<1>1. \A x \in {a, b} : (\A y \in {a, b} : x >= y) <=> x = large
  OBVIOUS
<1>2. large \in {a, b}
  OBVIOUS
<1> HIDE DEF large
<1>3. Max({a, b}) = large
  BY <1>1, <1>2 DEF Max
<1> QED BY <1>3 DEF large

\* The elements of a sequence are finitely many.
LEMMA RangeFinite ==
  ASSUME NEW R, NEW s \in Seq(R)
  PROVE  IsFiniteSet(Range(s)) /\ Range(s) \subseteq R
<1>1. s \in [1 .. Len(s) -> R] /\ Len(s) \in Nat
  OBVIOUS
<1>2. s \in Surjection(1 .. Len(s), Range(s)) /\ Range(s) \subseteq R
  BY <1>1, Fun_RangeProperties
<1>3. IsFiniteSet(1 .. Len(s))
  BY <1>1, FS_Interval
<1> QED BY <1>2, <1>3, FS_Surjection

-----------------------------------------------------------------------------
(* What a filter means.                                                    *)

\* A clear key means one column.
LEMMA OneColumn ==
  ASSUME NEW columns, columns \in Seq(Range(columns)), NEW key, Clear(columns, key)
  PROVE  /\ Meant(columns, key) \in Range(columns)
         /\ ResolveColumn(columns, key) = {Meant(columns, key)}
<1>1. IsFiniteSet(Range(columns))
  BY RangeFinite
<1>2. ResolveColumn(columns, key) \in SUBSET Range(columns)
  BY DEF ResolveColumn
<1>3. PICK c : ResolveColumn(columns, key) = {c}
  BY <1>1, <1>2, FS_Subset, FS_Singleton DEF Clear
<1> QED BY <1>2, <1>3 DEF Meant

\* The columns a key may mean are those the reference looks for.
LEMMA Resolved ==
  ASSUME NEW columns, NEW key, NEW c \in Range(columns)
  PROVE  c \in ResolveColumn(columns, key)
           <=> c.id = key \/ (c.name = key /\ \A d \in Range(columns) : d.id # key)
  BY DEF ResolveColumn

\* A cell matches a wanted value exactly when it shows it.
LEMMA CellShows ==
  ASSUME NEW c, NEW value, IsValue(value),
         c.type = "progress" => value[1] \in {"null", "number"},
         NEW wanted,
         \/ wanted = Nothing
         \/ /\ wanted[1] \in {"id", "label", "number", "percent"}
            /\ wanted = <<wanted[1], wanted[2]>>
  PROVE  CellMatches(c, value, wanted) <=> Shows(c, value, wanted)
<1> USE DEF Nothing
<1> DEFINE Agree == CellMatches(c, value, wanted) <=> Shows(c, value, wanted)
<1>1. CASE wanted = Nothing
  <2>1. CASE value = Nothing
    BY <1>1, <2>1 DEF CellMatches, Shows, PartsOf
  <2>2. ASSUME NEW k \in {"option", "number", "label"}, NEW x, value = <<k, x>> PROVE Agree
    BY <1>1, <2>2 DEF CellMatches, Shows, PartsOf
  <2>3. ASSUME NEW x, value = <<"list", x>>, x \in Seq(Range(x)) PROVE Agree
    <3>1. x = <<>> <=> Range(x) = {}
      BY <2>3 DEF Range
    <3>2. value # Nothing /\ (value = <<"list", <<>>>> <=> x = <<>>)
      BY <2>3
    <3>3. CellMatches(c, value, wanted) <=> x = <<>>
      BY <1>1, <3>2 DEF CellMatches
    <3>4. Shows(c, value, wanted) <=> Range(x) = {}
      BY <1>1, <2>3, <3>2 DEF Shows, PartsOf
    <3> QED BY <3>1, <3>3, <3>4
  <2> QED BY <2>1, <2>2, <2>3 DEF IsValue
<1>2. ASSUME NEW w \in {"id", "label", "number", "percent"}, NEW y, wanted = <<w, y>> PROVE Agree
  <2>0. wanted # Nothing /\ wanted[1] = w /\ wanted[2] = y
    BY <1>2
  <2>1. CASE value = Nothing
    <3>1. value # wanted
      BY <1>2, <2>1
    <3> QED BY <1>2, <2>0, <2>1, <3>1 DEF CellMatches, Shows, PartsOf, DisplayValue
  <2>2. ASSUME NEW k \in {"number", "label"}, NEW x, value = <<k, x>> PROVE Agree
    <3>0. value # Nothing /\ value[1] = k /\ value[2] = x /\ Len(value) = 2
      BY <2>2
    <3>1. CASE w = "id"
      BY <2>0, <3>0, <3>1 DEF CellMatches, Shows, PartsOf
    <3>2. CASE w # "id" /\ c.type = "progress"
      BY <1>2, <2>0, <2>2, <3>0, <3>2 DEF CellMatches, Shows, PartsOf
    <3>3. CASE w # "id" /\ c.type # "progress"
      BY <1>2, <2>0, <2>2, <3>0, <3>3 DEF CellMatches, Shows, PartsOf, DisplayValue
    <3> QED BY <3>1, <3>2, <3>3
  <2>3. ASSUME NEW x, value = <<"option", x>> PROVE Agree
    <3>0. value # Nothing /\ value[1] = "option" /\ value[2] = x /\ Len(value) = 2
          /\ c.type # "progress"
      BY <2>3
    <3>1. CASE w = "id"
      BY <2>0, <3>0, <3>1 DEF CellMatches, Shows, PartsOf
    <3>2. CASE w # "id"
      <4>1. CellMatches(c, value, wanted) <=> <<"label", Option(c, x)>> = wanted
        BY <1>2, <2>0, <3>0, <3>2 DEF CellMatches, DisplayValue
      <4>2. Shows(c, value, wanted) <=> w = "label" /\ y = Option(c, x)
        BY <1>2, <2>0, <2>3, <3>0, <3>2 DEF Shows, PartsOf
      <4> QED BY <1>2, <4>1, <4>2
    <3> QED BY <3>1, <3>2
  <2>4. ASSUME NEW x, value = <<"list", x>>, x \in Seq(Range(x)) PROVE Agree
    <3>0. value # Nothing /\ value[1] = "list" /\ value[2] = x /\ c.type # "progress"
      BY <2>4
    <3>1. CASE w = "id"
      BY <2>0, <3>0, <3>1 DEF CellMatches, Shows, PartsOf
    <3>2. CASE w # "id"
      <4>1. CellMatches(c, value, wanted)
              <=> w = "label" /\ y \in Range([i \in DOMAIN x |-> Option(c, x[i])])
        BY <1>2, <2>0, <3>0, <3>2 DEF CellMatches, DisplayValue
      <4>2. Shows(c, value, wanted) <=> w = "label" /\ y \in {Option(c, o) : o \in Range(x)}
        BY <1>2, <2>0, <2>4, <3>0, <3>2 DEF Shows, PartsOf
      <4>3. Range([i \in DOMAIN x |-> Option(c, x[i])]) = {Option(c, o) : o \in Range(x)}
        BY DEF Range
      <4> QED BY <4>1, <4>2, <4>3
    <3> QED BY <3>1, <3>2
  <2> QED BY <2>1, <2>2, <2>3, <2>4 DEF IsValue
<1> QED BY <1>1, <1>2

\* The columns of a request are those of a sheet.
LEMMA ColumnsAre ==
  ASSUME WellFormed, ValidSchema, ValidRequest(ask)
  PROVE  /\ ColumnsAsked(ask) \in Seq(Range(ColumnsAsked(ask)))
         /\ \E sheet \in Range(Sheets) : ColumnsAsked(ask) = sheet.columns
<1>1. Sheets \in Seq(Range(Sheets)) /\ Sheets # <<>>
  BY DEF WellFormed, ValidSchema
<1>2. Sheets[1] \in Range(Sheets)
  BY <1>1 DEF Range
<1>3. SheetAsked(ask) \subseteq Range(Sheets) /\ SheetAsked(ask) # {}
  BY <1>2 DEF SheetAsked, ValidRequest
<1>4. PICK sheet \in Range(Sheets) : ColumnsAsked(ask) = sheet.columns
  BY <1>3 DEF ColumnsAsked
<1> QED BY <1>4 DEF WellFormed

\* A record is selected exactly when the client wants it.
LEMMA Matching ==
  ASSUME WellFormed, ask \in Asked, ValidSchema, ValidRequest(ask),
         NEW row, IsRow(row)
  PROVE  RowMatches(ask, row) <=> Wanted(row)
<1> DEFINE C == ColumnsAsked(ask)
<1>1. C \in Seq(Range(C)) /\ \E sheet \in Range(Sheets) : C = sheet.columns
  BY ColumnsAre
<1>2. IsRequest(ask)
  BY DEF WellFormed
<1>3. ValidFilter(C, ask.filter)
  BY DEF ValidRequest
<1> HIDE DEF C
<1>4. ASSUME NEW key \in DOMAIN ask.filter
      PROVE  LET column == Meant(C, key)
             IN  CellMatches(column, row.cells[column.id], ask.filter[key])
                 <=> \E c \in Range(C) :
                       /\ \/ c.id = key
                          \/ c.name = key /\ \A other \in Range(C) : other.id # key
                       /\ Shows(c, row.cells[c.id], ask.filter[key])
  <2> DEFINE m == Meant(C, key)
  <2>1. Clear(C, key)
    BY <1>3 DEF ValidFilter
  <2>2. m \in Range(C) /\ ResolveColumn(C, key) = {m}
    BY <1>1, <2>1, OneColumn
  <2> HIDE DEF m
  <2>3. \A c \in Range(C) :
          (c.id = key \/ (c.name = key /\ \A other \in Range(C) : other.id # key)) <=> c = m
    <3>1. TAKE c \in Range(C)
    <3>2. c \in ResolveColumn(C, key)
             <=> c.id = key \/ (c.name = key /\ \A d \in Range(C) : d.id # key)
      BY Resolved
    <3> QED BY <2>2, <3>2
  <2>4. /\ IsValue(row.cells[m.id])
        /\ m.type = "progress" => row.cells[m.id][1] \in {"null", "number"}
    BY <1>1, <2>2 DEF IsRow
  <2>5. \/ ask.filter[key] = Nothing
        \/ /\ ask.filter[key][1] \in {"id", "label", "number", "percent"}
           /\ ask.filter[key] = <<ask.filter[key][1], ask.filter[key][2]>>
    BY <1>2 DEF IsRequest
  <2>6. CellMatches(m, row.cells[m.id], ask.filter[key])
          <=> Shows(m, row.cells[m.id], ask.filter[key])
    BY <2>4, <2>5, CellShows
  <2> QED BY <2>2, <2>3, <2>6 DEF m
<1> QED BY <1>4 DEF RowMatches, Wanted, C

-----------------------------------------------------------------------------
(* What is selected.                                                       *)

\* The recursion of Selected: what is chosen of the first k records.
Chosen(records, good, k, f) ==
  f = [n \in 0 .. k |->
         IF n = 0 THEN <<>>
         ELSE IF records[n] \in good THEN Append(f[n - 1], records[n]) ELSE f[n - 1]]

\* It is defined.
LEMMA ChosenExists ==
  ASSUME NEW R, NEW records \in Seq(R), NEW good, NEW k \in 0 .. Len(records)
  PROVE  \E f : Chosen(records, good, k, f)
<1> DEFINE T == {e \in 0 .. Len(records) : ~\E f : Chosen(records, good, e, f)}
<1>1. SUFFICES ASSUME T # {} PROVE FALSE
  OBVIOUS
<1>2. PICK e \in 0 .. Len(records) :
         /\ ~\E f : Chosen(records, good, e, f)
         /\ \A m \in 0 .. Len(records) : m < e => \E f : Chosen(records, good, m, f)
  <2>1. PICK e \in T : \A m \in T : e <= m
    <3>1. T \subseteq Nat
      OBVIOUS
    <3> HIDE DEF T
    <3> QED BY <1>1, <3>1, Least
  <2> QED BY <2>1
<1> HIDE DEF T
<1>3. e # 0
  <2> DEFINE g == [n \in 0 .. 0 |-> <<>>]
  <2>1. g = [n \in 0 .. 0 |->
               IF n = 0 THEN <<>>
               ELSE IF records[n] \in good THEN Append(g[n - 1], records[n]) ELSE g[n - 1]]
    <3>1. \A n \in 0 .. 0 : n = 0
      OBVIOUS
    <3>2. \A h : [n \in 0 .. 0 |->
               IF n = 0 THEN <<>>
               ELSE IF records[n] \in good THEN Append(h[n - 1], records[n]) ELSE h[n - 1]] = g
      BY <3>1
    <3> QED BY <3>2
  <2>2. Chosen(records, good, 0, g)
    BY <2>1 DEF Chosen
  <2> HIDE DEF g
  <2> QED BY <1>2, <2>2
<1>4. PICK c \in 0 .. Len(records) : e = c + 1
  <2>1. e - 1 \in 0 .. Len(records) /\ e = (e - 1) + 1
    BY <1>3
  <2> QED BY <2>1
<1>5. PICK f : Chosen(records, good, c, f)
  BY <1>2, <1>4
<1> DEFINE g == [n \in 0 .. e |->
                   IF n = 0 THEN <<>>
                   ELSE IF records[n] \in good THEN Append(f[n - 1], records[n]) ELSE f[n - 1]]
<1>6. \A n \in 0 .. c : g[n] = f[n]
  <2>1. \A n \in 0 .. c : n \in 0 .. e
    BY <1>4
  <2>2. \A n \in 0 .. c :
           f[n] = IF n = 0 THEN <<>>
                  ELSE IF records[n] \in good THEN Append(f[n - 1], records[n]) ELSE f[n - 1]
    BY <1>5 DEF Chosen
  <2> QED BY <2>1, <2>2
<1>7. \A n \in 0 .. e : n # 0 => g[n - 1] = f[n - 1]
  <2> HIDE DEF g
  <2>1. \A n \in 0 .. e : n # 0 => n - 1 \in 0 .. c
    BY <1>4
  <2> QED BY <1>6, <2>1
<1>8. Chosen(records, good, e, g)
  <2>1. g = [n \in 0 .. e |->
               IF n = 0 THEN <<>>
               ELSE IF records[n] \in good THEN Append(f[n - 1], records[n]) ELSE f[n - 1]]
    OBVIOUS
  <2> HIDE DEF g
  <2>2. g = [n \in 0 .. e |->
               IF n = 0 THEN <<>>
               ELSE IF records[n] \in good THEN Append(g[n - 1], records[n]) ELSE g[n - 1]]
    BY <1>7, <2>1
  <2> QED BY <2>2 DEF Chosen
<1> HIDE DEF g
<1> QED BY <1>2, <1>8

\* What is selected of a sequence is a sequence of its elements.
LEMMA SelectedIs ==
  ASSUME NEW R, NEW records \in Seq(R), NEW good
  PROVE  \E f : /\ Chosen(records, good, Len(records), f)
                /\ Selected(records, good) = f[Len(records)]
                /\ \A n \in 0 .. Len(records) : f[n] \in Seq(R) /\ Len(f[n]) <= n
<1>0. Len(records) \in Nat /\ Len(records) \in 0 .. Len(records)
  OBVIOUS
<1>1. \E f : Chosen(records, good, Len(records), f)
  BY <1>0, ChosenExists
<1> DEFINE f == CHOOSE f : Chosen(records, good, Len(records), f)
<1>2. Chosen(records, good, Len(records), f)
  BY <1>1
<1>3. Selected(records, good) = f[Len(records)]
  BY DEF Selected, Chosen
<1> HIDE DEF f
<1>4. \A n \in 0 .. Len(records) :
         f[n] = IF n = 0 THEN <<>>
                ELSE IF records[n] \in good THEN Append(f[n - 1], records[n]) ELSE f[n - 1]
  BY <1>2 DEF Chosen
<1> DEFINE T == {n \in 0 .. Len(records) : ~(f[n] \in Seq(R) /\ Len(f[n]) <= n)}
<1>5. T = {}
  <2>1. SUFFICES ASSUME T # {} PROVE FALSE
    OBVIOUS
  <2>2. PICK n \in T : \A m \in T : n <= m
    <3>1. T \subseteq Nat
      OBVIOUS
    <3> HIDE DEF T
    <3> QED BY <2>1, <3>1, Least
  <2>3. CASE n = 0
    <3>1. f[n] = <<>>
      BY <1>4, <2>2, <2>3
    <3>2. <<>> \in Seq(R) /\ Len(<<>>) = 0
      OBVIOUS
    <3> QED BY <2>2, <2>3, <3>1, <3>2
  <2>4. CASE n # 0
    <3>1. n \in 1 .. Len(records) /\ n - 1 \in 0 .. Len(records) /\ ~(n <= n - 1)
      BY <2>2, <2>4
    <3>2. f[n - 1] \in Seq(R) /\ Len(f[n - 1]) <= n - 1
      BY <2>2, <3>1
    <3>3. records[n] \in R
      BY <3>1
    <3>4. f[n] = Append(f[n - 1], records[n]) \/ f[n] = f[n - 1]
      BY <1>4, <3>1, <2>4
    <3>5. CASE f[n] = f[n - 1]
      <4> DEFINE u == f[n - 1]
      <4>1. u \in Seq(R) /\ Len(u) <= n - 1 /\ Len(u) \in Nat
        BY <3>2
      <4> HIDE DEF u
      <4>2. Len(u) <= n
        BY <4>1, <3>1
      <4> QED BY <2>2, <3>5, <4>1, <4>2 DEF u
    <3>6. CASE f[n] = Append(f[n - 1], records[n])
      <4> DEFINE u == f[n - 1]
      <4>1. u \in Seq(R) /\ Len(u) <= n - 1 /\ Len(u) \in Nat
        BY <3>2
      <4> HIDE DEF u
      <4>2. Append(u, records[n]) \in Seq(R) /\ Len(Append(u, records[n])) = Len(u) + 1
        BY <4>1, <3>3
      <4>3. Len(u) + 1 <= n
        BY <4>1, <3>1
      <4> QED BY <2>2, <3>6, <4>2, <4>3 DEF u
    <3> QED BY <3>4, <3>5, <3>6
  <2> QED BY <2>3, <2>4
<1> QED BY <1>2, <1>3, <1>5

\* What is selected of it.
LEMMA SelectedSeq ==
  ASSUME NEW R, NEW records \in Seq(R), NEW good
  PROVE  Selected(records, good) \in Seq(R) /\ Len(Selected(records, good)) <= Len(records)
<1>1. Len(records) \in 0 .. Len(records)
  OBVIOUS
<1> QED BY <1>1, SelectedIs

\* When all are good, all are selected.
LEMMA SelectedAll ==
  ASSUME NEW R, NEW records \in Seq(R), NEW good, R \subseteq good
  PROVE  Selected(records, good) = records
<1>1. PICK f : /\ Chosen(records, good, Len(records), f)
               /\ Selected(records, good) = f[Len(records)]
  BY SelectedIs
<1>2. \A n \in 0 .. Len(records) :
         f[n] = IF n = 0 THEN <<>>
                ELSE IF records[n] \in good THEN Append(f[n - 1], records[n]) ELSE f[n - 1]
  BY <1>1 DEF Chosen
<1> DEFINE T == {n \in 0 .. Len(records) : f[n] # SubSeq(records, 1, n)}
<1>3. T = {}
  <2>1. SUFFICES ASSUME T # {} PROVE FALSE
    OBVIOUS
  <2>2. PICK n \in T : \A m \in T : n <= m
    <3>1. T \subseteq Nat
      OBVIOUS
    <3> HIDE DEF T
    <3> QED BY <2>1, <3>1, Least
  <2>3. CASE n = 0
    <3>1. SubSeq(records, 1, 0) = <<>>
      OBVIOUS
    <3> QED BY <1>2, <2>2, <2>3, <3>1
  <2>4. CASE n # 0
    <3>1. n \in 1 .. Len(records) /\ n - 1 \in 0 .. Len(records) /\ ~(n <= n - 1)
      BY <2>2, <2>4
    <3>2. f[n - 1] = SubSeq(records, 1, n - 1)
      BY <2>2, <3>1
    <3>3. records[n] \in good
      BY <3>1
    <3>4. f[n] = Append(SubSeq(records, 1, n - 1), records[n])
      BY <1>2, <3>1, <2>4, <3>2, <3>3
    <3>5. Append(SubSeq(records, 1, n - 1), records[n]) = SubSeq(records, 1, n)
      BY <3>1
    <3> QED BY <2>2, <3>4, <3>5
  <2> QED BY <2>3, <2>4
<1>4. Len(records) \in 0 .. Len(records) /\ SubSeq(records, 1, Len(records)) = records
  OBVIOUS
<1> QED BY <1>1, <1>3, <1>4

-----------------------------------------------------------------------------
(* How much an answer keeps.                                               *)

Half(n) == Max({1, n \div 2})

\* A half is shorter.
LEMMA Halved ==
  ASSUME NEW n \in Nat, n > 1
  PROVE  Half(n) \in 1 .. n - 1
<1>1. n \div 2 \in Nat /\ n \div 2 < n
  OBVIOUS
<1>2. Half(n) = IF 1 >= n \div 2 THEN 1 ELSE n \div 2
  BY <1>1, MaxOfTwo DEF Half
<1> QED BY <1>1, <1>2

\* The recursion of Kept, over the lengths up to k.
Fit(req, records, k, f) ==
  f = [n \in 0 .. k |->
         IF Length(req, records, n) > MaxOutput /\ n > 1 THEN f[Half(n)] ELSE n]

\* It is defined.
LEMMA FitExists ==
  ASSUME NEW req, NEW records, NEW k \in Nat
  PROVE  \E f : Fit(req, records, k, f)
<1> DEFINE T == {e \in Nat : ~\E f : Fit(req, records, e, f)}
<1>1. SUFFICES ASSUME T # {} PROVE FALSE
  OBVIOUS
<1>2. PICK e \in Nat :
         /\ ~\E f : Fit(req, records, e, f)
         /\ \A m \in Nat : m < e => \E f : Fit(req, records, m, f)
  <2>1. PICK e \in T : \A m \in T : e <= m
    <3>1. T \subseteq Nat
      OBVIOUS
    <3> HIDE DEF T
    <3> QED BY <1>1, <3>1, Least
  <2> QED BY <2>1
<1> HIDE DEF T
<1>3. e # 0
  <2> DEFINE g == [n \in 0 .. 0 |-> n]
  <2>1. g = [n \in 0 .. 0 |->
               IF Length(req, records, n) > MaxOutput /\ n > 1 THEN g[Half(n)] ELSE n]
    <3>1. \A n \in 0 .. 0 : ~(n > 1)
      OBVIOUS
    <3>2. \A h : [n \in 0 .. 0 |->
               IF Length(req, records, n) > MaxOutput /\ n > 1 THEN h[Half(n)] ELSE n] = g
      BY <3>1
    <3> QED BY <3>2
  <2>2. Fit(req, records, 0, g)
    BY <2>1 DEF Fit
  <2> HIDE DEF g
  <2> QED BY <1>2, <2>2
<1>4. PICK c \in Nat : e = c + 1
  <2>1. e - 1 \in Nat /\ e = (e - 1) + 1
    BY <1>3
  <2> QED BY <2>1
<1>5. PICK f : Fit(req, records, c, f)
  BY <1>2, <1>4
<1> DEFINE g == [n \in 0 .. e |->
                   IF Length(req, records, n) > MaxOutput /\ n > 1 THEN f[Half(n)] ELSE n]
<1>6. \A n \in 0 .. c : g[n] = f[n]
  <2>1. \A n \in 0 .. c : n \in 0 .. e
    BY <1>4
  <2>2. \A n \in 0 .. c :
           f[n] = IF Length(req, records, n) > MaxOutput /\ n > 1 THEN f[Half(n)] ELSE n
    BY <1>5 DEF Fit
  <2> QED BY <2>1, <2>2
<1>7. \A n \in 0 .. e : n > 1 => g[Half(n)] = f[Half(n)]
  <2> HIDE DEF g
  <2>1. \A n \in 0 .. e : n > 1 => Half(n) \in 0 .. c
    <3>1. TAKE n \in 0 .. e
    <3>2. HAVE n > 1
    <3>3. Half(n) \in 1 .. n - 1
      BY <3>2, Halved
    <3> QED BY <1>4, <3>3
  <2> QED BY <1>6, <2>1
<1>8. Fit(req, records, e, g)
  <2>1. g = [n \in 0 .. e |->
               IF Length(req, records, n) > MaxOutput /\ n > 1 THEN f[Half(n)] ELSE n]
    OBVIOUS
  <2> HIDE DEF g
  <2>2. g = [n \in 0 .. e |->
               IF Length(req, records, n) > MaxOutput /\ n > 1 THEN g[Half(n)] ELSE n]
    BY <1>7, <2>1
  <2> QED BY <2>2 DEF Fit
<1> HIDE DEF g
<1> QED BY <1>2, <1>8

\* An answer keeps no more records than it has.
LEMMA KeptSome ==
  ASSUME NEW req, NEW records, Len(records) \in Nat
  PROVE  Kept(req, records) \in 0 .. Len(records)
<1> DEFINE f == CHOOSE f : Fit(req, records, Len(records), f)
<1>1. Fit(req, records, Len(records), f)
  BY FitExists
<1>2. Kept(req, records) = IF Scans(req) \/ Projects(req) THEN f[Len(records)] ELSE Len(records)
  BY DEF Kept, Fit, Half
<1> HIDE DEF f
<1>3. \A n \in 0 .. Len(records) :
         f[n] = IF Length(req, records, n) > MaxOutput /\ n > 1 THEN f[Half(n)] ELSE n
  BY <1>1 DEF Fit
<1> DEFINE T == {n \in 0 .. Len(records) : ~(f[n] \in 0 .. n)}
<1>4. T = {}
  <2>1. SUFFICES ASSUME T # {} PROVE FALSE
    OBVIOUS
  <2>2. PICK n \in T : \A m \in T : n <= m
    <3>1. T \subseteq Nat
      OBVIOUS
    <3> HIDE DEF T
    <3> QED BY <2>1, <3>1, Least
  <2>3. n \in 0 .. Len(records) /\ f[n] \notin 0 .. n
    BY <2>2
  <2>4. f[n] = f[Half(n)] /\ n > 1
    BY <1>3, <2>3
  <2>5. Half(n) \in 1 .. n - 1
    BY <2>3, <2>4, Halved
  <2>6. Half(n) \in 0 .. Len(records) /\ ~(n <= Half(n))
    BY <2>3, <2>5
  <2>7. f[Half(n)] \in 0 .. Half(n)
    BY <2>2, <2>6
  <2> QED BY <2>3, <2>4, <2>5, <2>7
<1>5. Len(records) \in 0 .. Len(records)
  OBVIOUS
<1> QED BY <1>2, <1>4, <1>5

-----------------------------------------------------------------------------
(* Pages.                                                                  *)

\* Two stretches of a sequence that follow each other are one.
LEMMA Stretch ==
  ASSUME NEW R, NEW s \in Seq(R), NEW a \in 0 .. Len(s), NEW k \in 0 .. Len(s) - a
  PROVE  /\ SubSeq(s, a + 1, a + k) \in Seq(R) /\ Len(SubSeq(s, a + 1, a + k)) = k
         /\ SubSeq(s, 1, a) \o SubSeq(s, a + 1, a + k) = SubSeq(s, 1, a + k)
<1>1. SubSeq(s, a + 1, a + k) \in Seq(R) /\ Len(SubSeq(s, a + 1, a + k)) = k
  OBVIOUS
<1>2. SubSeq(s, 1, a) \o SubSeq(s, a + 1, a + k) = SubSeq(s, 1, a + k)
  <2>1. 1 \in 1 .. Len(s) + 1 /\ a \in 1 - 1 .. Len(s) /\ a + k \in a .. Len(s)
    OBVIOUS
  <2> QED BY <2>1, ConcatAdjacentSubSeq
<1> QED BY <1>1, <1>2

\* The first elements of a stretch.
LEMMA StretchPrefix ==
  ASSUME NEW R, NEW s \in Seq(R), NEW a \in 0 .. Len(s), NEW k \in 0 .. Len(s) - a,
         NEW m \in 0 .. k
  PROVE  SubSeq(SubSeq(s, a + 1, a + k), 1, m) = SubSeq(s, a + 1, a + m)
<1>1. CASE m = 0
  <2>1. SubSeq(SubSeq(s, a + 1, a + k), 1, m) = <<>>
    BY <1>1, SubSeqEmpty
  <2>2. SubSeq(s, a + 1, a + m) = <<>>
    BY <1>1, SubSeqEmpty
  <2> QED BY <2>1, <2>2
<1>2. CASE m # 0
  <2>1. /\ a + 1 \in 1 .. Len(s) /\ a + k \in 1 .. Len(s)
        /\ 1 \in 1 .. (a + k) - (a + 1) + 1 /\ m \in 1 .. (a + k) - (a + 1) + 1
    BY <1>2
  <2>2. SubSeq(SubSeq(s, a + 1, a + k), 1, m) = SubSeq(s, (a + 1) + 1 - 1, (a + 1) + m - 1)
    BY <2>1, SubSeqOfSubSeq
  <2>3. (a + 1) + 1 - 1 = a + 1 /\ (a + 1) + m - 1 = a + m
    OBVIOUS
  <2> QED BY <2>2, <2>3
<1> QED BY <1>1, <1>2

\* A page is a stretch of the table.
LEMMA PageIs ==
  ASSUME NEW R, rows \in Seq(R), NEW from \in Nat, NEW limit \in Int, NEW page \in Page(from, limit)
  PROVE  /\ page \in Seq(R) /\ Len(page) \in Nat
         /\ from <= Len(rows) => from + Len(page) <= Len(rows)
         /\ from <= Len(rows) => page = SubSeq(rows, from + 1, from + Len(page))
<1>1. Len(rows) \in Nat
  OBVIOUS
<1>2. PICK k \in 0 .. Max({0, Min({limit, Len(rows) - from})}) :
        page = SubSeq(rows, from + 1, from + k)
  BY DEF Page
<1> DEFINE small == Min({limit, Len(rows) - from})
<1>3. small \in Int /\ small <= Len(rows) - from
  BY <1>1, MinOfTwo
<1> HIDE DEF small
<1>4. Max({0, small}) \in Int /\ Max({0, small}) \in {0, small} /\ Max({0, small}) >= 0
  BY <1>3, MaxOfTwo
<1>5. k \in Nat /\ (k <= Len(rows) - from \/ k = 0)
  BY <1>1, <1>2, <1>3, <1>4 DEF small
<1>6. CASE k = 0
  <2>1. page = <<>>
    BY <1>2, <1>6
  <2>2. <<>> \in Seq(R) /\ Len(<<>>) = 0
    OBVIOUS
  <2> QED BY <1>1, <1>2, <1>6, <2>1, <2>2
<1>7. CASE k # 0
  <2>1. from \in 0 .. Len(rows) /\ k \in 0 .. Len(rows) - from
    BY <1>1, <1>5, <1>7
  <2>2. page \in Seq(R) /\ Len(page) = k
    BY <1>2, <2>1, Stretch
  <2> QED BY <1>1, <1>2, <2>1, <2>2
<1> QED BY <1>6, <1>7

-----------------------------------------------------------------------------
(* The invariant of a reading.                                             *)

AllRows == (UNION {Range(t) : t \in Tables}) \cup {NewRow}

\* Where the client is in the records W it wants.
Reached(W) ==
  /\ readPhase = "fetch" => offset \in 0 .. Len(W) /\ collected = SubSeq(W, 1, offset)
  /\ readPhase = "done"  => collected = W

ReadInv ==
  /\ rows \in Seq(AllRows) /\ scanned \in Seq(AllRows)
  /\ offset \in Nat /\ moved \in Nat /\ complete \in BOOLEAN
  /\ readPhase \in {"idle", "fetch", "selection", "failed", "done", "stats"}
  /\ readPhase = "idle" => offset = 0 /\ collected = <<>> /\ scanned = <<>>
  /\ complete => readPhase = "done"
  /\ readPhase \in {"fetch", "done", "stats"} => ask \in Asked /\ ValidSchema /\ ValidRequest(ask)
  /\ readPhase \in {"fetch", "stats"} => IsInjective(Ids(scanned))
  /\ moved = 0 /\ readPhase = "fetch" =>
       Len(scanned) <= Len(rows) /\ scanned = SubSeq(rows, 1, Len(scanned))
  /\ moved = 0 => Reached(WantedOf(rows))
  /\ readPhase = "stats" =>
       /\ stats = Distributions(ask, WantedOf(scanned))
       /\ moved = 0 => scanned = rows

\* The rows are well formed.
LEMMA RowsAre ==
  ASSUME WellFormed
  PROVE  /\ Tables \subseteq Seq(AllRows)
         /\ NewRow \in AllRows
         /\ \A row \in AllRows : IsRow(row)
<1>1. ASSUME NEW t \in Tables PROVE t \in Seq(AllRows)
  <2>1. t \in Seq(Range(t)) /\ Range(t) \subseteq AllRows
    BY DEF WellFormed, AllRows
  <2> QED BY <2>1, SeqMonotonic
<1>2. ASSUME NEW row \in AllRows PROVE IsRow(row)
  <2>1. CASE row = NewRow
    BY <2>1 DEF WellFormed
  <2>2. CASE row # NewRow
    <3>1. PICK t \in Tables : row \in Range(t)
      BY <2>2 DEF AllRows
    <3> QED BY <3>1 DEF WellFormed
  <2> QED BY <2>1, <2>2
<1>3. NewRow \in AllRows
  BY DEF AllRows
<1> QED BY <1>1, <1>2, <1>3

\* What the scan's filter lets through is what the client wants.
LEMMA MatchedIsWanted ==
  ASSUME WellFormed, ask \in Asked, ValidSchema, ValidRequest(ask), NEW all \in Seq(AllRows)
  PROVE  Selected(all, {row \in Range(all) : RowMatches(ask, row)}) = WantedOf(all)
<1>1. Range(all) \subseteq AllRows
  BY RangeOfSeq
<1>2. \A row \in Range(all) : RowMatches(ask, row) <=> Wanted(row)
  BY <1>1, Matching, RowsAre
<1>3. {row \in Range(all) : RowMatches(ask, row)} = {row \in Range(all) : Wanted(row)}
  BY <1>2
<1> QED BY <1>3 DEF WantedOf

\* A client without a filter wants every row.
LEMMA AllWanted ==
  ASSUME NEW all \in Seq(AllRows), IsRequest(ask), ~Filters(ask)
  PROVE  WantedOf(all) = all
<1>1. \A row \in Range(all) : Wanted(row)
  BY DEF Wanted, IsRequest
<1>2. all \in Seq(Range(all))
  BY SeqOfRange
<1>3. Range(all) \subseteq {row \in Range(all) : Wanted(row)}
  BY <1>1
<1> QED BY <1>2, <1>3, SelectedAll DEF WantedOf

\* What is wanted of rows is rows.
LEMMA WantedSeq ==
  ASSUME NEW R, NEW all \in Seq(R)
  PROVE  WantedOf(all) \in Seq(R) /\ Len(WantedOf(all)) \in Nat
<1>1. WantedOf(all) \in Seq(R)
  BY SelectedSeq DEF WantedOf
<1> QED BY <1>1

\* An answer with the next of the wanted records brings the client on.
LEMMA AnswerReaches ==
  ASSUME NEW R, NEW W \in Seq(R), NEW k, NEW records, NEW hasMore \in BOOLEAN,
         readPhase = "fetch", Reached(W), k \in 0 .. Len(W) - offset,
         records = SubSeq(W, offset + 1, offset + k),
         ~hasMore => offset + k = Len(W),
         Answer(records, hasMore)
  PROVE  /\ readPhase' = "fetch" => offset' \in 0 .. Len(W) /\ collected' = SubSeq(W, 1, offset')
         /\ readPhase' = "done"  => collected' = W
<1> DEFINE kept == Kept(ask, records)
<1>1. offset \in 0 .. Len(W) /\ collected = SubSeq(W, 1, offset)
  BY DEF Reached
<1>2. records \in Seq(R) /\ Len(records) = k /\ k \in Nat
  BY <1>1, Stretch
<1>3. kept \in 0 .. k
  BY <1>2, KeptSome
<1>4. CASE readPhase' = "failed"
  BY <1>4
<1>5. CASE readPhase' # "failed"
  <2>1. /\ collected' = collected \o SubSeq(records, 1, kept)
        /\ offset' = offset + kept
        /\ readPhase' = IF hasMore \/ kept < Len(records) THEN "fetch" ELSE "done"
    BY <1>5 DEF Answer
  <2> HIDE DEF kept
  <2>2. SubSeq(records, 1, kept) = SubSeq(W, offset + 1, offset + kept)
    BY <1>1, <1>3, StretchPrefix
  <2>3. kept \in 0 .. Len(W) - offset
    BY <1>1, <1>2, <1>3
  <2>4. SubSeq(W, 1, offset) \o SubSeq(W, offset + 1, offset + kept) = SubSeq(W, 1, offset + kept)
    BY <1>1, <2>3, Stretch
  <2>5. collected' = SubSeq(W, 1, offset') /\ offset' \in 0 .. Len(W)
    <3>1. collected' = SubSeq(W, 1, offset')
      BY <1>1, <2>1, <2>2, <2>4
    <3>2. offset + kept \in 0 .. Len(W)
      BY <1>1, <2>3
    <3> QED BY <2>1, <3>1, <3>2
  <2>6. ASSUME readPhase' = "done" PROVE collected' = W
    <3>1. ~hasMore /\ ~(kept < k)
      BY <1>2, <2>1, <2>6
    <3>2. offset + kept = Len(W)
      BY <1>2, <1>3, <3>1
    <3>3. SubSeq(W, 1, Len(W)) = W
      BY SubSeqFull
    <3> QED BY <2>1, <2>5, <3>2, <3>3
  <2> QED BY <2>5, <2>6
<1> QED BY <1>4, <1>5

\* What an answer leaves in any case.
LEMMA AnswerTypes ==
  ASSUME NEW R, NEW records \in Seq(R), NEW hasMore \in BOOLEAN,
         ReadInv, readPhase = "fetch", Answer(records, hasMore)
  PROVE  /\ offset' \in Nat /\ complete' \in BOOLEAN
         /\ scanned' \in {<<>>, scanned}
         /\ readPhase' \in {"fetch", "done", "failed"}
         /\ complete' => readPhase' = "done"
         /\ readPhase' = "fetch" => scanned' = <<>>
<1>1. Kept(ask, records) \in 0 .. Len(records) /\ Len(records) \in Nat
  BY KeptSome
<1>2. offset \in Nat /\ complete \in BOOLEAN /\ ~complete
  BY DEF ReadInv
<1> DEFINE tooLong == /\ Scans(ask) \/ Projects(ask)
                      /\ Length(ask, records, Kept(ask, records)) > MaxOutput
           kept    == Kept(ask, records)
           more    == hasMore \/ kept < Len(records)
<1>3. \/ /\ readPhase' = "failed"
         /\ UNCHANGED <<offset, scanned, complete>>
      \/ /\ offset' = offset + kept
         /\ complete' = (offset = 0 /\ ~more)
         /\ readPhase' = IF more THEN "fetch" ELSE "done"
         /\ scanned' = <<>>
  <2>1. CASE tooLong
    BY <2>1 DEF Answer
  <2>2. CASE ~tooLong
    BY <2>2 DEF Answer
  <2> QED BY <2>1, <2>2
<1>4. more \in BOOLEAN /\ kept \in Nat
  BY <1>1
<1> HIDE DEF more, kept
<1>5. CASE /\ readPhase' = "failed"
           /\ UNCHANGED <<offset, scanned, complete>>
  BY <1>2, <1>5
<1>6. CASE /\ offset' = offset + kept
           /\ complete' = (offset = 0 /\ ~more)
           /\ readPhase' = IF more THEN "fetch" ELSE "done"
           /\ scanned' = <<>>
  BY <1>2, <1>4, <1>6
<1> QED BY <1>3, <1>5, <1>6

\* What the client wants only changes with the table and the question.
LEMMA WantedStays ==
  ASSUME ask' = ask, rows' = rows
  PROVE  WantedOf(rows)' = WantedOf(rows)
  BY DEF WantedOf, Wanted

\* No rows have no ids.
LEMMA NoIds == IsInjective(Ids(<<>>))
  BY DEF Ids, IsInjective

\* A reading begins in it.
LEMMA InitReadInv ==
  ASSUME WellFormed, ReadInit
  PROVE  ReadInv
<1>1. rows \in Seq(AllRows)
  BY RowsAre DEF ReadInit
<1>2. <<>> \in Seq(AllRows)
  OBVIOUS
<1> QED BY <1>1, <1>2 DEF ReadInit, ReadInv, Reached

\* The question.
LEMMA GetTableStep ==
  ASSUME WellFormed, ReadInv, GetTable
  PROVE  ReadInv'
<1>1. /\ readPhase = "idle" /\ offset = 0 /\ collected = <<>> /\ scanned = <<>> /\ ~complete
      /\ UNCHANGED <<rows, offset, scanned, collected, complete, stats, moved>>
  BY DEF GetTable, ReadInv
<1>2. /\ readPhase' \in {"fetch", "selection", "failed"}
      /\ readPhase' = "fetch" => ask' \in Asked /\ ValidSchema /\ ValidRequest(ask')
  BY DEF GetTable
<1>3. /\ rows \in Seq(AllRows) /\ scanned \in Seq(AllRows)
      /\ offset \in Nat /\ moved \in Nat /\ complete \in BOOLEAN
  BY DEF ReadInv
<1>4. WantedOf(rows)' = WantedOf(rows)' /\ Len(WantedOf(rows)') \in Nat
  <2>1. WantedOf(rows)' \in Seq(AllRows)
    <3>1. rows' \in Seq(AllRows)
      BY <1>1, <1>3
    <3> QED BY <3>1, SelectedSeq DEF WantedOf
  <2> QED BY <2>1
<1>5. Reached(WantedOf(rows))'
  <2>1. SubSeq(WantedOf(rows)', 1, 0) = <<>>
    BY SubSeqEmpty
  <2>2. 0 \in 0 .. Len(WantedOf(rows)')
    BY <1>4
  <2> QED BY <1>1, <1>2, <2>1, <2>2 DEF Reached
<1>6. Len(scanned) = 0 /\ Len(scanned) <= Len(rows) /\ scanned = SubSeq(rows, 1, Len(scanned))
  <2>1. SubSeq(rows, 1, 0) = <<>> /\ Len(<<>>) = 0
    BY SubSeqEmpty
  <2>2. Len(rows) \in Nat
    BY <1>3
  <2> QED BY <1>1, <2>1, <2>2
<1>7. IsInjective(Ids(scanned))'
  BY <1>1, NoIds
<1> QED BY <1>1, <1>2, <1>3, <1>5, <1>6, <1>7 DEF ReadInv

\* A reading that fails.
LEMMA FailStep ==
  ASSUME ReadInv, readPhase = "fetch", readPhase' = "failed",
         UNCHANGED <<rows, ask, offset, scanned, collected, complete, stats, moved>>
  PROVE  ReadInv'
<1>1. ~complete /\ complete \in BOOLEAN
  BY DEF ReadInv
<1> QED BY <1>1 DEF ReadInv, Reached

\* An answer.
LEMMA AnswerStep ==
  ASSUME ReadInv, readPhase = "fetch", NEW records \in Seq(AllRows), NEW hasMore \in BOOLEAN,
         Answer(records, hasMore), UNCHANGED <<rows, ask, moved>>,
         moved = 0 => \E k \in 0 .. Len(WantedOf(rows)) - offset :
                         /\ records = SubSeq(WantedOf(rows), offset + 1, offset + k)
                         /\ ~hasMore => offset + k = Len(WantedOf(rows))
  PROVE  ReadInv'
<1>1. /\ offset' \in Nat /\ complete' \in BOOLEAN
      /\ scanned' \in {<<>>, scanned}
      /\ readPhase' \in {"fetch", "done", "failed"}
      /\ complete' => readPhase' = "done"
      /\ readPhase' = "fetch" => scanned' = <<>>
  BY AnswerTypes
<1>2. /\ rows \in Seq(AllRows) /\ scanned \in Seq(AllRows) /\ moved \in Nat
      /\ ask \in Asked /\ ValidSchema /\ ValidRequest(ask)
      /\ moved = 0 => Reached(WantedOf(rows))
  BY DEF ReadInv
<1>3. WantedOf(rows)' = WantedOf(rows)
  BY WantedStays
<1>4. WantedOf(rows) \in Seq(AllRows)
  BY <1>2, WantedSeq
<1>5. moved = 0 => Reached(WantedOf(rows))'
  <2> DEFINE W == WantedOf(rows)
  <2>1. SUFFICES ASSUME moved = 0
                 PROVE  /\ readPhase' = "fetch" =>
                              offset' \in 0 .. Len(W) /\ collected' = SubSeq(W, 1, offset')
                        /\ readPhase' = "done"  => collected' = W
    BY <1>3 DEF Reached
  <2>2. W \in Seq(AllRows) /\ Reached(W)
    BY <1>2, <1>4, <2>1
  <2>3. PICK k \in 0 .. Len(W) - offset :
          records = SubSeq(W, offset + 1, offset + k) /\ (~hasMore => offset + k = Len(W))
    BY <2>1
  <2> HIDE DEF W
  <2> QED BY <2>2, <2>3, AnswerReaches
<1>6. scanned' \in Seq(AllRows)
  <2>1. <<>> \in Seq(AllRows)
    OBVIOUS
  <2> QED BY <1>1, <1>2, <2>1
<1>7. readPhase' = "fetch" =>
        /\ IsInjective(Ids(scanned))'
        /\ Len(scanned') <= Len(rows) /\ scanned' = SubSeq(rows, 1, Len(scanned'))
  <2>1. SubSeq(rows, 1, 0) = <<>> /\ Len(<<>>) = 0
    BY SubSeqEmpty
  <2>2. Len(rows) \in Nat
    BY <1>2
  <2> QED BY <1>1, <2>1, <2>2, NoIds
<1> QED BY <1>1, <1>2, <1>5, <1>6, <1>7 DEF ReadInv

\* A page of the remote table is the answer.
LEMMA FetchSourceStep ==
  ASSUME WellFormed, ReadInv, FetchSource
  PROVE  ReadInv'
<1>1. /\ readPhase = "fetch" /\ ~Scans(ask) /\ UNCHANGED <<rows, ask, moved>>
  BY DEF FetchSource
<1>2. PICK page \in Page(offset, ask.limit) :
         IF BadPage(<<>>, page, MoreBehind(offset, page))
         THEN /\ readPhase' = "failed"
              /\ UNCHANGED <<offset, scanned, collected, complete, stats>>
         ELSE Answer(page, MoreBehind(offset, page))
  BY DEF FetchSource
<1>3. /\ rows \in Seq(AllRows) /\ offset \in Nat /\ ask \in Asked
      /\ moved = 0 => Reached(WantedOf(rows))
  BY <1>1 DEF ReadInv
<1>4. ask.limit \in Int
  BY <1>3 DEF WellFormed, IsRequest
<1>5. /\ page \in Seq(AllRows) /\ Len(page) \in Nat
      /\ offset <= Len(rows) => offset + Len(page) <= Len(rows)
      /\ offset <= Len(rows) => page = SubSeq(rows, offset + 1, offset + Len(page))
  BY <1>3, <1>4, PageIs
<1>6. CASE BadPage(<<>>, page, MoreBehind(offset, page))
  <2>1. /\ readPhase' = "failed"
        /\ UNCHANGED <<offset, scanned, collected, complete, stats>>
    BY <1>2, <1>6
  <2> QED BY <1>1, <2>1, FailStep
<1>7. CASE ~BadPage(<<>>, page, MoreBehind(offset, page))
  <2>1. Answer(page, MoreBehind(offset, page))
    BY <1>2, <1>7
  <2>2. MoreBehind(offset, page) \in BOOLEAN
    BY DEF MoreBehind
  <2>3. ASSUME moved = 0
        PROVE  \E k \in 0 .. Len(WantedOf(rows)) - offset :
                  /\ page = SubSeq(WantedOf(rows), offset + 1, offset + k)
                  /\ ~MoreBehind(offset, page) => offset + k = Len(WantedOf(rows))
    <3>1. WantedOf(rows) = rows
      BY <1>1, <1>3, AllWanted DEF Scans, WellFormed
    <3>2. offset \in 0 .. Len(rows) /\ Len(rows) \in Nat
      BY <1>1, <1>3, <2>3, <3>1 DEF Reached
    <3>3. Len(page) \in 0 .. Len(rows) - offset
      BY <1>5, <3>2
    <3>4. ~MoreBehind(offset, page) => offset + Len(page) = Len(rows)
      BY <1>5, <3>2 DEF MoreBehind
    <3>5. page = SubSeq(rows, offset + 1, offset + Len(page))
      BY <1>5, <3>2
    <3> QED BY <3>1, <3>3, <3>4, <3>5
  <2> QED BY <1>1, <1>5, <2>1, <2>2, <2>3, AnswerStep
<1> QED BY <1>6, <1>7

\* A page of a scan goes wrong, is followed by another one, is counted or is answered.
LEMMA ScanPageStep ==
  ASSUME WellFormed, ReadInv, ScanPage
  PROVE  ReadInv'
<1> DEFINE size == Min({PageSize, MaxScan - Len(scanned)})
<1>1. /\ readPhase = "fetch" /\ UNCHANGED <<rows, ask, moved>>
  BY DEF ScanPage
<1>2. PICK page \in Page(Len(scanned), size) :
         LET hasMore == MoreBehind(Len(scanned), page)
             all     == scanned \o page
             matched == Selected(all, {row \in Range(all) : RowMatches(ask, row)})
             last    == Min({offset + ask.limit, Len(matched)})
         IN  IF BadPage(scanned, page, hasMore) \/ StopsScan(all, hasMore)
             THEN /\ readPhase' = "failed"
                  /\ UNCHANGED <<offset, scanned, collected, complete, stats>>
             ELSE IF hasMore
             THEN /\ scanned' = all
                  /\ UNCHANGED <<readPhase, offset, collected, complete, stats>>
             ELSE IF Groups(ask)
             THEN /\ stats' = Distributions(ask, matched)
                  /\ scanned' = all
                  /\ readPhase' = "stats"
                  /\ UNCHANGED <<offset, collected, complete>>
             ELSE Answer(SubSeq(matched, offset + 1, last), offset + ask.limit < Len(matched))
  BY DEF ScanPage
<1>3. /\ rows \in Seq(AllRows) /\ scanned \in Seq(AllRows)
      /\ offset \in Nat /\ ask \in Asked /\ ValidSchema /\ ValidRequest(ask)
      /\ moved \in Nat /\ complete \in BOOLEAN /\ ~complete
      /\ moved = 0 => Reached(WantedOf(rows))
      /\ moved = 0 => Len(scanned) <= Len(rows) /\ scanned = SubSeq(rows, 1, Len(scanned))
  BY <1>1 DEF ReadInv
<1>4. Len(scanned) \in Nat /\ Len(rows) \in Nat /\ ask.limit \in Nat \ {0}
  BY <1>3 DEF WellFormed, IsRequest
<1>5. size \in Int
  <2>1. PageSize \in Int /\ MaxScan - Len(scanned) \in Int
    BY <1>4 DEF WellFormed
  <2> QED BY <2>1, MinOfTwo
<1> DEFINE hasMore == MoreBehind(Len(scanned), page)
           all     == scanned \o page
           matched == Selected(all, {row \in Range(all) : RowMatches(ask, row)})
           last    == Min({offset + ask.limit, Len(matched)})
<1> HIDE DEF size
<1>6. /\ page \in Seq(AllRows) /\ Len(page) \in Nat
      /\ Len(scanned) <= Len(rows) => Len(scanned) + Len(page) <= Len(rows)
      /\ Len(scanned) <= Len(rows) =>
           page = SubSeq(rows, Len(scanned) + 1, Len(scanned) + Len(page))
  BY <1>3, <1>4, <1>5, PageIs
<1>7. all \in Seq(AllRows) /\ Len(all) = Len(scanned) + Len(page)
  BY <1>3, <1>6
<1>8. ASSUME moved = 0
      PROVE  /\ Len(all) <= Len(rows) /\ all = SubSeq(rows, 1, Len(all))
             /\ ~hasMore => all = rows
  <2>1. Len(scanned) \in 0 .. Len(rows) /\ Len(page) \in 0 .. Len(rows) - Len(scanned)
    BY <1>3, <1>4, <1>6, <1>8
  <2>2. all = SubSeq(rows, 1, Len(scanned))
                \o SubSeq(rows, Len(scanned) + 1, Len(scanned) + Len(page))
    BY <1>3, <1>4, <1>6, <1>8
  <2>3. all = SubSeq(rows, 1, Len(scanned) + Len(page))
    BY <1>3, <2>1, <2>2, Stretch
  <2>4. ASSUME ~hasMore PROVE all = rows
    <3>1. Len(scanned) + Len(page) = Len(rows)
      BY <2>1, <2>4, <1>4 DEF MoreBehind
    <3>2. SubSeq(rows, 1, Len(rows)) = rows
      BY <1>3, SubSeqFull
    <3> QED BY <2>3, <3>1, <3>2
  <2> HIDE DEF all
  <2> QED BY <1>7, <2>1, <2>3, <2>4
<1>9. matched = WantedOf(all) /\ matched \in Seq(AllRows) /\ Len(matched) \in Nat
  <2> HIDE DEF all
  <2>1. matched = WantedOf(all)
    BY <1>3, <1>7, MatchedIsWanted
  <2> QED BY <1>7, <2>1, WantedSeq
<1>10. WantedOf(rows)' = WantedOf(rows)
  BY <1>1, WantedStays
<1>11. IsInjective(Ids(all)) \/ BadPage(scanned, page, hasMore)
  BY DEF BadPage
<1>12. CASE BadPage(scanned, page, hasMore) \/ StopsScan(all, hasMore)
  <2>1. /\ readPhase' = "failed"
        /\ UNCHANGED <<offset, scanned, collected, complete, stats>>
    BY <1>2, <1>12
  <2> QED BY <1>1, <2>1, FailStep
<1>13. CASE ~(BadPage(scanned, page, hasMore) \/ StopsScan(all, hasMore)) /\ hasMore
  <2>1. /\ scanned' = all
        /\ UNCHANGED <<readPhase, offset, collected, complete, stats>>
    BY <1>2, <1>13
  <2>2. IsInjective(Ids(all))
    BY <1>11, <1>13
  <2>3. IsInjective(Ids(scanned))'
    BY <2>1, <2>2
  <2>4. moved = 0 => Reached(WantedOf(rows))'
    BY <1>1, <1>3, <1>10, <2>1 DEF Reached
  <2>5. moved = 0 => Len(scanned') <= Len(rows) /\ scanned' = SubSeq(rows, 1, Len(scanned'))
    BY <1>8, <2>1
  <2> HIDE DEF all
  <2> QED BY <1>1, <1>3, <1>7, <2>1, <2>3, <2>4, <2>5 DEF ReadInv
<1>14. CASE ~(BadPage(scanned, page, hasMore) \/ StopsScan(all, hasMore)) /\ ~hasMore /\ Groups(ask)
  <2>1. /\ stats' = Distributions(ask, matched)
        /\ scanned' = all
        /\ readPhase' = "stats"
        /\ UNCHANGED <<offset, collected, complete>>
    BY <1>2, <1>14
  <2>2. IsInjective(Ids(all))
    BY <1>11, <1>14
  <2>3. IsInjective(Ids(scanned))'
    BY <2>1, <2>2
  <2>4. moved = 0 => Reached(WantedOf(rows))'
    BY <2>1 DEF Reached
  <2>5. moved = 0 => scanned' = rows
    BY <1>8, <1>14, <2>1
  <2>6. (stats = Distributions(ask, WantedOf(scanned)))'
    <3>1. WantedOf(scanned)' = WantedOf(all)
      BY <1>1, <2>1 DEF WantedOf, Wanted
    <3> HIDE DEF all, matched
    <3>2. stats' = Distributions(ask, WantedOf(all))
      BY <1>9, <2>1
    <3> QED BY <1>1, <3>1, <3>2
  <2> HIDE DEF all, matched
  <2> QED BY <1>1, <1>3, <1>7, <2>1, <2>3, <2>4, <2>5, <2>6 DEF ReadInv
<1>15. CASE /\ ~(BadPage(scanned, page, hasMore) \/ StopsScan(all, hasMore))
            /\ ~hasMore /\ ~Groups(ask)
  <2>1. Answer(SubSeq(matched, offset + 1, last), offset + ask.limit < Len(matched))
    BY <1>2, <1>15
  <2>2. moved = 0 => matched = WantedOf(rows)
    BY <1>8, <1>9, <1>15
  <2> HIDE DEF matched
  <2>3. last = IF offset + ask.limit <= Len(matched) THEN offset + ask.limit ELSE Len(matched)
    <3>1. offset + ask.limit \in Int /\ Len(matched) \in Int
      BY <1>3, <1>4, <1>9
    <3> QED BY <3>1, MinOfTwo
  <2> HIDE DEF last
  <2>4. last \in Nat
    BY <1>3, <1>4, <1>9, <2>3
  <2>5. SubSeq(matched, offset + 1, last) \in Seq(AllRows)
    <3>1. \A i \in offset + 1 .. last : matched[i] \in AllRows
      BY <1>3, <1>4, <1>9, <2>3
    <3> QED BY <1>3, <2>4, <3>1, SubSeqProperties
  <2>6. ASSUME moved = 0
        PROVE  \E k \in 0 .. Len(WantedOf(rows)) - offset :
                  /\ SubSeq(matched, offset + 1, last)
                       = SubSeq(WantedOf(rows), offset + 1, offset + k)
                  /\ ~(offset + ask.limit < Len(matched)) => offset + k = Len(WantedOf(rows))
    <3>1. offset \in 0 .. Len(matched)
      BY <1>1, <1>3, <2>2, <2>6 DEF Reached
    <3>2. last - offset \in 0 .. Len(matched) - offset /\ offset + (last - offset) = last
      BY <1>3, <1>4, <1>9, <2>3, <2>4, <3>1
    <3>3. ~(offset + ask.limit < Len(matched)) => last = Len(matched)
      BY <1>3, <1>4, <1>9, <2>3
    <3> QED BY <2>2, <2>6, <3>2, <3>3
  <2>7. (offset + ask.limit < Len(matched)) \in BOOLEAN
    OBVIOUS
  <2> QED BY <1>1, <2>1, <2>5, <2>6, <2>7, AnswerStep
<1> QED BY <1>12, <1>13, <1>14, <1>15

\* A colleague inserts or deletes a row.
LEMMA EditRowsStep ==
  ASSUME WellFormed, ReadInv, EditRows
  PROVE  ReadInv'
<1>1. /\ readPhase = "fetch" /\ moved' = moved + 1
      /\ UNCHANGED <<ask, readPhase, offset, scanned, collected, complete, stats>>
  BY DEF EditRows
<1>2. /\ rows \in Seq(AllRows) /\ scanned \in Seq(AllRows) /\ moved \in Nat /\ NewRow \in AllRows
  BY RowsAre DEF ReadInv
<1>3. rows' \in Seq(AllRows)
  <2>1. CASE rows' = <<NewRow>> \o rows
    <3>1. <<NewRow>> \in Seq(AllRows)
      BY <1>2
    <3> QED BY <1>2, <2>1, <3>1
  <2>2. CASE rows' = Append(rows, NewRow)
    BY <1>2, <2>2
  <2>3. ASSUME NEW i \in DOMAIN rows, rows' = RemoveAt(rows, i) PROVE rows' \in Seq(AllRows)
    <3>1. i \in 1 .. Len(rows) /\ Len(rows) \in Nat
      BY <1>2, <2>3
    <3>2. \A m \in Nat, n \in Nat : m >= 1 /\ n <= Len(rows) => SubSeq(rows, m, n) \in Seq(AllRows)
      BY <1>2, SubSeqProperties
    <3>3. SubSeq(rows, 1, i - 1) \in Seq(AllRows) /\ SubSeq(rows, i + 1, Len(rows)) \in Seq(AllRows)
      BY <3>1, <3>2
    <3> QED BY <2>3, <3>3 DEF RemoveAt
  <2> QED BY <2>1, <2>2, <2>3 DEF EditRows
<1>4. moved' \in Nat /\ moved' # 0
  BY <1>1, <1>2
<1> QED BY <1>1, <1>3, <1>4 DEF ReadInv

\* The invariant holds.
LEMMA ReadInvHolds == WellFormed => (ReadSpec => []ReadInv)
<1> SUFFICES ASSUME WellFormed PROVE ReadSpec => []ReadInv
  OBVIOUS
<1>1. ReadInit => ReadInv
  BY InitReadInv
<1>2. ReadInv /\ [ReadNext]_readVars => ReadInv'
  <2>1. SUFFICES ASSUME ReadInv, [ReadNext]_readVars PROVE ReadInv'
    OBVIOUS
  <2>2. CASE GetTable
    BY <2>1, <2>2, GetTableStep
  <2>3. CASE FetchSource
    BY <2>1, <2>3, FetchSourceStep
  <2>4. CASE ScanPage
    BY <2>1, <2>4, ScanPageStep
  <2>5. CASE ScanOverBudget
    BY <2>1, <2>5, FailStep DEF ScanOverBudget
  <2>6. CASE EditRows
    BY <2>1, <2>6, EditRowsStep
  <2>7. CASE UNCHANGED readVars
    BY <2>1, <2>7 DEF readVars, ReadInv, Reached, WantedOf, Wanted
  <2> QED BY <2>1, <2>2, <2>3, <2>4, <2>5, <2>6, <2>7 DEF ReadNext
<1> QED BY <1>1, <1>2, PTL DEF ReadSpec

\* A client that follows next_offset over a table nobody changes gets every record
\* it wants once and in order, whatever the sizes of the pages and the answers.
THEOREM PagesCoverOnceHolds == WellFormed => (ReadSpec => []PagesCoverOnce)
<1>1. ReadInv => PagesCoverOnce
  <2>1. SUFFICES ASSUME ReadInv, moved = 0
                 PROVE  /\ readPhase = "done" \/ complete => collected = WantedOf(rows)
                        /\ readPhase = "fetch" => IsPrefix(collected, WantedOf(rows))
    BY DEF PagesCoverOnce
  <2> DEFINE W == WantedOf(rows)
  <2>2. Reached(W) /\ (complete => readPhase = "done")
    BY <2>1 DEF ReadInv
  <2>3. W \in Seq(AllRows)
    BY <2>1, WantedSeq DEF ReadInv
  <2> HIDE DEF W
  <2>4. ASSUME readPhase = "fetch" PROVE IsPrefix(collected, W)
    <3>1. offset \in 0 .. Len(W) /\ collected = SubSeq(W, 1, offset)
      BY <2>2, <2>4 DEF Reached
    <3>2. Len(collected) = offset /\ Len(W) \in Nat
      BY <2>3, <3>1
    <3>3. SubSeq(collected, 1, Len(collected)) = collected
      <4>1. collected \in Seq(AllRows)
        BY <2>3, <3>1
      <4> QED BY <4>1, SubSeqFull
    <3> QED BY <3>1, <3>2, <3>3 DEF IsPrefix
  <2> QED BY <2>2, <2>4 DEF Reached, W
<1> QED BY <1>1, ReadInvHolds, PTL

-----------------------------------------------------------------------------
(* Counting.                                                               *)

\* Of finitely many numbers one is the greatest.
LEMMA Greatest ==
  ASSUME NEW S, S # {}, IsFiniteSet(S), NEW f \in [S -> Nat]
  PROVE  \E k \in S : \A m \in S : f[m] <= f[k]
<1> DEFINE Bad(F) == /\ F \subseteq S /\ F # {} /\ IsFiniteSet(F)
                     /\ ~\E k \in F : \A m \in F : f[m] <= f[k]
           N == {n \in Nat : \E F \in SUBSET S : Bad(F) /\ Cardinality(F) = n}
<1>1. SUFFICES ASSUME Bad(S) PROVE FALSE
  OBVIOUS
<1>2. N # {} /\ N \subseteq Nat
  BY <1>1, FS_CardinalityType
<1>3. PICK n \in N : \A m \in N : n <= m
  <2> HIDE DEF N
  <2> QED BY <1>2, Least
<1>4. PICK F \in SUBSET S : Bad(F) /\ Cardinality(F) = n
  OBVIOUS
<1>5. PICK x \in F : TRUE
  BY <1>4
<1>6. /\ IsFiniteSet(F \ {x}) /\ Cardinality(F \ {x}) = Cardinality(F) - 1
      /\ Cardinality(F \ {x}) \in Nat
  BY <1>4, <1>5, FS_RemoveElement, FS_CardinalityType
<1>7. ~Bad(F \ {x})
  <2> SUFFICES ASSUME Bad(F \ {x}) PROVE FALSE
    OBVIOUS
  <2>1. Cardinality(F \ {x}) \in N
    BY <1>4, <1>6
  <2> HIDE DEF N, Bad
  <2> QED BY <1>2, <1>3, <1>4, <1>6, <2>1
<1>8. CASE F = {x}
  BY <1>4, <1>5, <1>8
<1>9. CASE F # {x}
  <2>1. F \ {x} # {} /\ F \ {x} \subseteq S
    BY <1>4, <1>5, <1>9
  <2>2. PICK k \in F \ {x} : \A m \in F \ {x} : f[m] <= f[k]
    BY <1>6, <1>7, <2>1
  <2>3. k \in F /\ f[k] \in Nat /\ f[x] \in Nat /\ \A m \in F : f[m] \in Nat
    BY <1>4, <1>5, <2>2
  <2>4. CASE f[x] <= f[k]
    BY <1>4, <2>2, <2>3, <2>4
  <2>5. CASE ~(f[x] <= f[k])
    <3>1. \A m \in F : f[m] <= f[x]
      BY <2>2, <2>3, <2>5
    <3> QED BY <1>4, <1>5, <3>1
  <2> QED BY <2>4, <2>5
<1> QED BY <1>8, <1>9

\* As many times as each value occurs is as many as they occur together.
LEMMA SumOfSizes ==
  ASSUME NEW P, IsFiniteSet(P), NEW T, IsFiniteSet(T), NEW count,
         \A v \in T : count[v] = Cardinality({p \in P : p[2] = v})
  PROVE  SumFunctionOnSet(count, T) = Cardinality({p \in P : p[2] \in T})
<1> DEFINE Part(s) == {p \in P : p[2] \in s}
           One(s)  == CHOOSE x \in s : TRUE
           Sums(h) == h = [s \in SUBSET T |-> IF s = {} THEN 0
                             ELSE LET x == One(s) IN count[x] + h[s \ {x}]]
           size    == [s \in SUBSET T |-> Cardinality(Part(s))]
<1>1. ASSUME NEW s \in SUBSET T, s # {}
      PROVE  /\ One(s) \in s /\ s \ {One(s)} \in SUBSET T
             /\ Cardinality(Part(s)) = count[One(s)] + Cardinality(Part(s \ {One(s)}))
  <2>1. One(s) \in s /\ One(s) \in T
    BY <1>1
  <2> HIDE DEF One
  <2> DEFINE x == One(s)
             A == {p \in P : p[2] = x}
             B == Part(s \ {x})
  <2>2. Part(s) = A \cup B /\ A \cap B = {} /\ A \in SUBSET P /\ B \in SUBSET P
    BY <2>1
  <2>3. count[x] = Cardinality(A)
    BY <2>1
  <2> HIDE DEF A, B, Part, x
  <2>4. IsFiniteSet(A) /\ IsFiniteSet(B)
    BY <2>2, FS_Subset
  <2>5. Cardinality(A) \in Nat /\ Cardinality(B) \in Nat
    BY <2>4, FS_CardinalityType
  <2>6. Cardinality(A \cup B) = Cardinality(A) + Cardinality(B) - Cardinality({})
    BY <2>2, <2>4, FS_Union
  <2>7. Cardinality(A \cup B) = Cardinality(A) + Cardinality(B)
    BY <2>5, <2>6, FS_EmptySet
  <2> QED BY <2>1, <2>2, <2>3, <2>7 DEF x, B
<1>2. Part({}) = {} /\ Cardinality({}) = 0
  BY FS_EmptySet
<1>3. Sums(size)
  <2> HIDE DEF Part, One
  <2>1. \A s \in SUBSET T : s # {} =>
           One(s) \in s /\ s \ {One(s)} \in SUBSET T
           /\ Cardinality(Part(s)) = count[One(s)] + Cardinality(Part(s \ {One(s)}))
    BY <1>1
  <2>2. \A s \in SUBSET T :
           size[s] = IF s = {} THEN 0 ELSE LET x == One(s) IN count[x] + size[s \ {x}]
    BY <1>2, <2>1
  <2>3. size = [s \in SUBSET T |-> size[s]]
    OBVIOUS
  <2> HIDE DEF size
  <2> QED BY <2>2, <2>3
<1> DEFINE f == CHOOSE h : Sums(h)
<1>4. SumFunctionOnSet(count, T) = f[T]
  BY DEF SumFunctionOnSet, FoldFunctionOnSet, MapThenFoldSet
<1>5. Sums(f)
  <2> HIDE DEF Sums, size
  <2> QED BY <1>3
<1> HIDE DEF f, size
<1>6. \A s \in SUBSET T : f[s] = IF s = {} THEN 0 ELSE LET x == One(s) IN count[x] + f[s \ {x}]
  <2> HIDE DEF One
  <2> QED BY <1>5
<1> HIDE DEF Sums, Part, One
<1> DEFINE N == {n \in Nat : \E s \in SUBSET T : Cardinality(s) = n /\ f[s] # Cardinality(Part(s))}
<1>7. N = {}
  <2>1. SUFFICES ASSUME N # {} PROVE FALSE
    OBVIOUS
  <2>2. PICK n \in N : \A m \in N : n <= m
    <3>1. N \subseteq Nat
      OBVIOUS
    <3> HIDE DEF N
    <3> QED BY <2>1, <3>1, Least
  <2>3. PICK s \in SUBSET T : Cardinality(s) = n /\ f[s] # Cardinality(Part(s))
    OBVIOUS
  <2>4. s # {}
    BY <1>2, <1>6, <2>3
  <2>5. /\ One(s) \in s /\ s \ {One(s)} \in SUBSET T
        /\ Cardinality(Part(s)) = count[One(s)] + Cardinality(Part(s \ {One(s)}))
    BY <1>1, <2>4
  <2>6. f[s] = count[One(s)] + f[s \ {One(s)}]
    BY <1>6, <2>4
  <2>7. f[s \ {One(s)}] # Cardinality(Part(s \ {One(s)}))
    BY <2>3, <2>5, <2>6
  <2>8. IsFiniteSet(s)
    BY FS_Subset
  <2>9. Cardinality(s \ {One(s)}) = n - 1 /\ Cardinality(s \ {One(s)}) \in Nat
    BY <2>3, <2>5, <2>8, FS_RemoveElement, FS_CardinalityType
  <2>10. n - 1 \in N
    BY <2>5, <2>7, <2>9
  <2>11. n \in Nat
    OBVIOUS
  <2> HIDE DEF N
  <2> QED BY <2>2, <2>10, <2>11
<1>8. T \in SUBSET T /\ Cardinality(T) \in Nat
  BY FS_CardinalityType
<1> QED BY <1>4, <1>7, <1>8 DEF Part

\* Of finitely many values there are k none of which occurs less often than another.
LEMMA TopExists ==
  ASSUME NEW V, IsFiniteSet(V), NEW count \in [V -> Nat], NEW k \in 0 .. Cardinality(V)
  PROVE  \E top \in SUBSET V :
           /\ Cardinality(top) = k
           /\ \A v \in top, w \in V \ top : count[v] >= count[w]
<1> DEFINE Top(n, top) == /\ Cardinality(top) = n
                          /\ \A v \in top, w \in V \ top : count[v] >= count[w]
           T == {n \in 0 .. Cardinality(V) : ~\E top \in SUBSET V : Top(n, top)}
<1>0. Cardinality(V) \in Nat
  BY FS_CardinalityType
<1>1. SUFFICES ASSUME T # {} PROVE FALSE
  OBVIOUS
<1>2. PICK n \in 0 .. Cardinality(V) :
         /\ ~\E top \in SUBSET V : Top(n, top)
         /\ \A m \in 0 .. Cardinality(V) : m < n => \E top \in SUBSET V : Top(m, top)
  <2>1. PICK n \in T : \A m \in T : n <= m
    <3>1. T \subseteq Nat
      BY <1>0
    <3> HIDE DEF T
    <3> QED BY <1>1, <3>1, Least
  <2>2. \A m \in 0 .. Cardinality(V) : m < n => m \notin T
    <3>1. n \in Nat
      BY <1>0
    <3> HIDE DEF T
    <3> QED BY <1>0, <2>1, <3>1
  <2> QED BY <2>1, <2>2
<1> HIDE DEF T
<1>3. n # 0
  <2>1. Top(0, {}) /\ {} \in SUBSET V
    BY FS_EmptySet
  <2> HIDE DEF Top
  <2> QED BY <1>2, <2>1
<1>4. n - 1 \in 0 .. Cardinality(V) /\ n - 1 < n /\ n \in Nat
  BY <1>0, <1>3
<1>5. PICK top \in SUBSET V : Top(n - 1, top)
  BY <1>2, <1>4
<1>6. IsFiniteSet(top) /\ IsFiniteSet(V \ top)
  BY FS_Subset
<1>7. V \ top # {}
  <2>1. SUFFICES ASSUME V = top PROVE FALSE
    OBVIOUS
  <2>2. Cardinality(V) = n - 1
    BY <1>5, <2>1
  <2> QED BY <1>0, <1>4, <2>2
<1>8. PICK x \in V \ top : \A w \in V \ top : count[w] <= count[x]
  <2> DEFINE c == [w \in V \ top |-> count[w]]
  <2>1. c \in [V \ top -> Nat]
    OBVIOUS
  <2>2. \E x \in V \ top : \A w \in V \ top : c[w] <= c[x]
    <3> HIDE DEF c
    <3> QED BY <1>6, <1>7, <2>1, Greatest
  <2> QED BY <2>2
<1>9. Cardinality(top \cup {x}) = n /\ top \cup {x} \in SUBSET V
  <2>1. Cardinality(top) = n - 1
    BY <1>5
  <2>2. Cardinality(top \cup {x}) = Cardinality(top) + 1
    BY <1>6, <1>8, FS_AddElement
  <2> QED BY <1>4, <1>8, <2>1, <2>2
<1>10. \A v \in top \cup {x}, w \in V \ (top \cup {x}) : count[v] >= count[w]
  <2>1. \A v \in top, w \in V \ top : count[v] >= count[w]
    BY <1>5
  <2>2. \A v \in V : count[v] \in Nat
    OBVIOUS
  <2> QED BY <1>8, <2>1, <2>2
<1>11. Top(n, top \cup {x})
  BY <1>9, <1>10
<1> HIDE DEF Top
<1> QED BY <1>2, <1>9, <1>11

\* A cell has finitely many values.
LEMMA MembershipsFinite ==
  ASSUME NEW row, NEW column, IsValue(row.cells[column.id])
  PROVE  IsFiniteSet(Memberships(column, row))
<1> DEFINE value == row.cells[column.id]
<1>1. CASE value[1] # "list"
  <2>1. Memberships(column, row) = {value}
    BY <1>1 DEF Memberships
  <2> QED BY <2>1, FS_Singleton
<1>2. CASE value[1] = "list" /\ value[2] = <<>>
  <2>1. Memberships(column, row) = {Nothing}
    BY <1>2 DEF Memberships
  <2> QED BY <2>1, FS_Singleton
<1>3. CASE value[1] = "list" /\ value[2] # <<>>
  <2> DEFINE ids == Range(value[2])
             asOption == [id \in ids |-> <<"option", id>>]
             options == {<<"option", id>> : id \in ids}
  <2>1. Memberships(column, row) = options
    BY <1>3 DEF Memberships
  <2>2. value[2] \in Seq(ids)
    <3>1. \/ value = Nothing
          \/ value[1] \in {"option", "number", "label"}
          \/ value[2] \in Seq(Range(value[2]))
      BY DEF IsValue
    <3>2. value # Nothing
      BY <1>3 DEF Nothing
    <3> QED BY <1>3, <3>1, <3>2
  <2>3. IsFiniteSet(ids)
    BY <2>2, RangeFinite
  <2> HIDE DEF ids
  <2>4. asOption \in Surjection(ids, options)
    BY DEF Surjection
  <2> QED BY <2>1, <2>3, <2>4, FS_Surjection
<1> QED BY <1>1, <1>2, <1>3

\* The rows have finitely many values.
LEMMA ValuesFinite ==
  ASSUME NEW W \in Seq(AllRows), NEW column,
         \A row \in AllRows : IsValue(row.cells[column.id])
  PROVE  IsFiniteSet(UNION {Memberships(column, W[i]) : i \in DOMAIN W})
<1> DEFINE f    == [i \in DOMAIN W |-> Memberships(column, W[i])]
           sets == {Memberships(column, W[i]) : i \in DOMAIN W}
<1>1. DOMAIN W = 1 .. Len(W) /\ Len(W) \in Nat
  OBVIOUS
<1>2. IsFiniteSet(DOMAIN W)
  BY <1>1, FS_Interval
<1>3. f \in Surjection(DOMAIN W, sets)
  BY DEF Surjection
<1>4. IsFiniteSet(sets)
  BY <1>2, <1>3, FS_Surjection
<1>5. ASSUME NEW i \in DOMAIN W PROVE IsFiniteSet(Memberships(column, W[i]))
  <2>1. W[i] \in AllRows
    BY <1>1
  <2> QED BY <2>1, MembershipsFinite
<1>6. \A s \in sets : IsFiniteSet(s)
  BY <1>5
<1> HIDE DEF sets
<1>7. IsFiniteSet(UNION sets)
  BY <1>4, <1>6, FS_UNION
<1> QED BY <1>7 DEF sets

\* A distribution counts all there is.
LEMMA DistributionWhole ==
  ASSUME MaxBuckets \in Nat, NEW W \in Seq(AllRows), NEW column,
         \A row \in AllRows : IsValue(row.cells[column.id])
  PROVE  CountsWhole(W, column, Distribution(W, column))
<1> DEFINE M(i)   == Memberships(column, W[i])
           values == UNION {M(i) : i \in DOMAIN W}
           Rows(v) == {i \in DOMAIN W : v \in M(i)}
           count  == [v \in values |-> Cardinality(Rows(v))]
           k      == Min({MaxBuckets, Cardinality(values)})
           Top(top) == /\ Cardinality(top) = k
                       /\ \A v \in top, w \in values \ top : count[v] >= count[w]
           shown  == CHOOSE top \in SUBSET values : Top(top)
           buckets == [v \in shown |-> count[v]]
           pairs  == MembershipPairs(W, column)
           Pairs(v) == {pair \in pairs : pair[2] = v}
           d      == Distribution(W, column)
<1>1. d.buckets = buckets /\ d.omitted = SumFunctionOnSet(count, values \ shown)
  BY DEF Distribution
<1> HIDE DEF d
<1>2. IsFiniteSet(values)
  BY ValuesFinite
<1>3. DOMAIN W = 1 .. Len(W) /\ Len(W) \in Nat /\ IsFiniteSet(DOMAIN W)
  BY FS_Interval
<1>4. pairs = UNION {{<<i, value>> : value \in M(i)} : i \in DOMAIN W}
  BY DEF MembershipPairs
<1> HIDE DEF M, pairs
<1>0. PICK D : D = DOMAIN W /\ IsFiniteSet(D)
  BY <1>3
<1>5. pairs \subseteq D \X values /\ {pair[2] : pair \in pairs} = values
  <2>1. \A p \in pairs : \E i \in DOMAIN W : \E v \in M(i) : p = <<i, v>>
    BY <1>4
  <2>2. \A i \in DOMAIN W : \A v \in M(i) : <<i, v>> \in pairs
    BY <1>4
  <2>3. \A v : v \in values <=> \E i \in DOMAIN W : v \in M(i)
    OBVIOUS
  <2> HIDE DEF values
  <2>4. ASSUME NEW p \in pairs PROVE p \in D \X values /\ p[2] \in values
    <3>1. PICK i \in DOMAIN W : \E v \in M(i) : p = <<i, v>>
      BY <2>1
    <3>2. PICK v \in M(i) : p = <<i, v>>
      BY <3>1
    <3>3. i \in D /\ v \in values
      BY <1>0, <2>3
    <3>4. <<i, v>> \in D \X values /\ <<i, v>>[2] = v
      BY <3>3
    <3> QED BY <3>2, <3>3, <3>4
  <2>5. ASSUME NEW v \in values PROVE \E p \in pairs : p[2] = v
    <3>1. PICK i \in DOMAIN W : v \in M(i)
      BY <2>3
    <3>2. <<i, v>> \in pairs /\ <<i, v>>[2] = v
      BY <2>2, <3>1
    <3> QED BY <3>2
  <2>6. \A p \in pairs : p \in D \X values /\ p[2] \in values
    BY <2>4
  <2>7. \A v \in values : \E p \in pairs : p[2] = v
    BY <2>5
  <2> QED BY <2>6, <2>7
<1>6. IsFiniteSet(pairs)
  <2> HIDE DEF values
  <2>1. IsFiniteSet(D \X values)
    BY <1>0, <1>2, FS_Product
  <2> QED BY <1>5, <2>1, FS_Subset
<1>7. ASSUME NEW v \in values
      PROVE  count[v] \in Nat /\ count[v] = Cardinality(Pairs(v))
  <2> DEFINE g == [i \in Rows(v) |-> <<i, v>>]
  <2>1. count[v] = Cardinality(Rows(v)) /\ IsFiniteSet(Rows(v))
    BY <1>3, FS_Subset
  <2>2. \A p : p \in Pairs(v) <=> \E i \in Rows(v) : p = <<i, v>>
    BY <1>4
  <2> HIDE DEF Rows, Pairs
  <2>3. g \in [Rows(v) -> Pairs(v)] /\ (\A t \in Pairs(v) : \E i \in Rows(v) : g[i] = t)
        /\ \A a, b \in Rows(v) : g[a] = g[b] => a = b
    BY <2>2
  <2> HIDE DEF g
  <2>4. g \in Bijection(Rows(v), Pairs(v))
    BY <2>3, Fun_IsBij
  <2>5. ExistsBijection(Rows(v), Pairs(v))
    BY <2>4 DEF ExistsBijection
  <2> HIDE DEF count
  <2> QED BY <2>1, <2>5, FS_Bijection, FS_CardinalityType
<1>8. count \in [values -> Nat]
  <2>1. \A v \in values : count[v] \in Nat
    BY <1>7
  <2>2. count = [v \in values |-> count[v]]
    OBVIOUS
  <2> HIDE DEF values, count
  <2> QED BY <2>1, <2>2
<1> HIDE DEF values, count, Pairs, Rows
<1>9. shown \in SUBSET values /\ Top(shown)
  <2>1. Cardinality(values) \in Nat
    BY <1>2, FS_CardinalityType
  <2>2. k = IF MaxBuckets <= Cardinality(values) THEN MaxBuckets ELSE Cardinality(values)
    BY <2>1, MinOfTwo
  <2> HIDE DEF k
  <2>3. k \in 0 .. Cardinality(values)
    BY <2>1, <2>2
  <2>4. \E top \in SUBSET values : Top(top)
    BY <1>2, <1>8, <2>3, TopExists
  <2> HIDE DEF Top
  <2> QED BY <2>4
<1> HIDE DEF shown
<1>10. IsFiniteSet(shown) /\ IsFiniteSet(values \ shown)
  BY <1>2, <1>9, FS_Subset
<1>11. d.omitted = Cardinality({p \in pairs : p[2] \in values \ shown})
  <2>1. \A v \in values \ shown : count[v] = Cardinality({p \in pairs : p[2] = v})
    BY <1>7 DEF Pairs
  <2> QED BY <1>1, <1>6, <1>10, <2>1, SumOfSizes
<1>12. SumFunction(buckets) = Cardinality({p \in pairs : p[2] \in shown})
  <2>1. \A v \in shown : buckets[v] = Cardinality({p \in pairs : p[2] = v})
    BY <1>7, <1>9 DEF Pairs
  <2>2. DOMAIN buckets = shown
    OBVIOUS
  <2> HIDE DEF buckets
  <2> QED BY <1>6, <1>10, <2>1, <2>2, SumOfSizes DEF SumFunction
<1>13. Cardinality(pairs) = d.omitted + SumFunction(d.buckets)
  <2> DEFINE A == {p \in pairs : p[2] \in values \ shown}
             B == {p \in pairs : p[2] \in shown}
  <2>1. pairs = A \cup B /\ A \cap B = {} /\ A \in SUBSET pairs /\ B \in SUBSET pairs
    BY <1>5
  <2>2. d.omitted = Cardinality(A) /\ SumFunction(d.buckets) = Cardinality(B)
    BY <1>1, <1>11, <1>12
  <2> HIDE DEF A, B
  <2>3. IsFiniteSet(A) /\ IsFiniteSet(B)
    BY <1>6, <2>1, FS_Subset
  <2>4. Cardinality(A) \in Nat /\ Cardinality(B) \in Nat
    BY <2>3, FS_CardinalityType
  <2>5. Cardinality(pairs) = Cardinality(A) + Cardinality(B) - Cardinality({})
    BY <2>1, <2>3, FS_Union
  <2> QED BY <2>2, <2>4, <2>5, FS_EmptySet
<1>14. DOMAIN d.buckets = shown /\ \A v \in shown : d.buckets[v] = count[v]
  BY <1>1
<1>15. {pair[2] : pair \in pairs} \ DOMAIN d.buckets = values \ shown
  BY <1>5, <1>14
<1>16. ASSUME NEW v \in DOMAIN d.buckets
       PROVE  /\ d.buckets[v] = Cardinality(Pairs(v))
              /\ \A w \in values \ shown : Cardinality(Pairs(w)) <= d.buckets[v]
  <2>1. v \in shown /\ v \in values /\ d.buckets[v] = count[v]
    BY <1>9, <1>14
  <2>2. \A w \in values \ shown : count[v] >= count[w]
    BY <1>9, <2>1
  <2>3. \A w \in values : count[w] \in Nat /\ count[w] = Cardinality(Pairs(w))
    BY <1>7
  <2> QED BY <2>1, <2>2, <2>3
<1>17. CountsWhole(W, column, d)
  <2> DEFINE left == {pair[2] : pair \in pairs} \ DOMAIN d.buckets
  <2>1. \A v \in DOMAIN d.buckets :
           /\ d.buckets[v] = Cardinality({pair \in pairs : pair[2] = v})
           /\ \A w \in left : Cardinality({pair \in pairs : pair[2] = w}) <= d.buckets[v]
    BY <1>15, <1>16 DEF Pairs
  <2> HIDE DEF left
  <2> QED BY <1>13, <2>1 DEF CountsWhole, left, pairs
<1> QED BY <1>17 DEF d

\* What a scan counts is whole, however many values, rows and groups there are.
THEOREM CountsAreWholeHolds == WellFormed => (ReadSpec => []CountsAreWhole)
<1> SUFFICES ASSUME WellFormed PROVE ReadSpec => []CountsAreWhole
  OBVIOUS
<1>1. ReadInv => CountsAreWhole
  <2>1. SUFFICES ASSUME ReadInv, readPhase = "stats"
                 PROVE  /\ Cardinality(Range(Ids(scanned))) = Len(scanned)
                        /\ moved = 0 => scanned = rows
                        /\ DOMAIN stats = DOMAIN ask.groupBy
                        /\ \A i \in DOMAIN stats :
                             CountsWhole(WantedOf(scanned),
                                         Meant(ColumnsAsked(ask), ask.groupBy[i]), stats[i])
    BY DEF CountsAreWhole
  <2>2. /\ scanned \in Seq(AllRows) /\ IsInjective(Ids(scanned))
        /\ ask \in Asked /\ ValidSchema /\ ValidRequest(ask)
        /\ stats = Distributions(ask, WantedOf(scanned))
        /\ moved = 0 => scanned = rows
    BY <2>1 DEF ReadInv
  <2>3. Cardinality(Range(Ids(scanned))) = Len(scanned)
    <3> DEFINE ids == Ids(scanned)
               S   == 1 .. Len(scanned)
    <3>1. Len(scanned) \in Nat /\ DOMAIN scanned = S
      BY <2>2
    <3>2. IsFiniteSet(S) /\ Cardinality(S) = Len(scanned)
      <4>1. \A n \in Nat : IsFiniteSet(1 .. n) /\ Cardinality(1 .. n) = n
        BY FS_Interval
      <4> QED BY <3>1, <4>1
    <3>3. ids \in [S -> Range(ids)] /\ (\A t \in Range(ids) : \E i \in S : ids[i] = t)
          /\ \A a, b \in S : ids[a] = ids[b] => a = b
      BY <2>2, <3>1 DEF Ids, Range, IsInjective
    <3> HIDE DEF ids, S
    <3>4. ids \in Bijection(S, Range(ids))
      BY <3>3, Fun_IsBij
    <3>5. ExistsBijection(S, Range(ids))
      BY <3>4 DEF ExistsBijection
    <3> QED BY <3>2, <3>5, FS_Bijection DEF ids
  <2>4. DOMAIN stats = DOMAIN ask.groupBy
    BY <2>2 DEF Distributions
  <2>5. ASSUME NEW i \in DOMAIN ask.groupBy
        PROVE  CountsWhole(WantedOf(scanned), Meant(ColumnsAsked(ask), ask.groupBy[i]), stats[i])
    <3> DEFINE C == ColumnsAsked(ask)
               column == Meant(C, ask.groupBy[i])
    <3>1. C \in Seq(Range(C)) /\ \E sheet \in Range(Sheets) : C = sheet.columns
      BY <2>2, ColumnsAre
    <3>2. Clear(C, ask.groupBy[i])
      <4>1. IsRequest(ask)
        BY <2>2 DEF WellFormed
      <4>2. Groups(ask)
        BY <4>1 DEF IsRequest, Groups
      <4> QED BY <2>2, <4>2 DEF ValidRequest, ValidFields
    <3>3. column \in Range(C)
      BY <3>1, <3>2, OneColumn
    <3> HIDE DEF C
    <3>4. \A row \in AllRows : IsValue(row.cells[column.id])
      <4> HIDE DEF column
      <4> QED BY <3>1, <3>3, RowsAre DEF IsRow
    <3>5. stats[i] = Distribution(WantedOf(scanned), column)
      BY <2>2 DEF Distributions, C
    <3>6. WantedOf(scanned) \in Seq(AllRows) /\ MaxBuckets \in Nat
      BY <2>2, WantedSeq DEF WellFormed
    <3> HIDE DEF column
    <3>7. CountsWhole(WantedOf(scanned), column, Distribution(WantedOf(scanned), column))
      BY <3>4, <3>6, DistributionWhole
    <3> QED BY <3>5, <3>7 DEF column, C
  <2> QED BY <2>2, <2>3, <2>4, <2>5
<1> QED BY <1>1, ReadInvHolds, PTL
=============================================================================
