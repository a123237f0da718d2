------------------------- MODULE ObjectChangeProofs -------------------------
(***************************************************************************)
(* The safety properties of ObjectChange, proved for every set of changes, *)
(* objects, values and edits.                                              *)
(*                                                                         *)
(* IInv says, besides the types, what an operation looks like in each      *)
(* family, that a confirm owns its lock from Confirm to its end, that the  *)
(* object a creation numbers is nobody else's, and for each property what  *)
(* the change has to carry from one read to the next.                      *)
(***************************************************************************)
EXTENDS ObjectChange, TLAPS

-----------------------------------------------------------------------------
(* The inductive invariant.                                                *)

Kind    == {"create", "create_sheet", "update", "delete"}
Verdict == {"none", "succeeded", "unknown", "failed", "conflict", "partial"}
Key     == Object \cup Family
Op      == [kind : Kind \cup {"none"}, obj : Object \cup {Nobody}, val : Value \cup {Absent},
            key : Key \cup {Nobody}]

Reading == {"reconciling", "locating", "verifying", "rereading", "initializing"}
Inside  == {"rechecking", "preparing", "sending"} \cup Reading
Before  == {"new", "previewed", "rechecking", "preparing", "sending"}
Step    == {"new", "previewed", "done"} \cup Inside

Typed ==
    /\ family \in Family /\ world \in World /\ edits \in 0 .. MaxEdits
    /\ filled \in SUBSET Change /\ late \in SUBSET Change
    /\ op \in [Change -> Op] /\ base \in [Change -> World] /\ seen \in [Change -> World]
    /\ snap \in [Change -> Value \cup {Absent}]
    /\ holder \in [Key -> Change \cup {Nobody}]
    /\ pc \in [Change -> Step] /\ tries \in [Change -> 0 .. 2]
    /\ made \in [Change -> Object \cup {Nobody}] /\ gone \in [Change -> BOOLEAN]
    /\ verdict \in [Change -> Verdict]
    /\ sent \in SUBSET Change /\ unanswered \in SUBSET Change /\ hit \in SUBSET Change
    /\ echo \in SUBSET Change /\ calm \in SUBSET Change /\ lost \in SUBSET Change

\* What change c may be about, in family f.
Fits(c, o, f) ==
    /\ o \in Op /\ o.kind \in Kind /\ o.obj \in Object /\ o.val \in Value
    /\ \/ f = "book" /\ o.kind = "create" /\ o.obj = c /\ o.key = f
       \/ f = "book" /\ o.kind \in {"update", "delete"} /\ o.obj \in Old /\ o.key = o.obj
       \/ f = "document" /\ o.kind \in {"create", "create_sheet"} /\ o.obj = c /\ o.key = c
       \/ f = "document" /\ o.kind = "delete" /\ o.obj \in Old /\ o.key = o.obj
       \/ f = "collaborator" /\ o.kind # "create_sheet" /\ o.obj \in Old /\ o.key = f
       \/ f = "comment" /\ o.kind = "create" /\ o.obj = c /\ o.key = f
       \/ f = "comment" /\ o.kind \in {"update", "delete"} /\ o.obj \in Old /\ o.key = f

Shaped == \A c \in Change : IF pc[c] = "new" THEN op[c] = NoOp ELSE Fits(c, op[c], family)

\* Requests and their history belong to changes that came that far.
Ordered ==
    /\ hit \subseteq sent /\ late \subseteq unanswered /\ unanswered \subseteq sent
    /\ \A c \in Change : pc[c] \in Before => c \notin sent

Locked == \A c \in Change : pc[c] \in Inside => holder[op[c].key] = c

\* Nobody else writes the object that a change numbers.
Own == \A c \in Change : base[c][c] = Absent /\ (c \notin hit => world[c] = Absent)

Accounted(c) == c \in hit \cup echo

Effective == \A c \in Change : pc[c] \in Reading \cup {"sending"} /\ Effect(c, world) => Accounted(c)

Taken ==
    \A c \in Change : pc[c] \in Reading =>
        IF Is(c, "book", "create") THEN made[c] \in Object ELSE made[c] = op[c].obj

Believed ==
    \A c \in Change :
        pc[c] = "initializing" \/ (pc[c] = "rereading" /\ gone[c]) \/ Ended(c, "succeeded")
            => Accounted(c)

Saved ==
    \A c \in Change : Is(c, "document", "delete") =>
        /\ pc[c] = "preparing" => snap[c] # Absent /\ snap[c] = base[c][op[c].obj]
        /\ pc[c] = "sending" \/ c \in sent => snap[c] # Absent /\ snap[c] = seen[c][op[c].obj]

Quiet == lost = {} /\ \A c \in calm : pc[c] = "sending" => Previewed(c)

NewBook(c) == pc[c] # "new" /\ Is(c, "book", "create")

Single ==
    edits = 0 =>
        /\ \A c \in hit : NewBook(c) => world[c] = op[c].val
        /\ \A c \in hit \ unanswered, d \in Change :
            c # d /\ NewBook(c) /\ NewBook(d) /\ pc[d] = "sending" => op[c].val # op[d].val

IInv ==
    /\ Typed /\ Shaped /\ Ordered /\ Locked /\ Own
    /\ ConflictSentNothing /\ Effective /\ Taken /\ Believed /\ Saved /\ Quiet
    /\ Single /\ NoTwinBooks

-----------------------------------------------------------------------------
(* Facts about operations.                                                 *)

\* A change writes an object of others or the one it numbers itself.
LEMMA FitsFacts ==
    ASSUME family \in Family, NEW c \in Change, NEW o, Fits(c, o, family)
    PROVE  /\ o \in Op /\ o.kind \in Kind /\ o.val \in Value
           /\ o.obj \in Object /\ o.obj \in Old \cup {c} /\ o.key \in Key
           /\ o.kind \in {"create", "create_sheet"} /\ family # "collaborator" => o.obj = c
           /\ o.kind \notin {"create", "create_sheet"} => o.obj \in Old
  BY ObjectAssumption DEF Fits, Kind, Key, Object, Op

\* The operation of a change that was previewed.
LEMMA OpFacts ==
    ASSUME Typed, Shaped, NEW c \in Change, pc[c] # "new"
    PROVE  /\ Fits(c, op[c], family)
           /\ op[c] \in Op /\ op[c].kind \in Kind /\ op[c].val \in Value /\ op[c].val # Absent
           /\ op[c].obj \in Object /\ op[c].obj \in Old \cup {c} /\ op[c].key \in Key
           /\ Creates(c) /\ family # "collaborator" => op[c].obj = c
           /\ ~Creates(c) => op[c].obj \in Old
           /\ Goal(c) \in Value \cup {Absent} /\ Applied(c) \in World
  <1>1. Fits(c, op[c], family)
    BY DEF Shaped
  <1>2. /\ op[c] \in Op /\ op[c].kind \in Kind /\ op[c].val \in Value
        /\ op[c].obj \in Object /\ op[c].obj \in Old \cup {c} /\ op[c].key \in Key
        /\ Creates(c) /\ family # "collaborator" => op[c].obj = c
        /\ ~Creates(c) => op[c].obj \in Old
    BY <1>1, FitsFacts DEF Typed, Creates
  <1>3. Goal(c) \in Value \cup {Absent}
    BY <1>2 DEF Goal
  <1>4. Applied(c) \in World
    BY <1>2, <1>3 DEF Applied, World, Typed
  <1> QED BY <1>1, <1>2, <1>3, <1>4, NamesAssumption

\* Two changes of one object have one lock; none writes what another numbers.
LEMMA TwoChanges ==
    ASSUME family \in Family, NEW c \in Change, NEW d \in Change, c # d,
           NEW o, NEW p, Fits(c, o, family), Fits(d, p, family)
    PROVE  /\ o.obj # d
           /\ o.obj = p.obj => o.key = p.key
           /\ family \in {"collaborator", "comment"} => o.key = p.key
           /\ family = "book" /\ o.kind = "create" /\ p.kind = "create" => o.key = p.key
  BY ObjectAssumption DEF Fits, Kind, Op, Object

\* What is known of a change whose request was sent, or is on its way.
LEMMA SentFacts ==
    ASSUME Typed, Shaped, Ordered, NEW c \in sent
    PROVE  c \in Change /\ pc[c] # "new" /\ pc[c] \notin Before
  BY DEF Typed, Ordered, Before

-----------------------------------------------------------------------------
(* The shapes of steps: what all steps of a kind have in common.           *)

PreviewShape(c) ==
    \E o \in Op :
        /\ pc[c] = "new" /\ Fits(c, o, family)
        /\ op' = [op EXCEPT ![c] = o]
        /\ base' = [base EXCEPT ![c] = world]
        /\ pc' = [pc EXCEPT ![c] = "previewed"]
        /\ UNCHANGED <<holder, verdict, seen, snap, tries, made, gone>> /\ ReadOnly

RecheckShape(c) ==
    /\ pc[c] = "rechecking"
    /\ UNCHANGED <<op, base, seen, tries, made, gone>> /\ ReadOnly
    /\ \/ /\ Possible(op[c], world) /\ SameBaseline(c)
          /\ pc' = [pc EXCEPT ![c] = "preparing"]
          /\ snap' = IF family = "document" THEN [snap EXCEPT ![c] = Target(c)] ELSE snap
          /\ UNCHANGED <<holder, verdict>>
       \/ /\ \E v \in {"conflict", "failed", "unknown"} : End(c, v)
          /\ UNCHANGED snap

PrepareShape(c) ==
    /\ pc[c] = "preparing"
    /\ seen' = [seen EXCEPT ![c] = world]
    /\ calm' = calm \cup {c}
    /\ UNCHANGED <<op, base, snap, tries, made, gone, family, world, filled, edits, late,
                   sent, unanswered, hit, echo, lost>>
    /\ \/ /\ Possible(op[c], world) /\ SameBaseline(c)
          /\ pc' = [pc EXCEPT ![c] = "sending"]
          /\ UNCHANGED <<holder, verdict>>
       \/ \E v \in {"failed", "unknown"} : End(c, v)

RequestShape(c) ==
    /\ pc[c] = "sending"
    /\ sent' = sent \cup {c}
    /\ made' = [made EXCEPT ![c] = op[c].obj]
    /\ echo' = Echoed(c)
    /\ UNCHANGED <<family, filled, edits, op, base, seen, snap, tries, gone, calm>>
    /\ \E reached \in BOOLEAN, delayed \in BOOLEAN, quiet \in BOOLEAN :
        /\ reached => Applies(c)
        /\ delayed => quiet /\ ~reached
        /\ world' = IF reached THEN Applied(c) ELSE world
        /\ hit' = IF reached THEN hit \cup {c} ELSE hit
        /\ late' = IF delayed THEN late \cup {c} ELSE late
        /\ unanswered' = IF quiet THEN unanswered \cup {c} ELSE unanswered
        /\ lost' = IF reached /\ c \in calm /\ ~Previewed(c) THEN lost \cup {c} ELSE lost
    /\ \/ /\ \E step \in {"reconciling", "locating", "verifying"} : pc' = [pc EXCEPT ![c] = step]
          /\ UNCHANGED <<holder, verdict>>
       \/ \E v \in {"failed", "unknown"} : End(c, v)

SettleShape(c) ==
    /\ pc[c] \in Reading
    /\ UNCHANGED <<family, world, edits, late, op, base, seen, snap, history>>
    /\ filled' \in SUBSET Change
    /\ tries' \in [Change -> 0 .. 2]
    /\ gone' \in [Change -> BOOLEAN]
    /\ \/ made' = made
       \/ Is(c, "book", "create") /\ \E o \in Object : made' = [made EXCEPT ![c] = o]
    /\ \/ /\ \E step \in Reading :
                /\ pc' = [pc EXCEPT ![c] = step]
                /\ step = "initializing" \/ (step = "rereading" /\ gone'[c]) => Effect(c, world)
          /\ \A d \in Change \ {c} : gone'[d] = gone[d]
          /\ UNCHANGED <<holder, verdict>>
       \/ /\ \E v \in {"succeeded", "failed", "unknown", "partial"} :
                /\ End(c, v)
                /\ v = "succeeded" => Effect(c, world) \/ pc[c] = "initializing"
                                        \/ (pc[c] = "rereading" /\ gone[c])
          /\ gone' = gone

Shape(c) ==
    \/ PreviewShape(c) \/ Confirm(c) \/ RecheckShape(c) \/ PrepareShape(c)
    \/ RequestShape(c) \/ Land(c) \/ SettleShape(c)

LEMMA PreviewIsShape ==
    ASSUME Typed, NEW c \in Change, PreviewAny(c)
    PROVE  PreviewShape(c)
  <1>0. family \in Family /\ Family \subseteq {"book", "document", "collaborator", "comment"}
    BY ObjectAssumption DEF Typed
  <1>1. ASSUME NEW kind \in Kind, NEW obj \in Object, NEW val \in Value, NEW key \in Key,
               Fits(c, [kind |-> kind, obj |-> obj, val |-> val, key |-> key], family),
               Preview(c, kind, obj, val, key)
        PROVE  PreviewShape(c)
    <2> DEFINE o == [kind |-> kind, obj |-> obj, val |-> val, key |-> key]
    <2>1. o \in Op
      BY DEF Op
    <2> QED BY <1>1, <2>1 DEF Preview, PreviewShape, Goto
  <1>2. CASE PreviewCreateBook(c)
    <2>1. PICK v \in Value : Preview(c, "create", c, v, "book")
      BY <1>2 DEF PreviewCreateBook
    <2>2. Fits(c, [kind |-> "create", obj |-> c, val |-> v, key |-> "book"], family)
      BY <1>0, <1>2 DEF Fits, Op, Kind, Object, Key, PreviewCreateBook
    <2> QED BY <1>0, <1>1, <1>2, <2>1, <2>2 DEF Kind, Object, Key, PreviewCreateBook
  <1>3. CASE PreviewUpdateBook(c)
    <2>1. PICK o \in Old, v \in Value : Preview(c, "update", o, v, o)
      BY <1>3 DEF PreviewUpdateBook
    <2>2. Fits(c, [kind |-> "update", obj |-> o, val |-> v, key |-> o], family)
      BY <1>0, <1>3 DEF Fits, Op, Kind, Object, Key, PreviewUpdateBook
    <2> QED BY <1>0, <1>1, <1>3, <2>1, <2>2 DEF Kind, Object, Key
  <1>4. CASE PreviewDeleteBook(c)
    <2>1. PICK o \in Old : Preview(c, "delete", o, First, o)
      BY <1>4 DEF PreviewDeleteBook
    <2>2. Fits(c, [kind |-> "delete", obj |-> o, val |-> First, key |-> o], family)
      BY <1>0, <1>4, ObjectAssumption DEF Fits, Op, Kind, Object, Key, PreviewDeleteBook
    <2> QED BY <1>0, <1>1, <1>4, <2>1, <2>2, ObjectAssumption DEF Kind, Object, Key
  <1>5. CASE PreviewCreateDoc(c)
    <2>1. PICK v \in Value : Preview(c, "create", c, v, c)
      BY <1>5 DEF PreviewCreateDoc
    <2>2. Fits(c, [kind |-> "create", obj |-> c, val |-> v, key |-> c], family)
      BY <1>0, <1>5 DEF Fits, Op, Kind, Object, Key, PreviewCreateDoc
    <2> QED BY <1>0, <1>1, <1>5, <2>1, <2>2 DEF Kind, Object, Key
  <1>6. CASE PreviewCreateSheet(c)
    <2>1. PICK v \in Value : Preview(c, "create_sheet", c, v, c)
      BY <1>6 DEF PreviewCreateSheet
    <2>2. Fits(c, [kind |-> "create_sheet", obj |-> c, val |-> v, key |-> c], family)
      BY <1>0, <1>6 DEF Fits, Op, Kind, Object, Key, PreviewCreateSheet
    <2> QED BY <1>0, <1>1, <1>6, <2>1, <2>2 DEF Kind, Object, Key
  <1>7. CASE PreviewDeleteObject(c)
    <2>1. PICK o \in Old : Preview(c, "delete", o, First, o)
      BY <1>7 DEF PreviewDeleteObject
    <2>2. Fits(c, [kind |-> "delete", obj |-> o, val |-> First, key |-> o], family)
      BY <1>0, <1>7, ObjectAssumption DEF Fits, Op, Kind, Object, Key, PreviewDeleteObject
    <2> QED BY <1>0, <1>1, <1>7, <2>1, <2>2, ObjectAssumption DEF Kind, Object, Key
  <1>8. CASE PreviewMember(c)
    <2>1. PICK kind \in {"create", "update", "delete"}, o \in Old, v \in Value :
              Preview(c, kind, o, v, "collaborator")
      BY <1>8 DEF PreviewMember
    <2>2. Fits(c, [kind |-> kind, obj |-> o, val |-> v, key |-> "collaborator"], family)
      BY <1>0, <1>8 DEF Fits, Op, Kind, Object, Key, PreviewMember
    <2> QED BY <1>0, <1>1, <1>8, <2>1, <2>2 DEF Kind, Object, Key, PreviewMember
  <1>9. CASE PreviewComment(c)
    <2>1. PICK kind \in {"create", "update", "delete"}, o \in Old \cup {c}, v \in Value :
              (kind = "create" <=> o = c) /\ Preview(c, kind, o, v, "comment")
      BY <1>9 DEF PreviewComment
    <2>2. Fits(c, [kind |-> kind, obj |-> o, val |-> v, key |-> "comment"], family)
      BY <1>0, <1>9, <2>1 DEF Fits, Op, Kind, Object, Key, PreviewComment
    <2> QED BY <1>0, <1>1, <1>9, <2>1, <2>2 DEF Kind, Object, Key, PreviewComment
  <1> QED BY <1>2, <1>3, <1>4, <1>5, <1>6, <1>7, <1>8, <1>9, PreviewAny(c) DEF PreviewAny

LEMMA RecheckIsShape ==
    ASSUME Typed, NEW c \in Change, RecheckMember(c) \/ RecheckObject(c) \/ RecheckBook(c)
    PROVE  RecheckShape(c)
  <1>1. ASSUME NEW v, End(c, v)
        PROVE  pc'[c] = "done"
    BY <1>1 DEF End, Typed
  <1>2. ASSUME Goto(c, "preparing")
        PROVE  pc'[c] = "preparing"
    BY <1>2 DEF Goto, Typed
  <1>3. Recheck(c) /\ family \in Family
    BY DEF RecheckMember, RecheckObject, RecheckBook, Typed
  <1>4. snap' = IF family = "document" /\ pc'[c] = "preparing"
                THEN [snap EXCEPT ![c] = Target(c)] ELSE snap
    BY DEF RecheckMember, RecheckObject, RecheckBook
  <1>5. \/ Possible(op[c], world) /\ SameBaseline(c) /\ Goto(c, "preparing")
        \/ \E v \in {"conflict", "failed", "unknown"} : End(c, v)
    BY <1>3 DEF Recheck, Fails, Errors, Answer, Recorded
  <1>6. CASE Goto(c, "preparing") /\ Possible(op[c], world) /\ SameBaseline(c)
    BY <1>2, <1>3, <1>4, <1>6 DEF RecheckShape, Recheck, Goto
  <1>7. CASE \E v \in {"conflict", "failed", "unknown"} : End(c, v)
    BY <1>1, <1>3, <1>4, <1>7 DEF RecheckShape, Recheck
  <1> QED BY <1>5, <1>6, <1>7

LEMMA PrepareIsShape ==
    ASSUME NEW c \in Change, Prepare(c)
    PROVE  PrepareShape(c)
  BY DEF Prepare, PrepareShape, Goto, Fails, Errors, Answer, Recorded

LEMMA RequestIsShape ==
    ASSUME NEW c \in Change, NEW answered \in {"locating", "verifying"},
           NEW otherwise \in {"reconciling", "verifying", "unknown"},
           Request(c, answered, otherwise)
    PROVE  RequestShape(c)
  <1>1. PICK a \in Answer, reached \in BOOLEAN, delayed \in BOOLEAN :
            /\ reached => Applies(c)
            /\ delayed => a = "uncertain" /\ ~reached
            /\ world' = IF reached THEN Applied(c) ELSE world
            /\ hit' = IF reached THEN hit \cup {c} ELSE hit
            /\ late' = IF delayed THEN late \cup {c} ELSE late
            /\ unanswered' = IF a = "uncertain" THEN unanswered \cup {c} ELSE unanswered
            /\ lost' = IF reached /\ c \in calm /\ ~Previewed(c) THEN lost \cup {c} ELSE lost
            /\ echo' = Echoed(c)
            /\ \/ a = "ok" /\ Goto(c, answered)
               \/ a = "refused" /\ End(c, "failed")
               \/ /\ a = "uncertain"
                  /\ IF otherwise = "unknown" THEN End(c, "unknown") ELSE Goto(c, otherwise)
    BY DEF Request
  <1> DEFINE quiet == a = "uncertain"
  <1>2. \/ /\ \E step \in {"reconciling", "locating", "verifying"} : pc' = [pc EXCEPT ![c] = step]
           /\ UNCHANGED <<holder, verdict>>
        \/ \E v \in {"failed", "unknown"} : End(c, v)
    BY <1>1 DEF Goto
  <1>3. quiet \in BOOLEAN
    OBVIOUS
  <1>4. echo' = Echoed(c)
    BY <1>1
  <1>5. /\ pc[c] = "sending"
        /\ sent' = sent \cup {c}
        /\ made' = [made EXCEPT ![c] = op[c].obj]
        /\ UNCHANGED <<family, filled, edits, op, base, seen, snap, tries, gone, calm>>
    BY DEF Request
  <1>6. \E r \in BOOLEAN, d \in BOOLEAN, q \in BOOLEAN :
            /\ r => Applies(c)
            /\ d => q /\ ~r
            /\ world' = IF r THEN Applied(c) ELSE world
            /\ hit' = IF r THEN hit \cup {c} ELSE hit
            /\ late' = IF d THEN late \cup {c} ELSE late
            /\ unanswered' = IF q THEN unanswered \cup {c} ELSE unanswered
            /\ lost' = IF r /\ c \in calm /\ ~Previewed(c) THEN lost \cup {c} ELSE lost
    <2>1. /\ reached => Applies(c)
          /\ delayed => quiet /\ ~reached
          /\ world' = IF reached THEN Applied(c) ELSE world
          /\ hit' = IF reached THEN hit \cup {c} ELSE hit
          /\ late' = IF delayed THEN late \cup {c} ELSE late
          /\ unanswered' = IF quiet THEN unanswered \cup {c} ELSE unanswered
          /\ lost' = IF reached /\ c \in calm /\ ~Previewed(c) THEN lost \cup {c} ELSE lost
      BY <1>1
    <2> QED BY <2>1, <1>3
  <1> QED BY <1>2, <1>4, <1>5, <1>6 DEF RequestShape

LEMMA SendIsShape ==
    ASSUME NEW c \in Change, Send(c)
    PROVE  RequestShape(c)
  BY RequestIsShape DEF Send, CreateBook, UpdateBook, DeleteBook, CreateDoc, CreateSheet,
     DeleteObject, ChangeMember, ChangeComment

-----------------------------------------------------------------------------
(* The reads after the request.                                            *)

\* A step that goes on, or reads again.
LEMMA GoesOn ==
    ASSUME Typed, NEW c \in Change, pc[c] \in Reading, NEW step \in Reading, Goto(c, step),
           ReadOnly, UNCHANGED <<op, base, seen, snap, gone>>,
           step \notin {"initializing", "rereading"},
           tries' \in [Change -> 0 .. 2],
           made' = made \/ (Is(c, "book", "create") /\ \E o \in Object : made' = [made EXCEPT ![c] = o])
    PROVE  SettleShape(c)
  <1>1. gone' \in [Change -> BOOLEAN] /\ filled' \in SUBSET Change
    BY DEF ReadOnly, Typed
  <1> QED BY <1>1 DEF SettleShape, Goto, ReadOnly

\* A step that ends the confirm.
LEMMA EndsHere ==
    ASSUME Typed, NEW c \in Change, pc[c] \in Reading,
           NEW v \in {"succeeded", "failed", "unknown", "partial"}, End(c, v),
           ReadOnly, UNCHANGED <<op, base, seen, snap, tries, made, gone>>,
           v = "succeeded" => Effect(c, world) \/ (pc[c] = "rereading" /\ gone[c])
    PROVE  SettleShape(c)
  <1>1. /\ gone' \in [Change -> BOOLEAN] /\ filled' \in SUBSET Change
        /\ tries' \in [Change -> 0 .. 2]
    BY DEF ReadOnly, Typed
  <1> QED BY <1>1 DEF SettleShape, ReadOnly

LEMMA FailsHere ==
    ASSUME Typed, NEW c \in Change, pc[c] \in Reading, Fails(c),
           ReadOnly, UNCHANGED <<op, base, seen, snap, tries, made, gone>>
    PROVE  SettleShape(c)
  BY EndsHere DEF Fails, Errors, Answer, Recorded

LEMMA ReadsAgain ==
    ASSUME Typed, NEW c \in Change, pc[c] \in Reading \ {"initializing", "rereading"}, Again(c),
           ReadOnly, UNCHANGED <<op, base, seen, snap, made, gone>>
    PROVE  SettleShape(c)
  <1>1. tries' \in [Change -> 0 .. 2]
    BY DEF Again, Typed
  <1>2. Goto(c, pc[c])
    BY DEF Again
  <1> QED BY <1>1, <1>2, GoesOn

\* What a read-back sees is the change's effect.
LEMMA ReadsEffect ==
    ASSUME Typed, Shaped, Taken, NEW c \in Change, pc[c] \in Reading, ReadsBack(c)
    PROVE  Effect(c, world)
  <1>1. pc[c] # "new"
    BY DEF Reading
  <1>2. CASE Is(c, "book", "create")
    BY <1>2 DEF Taken, ReadsBack, Effect, Is, Goal, Removes
  <1>3. CASE ~Is(c, "book", "create")
    BY <1>3 DEF Taken, ReadsBack, Effect
  <1> QED BY <1>2, <1>3

\* A document that reads as it was created has its effect.
LEMMA TargetEffect ==
    ASSUME NEW c \in Change, family = "document", Creates(c), Target(c) = op[c].val
    PROVE  Effect(c, world)
  BY DEF Effect, Is, Goal, Removes, Creates, Target

LEMMA FindBookSettles ==
    ASSUME Typed, NEW c \in Change, FindBook(c)
    PROVE  SettleShape(c)
  <1> DEFINE named == {o \in Object : world[o] = op[c].val}
  <1>1. pc[c] \in Reading /\ pc[c] = "reconciling" /\ Is(c, "book", "create") /\ ReadOnly
        /\ UNCHANGED <<op, base, seen, snap, gone>>
    BY DEF FindBook, Reading
  <1>2. \/ /\ \E o \in Object : made' = [made EXCEPT ![c] = o]
           /\ tries' = [tries EXCEPT ![c] = 0]
           /\ Goto(c, "verifying")
        \/ \E v \in {"failed", "unknown"} : End(c, v) /\ UNCHANGED <<made, tries>>
        \/ Again(c) /\ UNCHANGED made
    BY DEF FindBook, Fails, Errors, Answer, Recorded
  <1>3. CASE /\ \E o \in Object : made' = [made EXCEPT ![c] = o]
             /\ tries' = [tries EXCEPT ![c] = 0]
             /\ Goto(c, "verifying")
    <2>1. tries' \in [Change -> 0 .. 2]
      BY <1>3 DEF Typed
    <2> QED BY <1>1, <1>3, <2>1, GoesOn DEF Reading
  <1>4. CASE \E v \in {"failed", "unknown"} : End(c, v) /\ UNCHANGED <<made, tries>>
    BY <1>1, <1>4, EndsHere
  <1>5. CASE Again(c) /\ UNCHANGED made
    BY <1>1, <1>5, ReadsAgain
  <1> QED BY <1>2, <1>3, <1>4, <1>5

LEMMA FindObjectSettles ==
    ASSUME Typed, NEW c \in Change, FindObject(c)
    PROVE  SettleShape(c)
  <1>1. pc[c] \in Reading /\ pc[c] = "reconciling" /\ ReadOnly
        /\ UNCHANGED <<op, base, seen, snap, made, gone>>
    BY DEF FindObject, Reading
  <1>2. \/ tries' = [tries EXCEPT ![c] = 0] /\ Goto(c, "locating")
        \/ \E v \in {"failed", "unknown"} : End(c, v) /\ UNCHANGED tries
        \/ Again(c)
    BY DEF FindObject, Fails, Errors, Answer, Recorded
  <1>3. CASE tries' = [tries EXCEPT ![c] = 0] /\ Goto(c, "locating")
    <2>1. tries' \in [Change -> 0 .. 2]
      BY <1>3 DEF Typed
    <2> QED BY <1>1, <1>3, <2>1, GoesOn DEF Reading
  <1>4. CASE \E v \in {"failed", "unknown"} : End(c, v) /\ UNCHANGED tries
    BY <1>1, <1>4, EndsHere
  <1>5. CASE Again(c)
    BY <1>1, <1>5, ReadsAgain
  <1> QED BY <1>2, <1>3, <1>4, <1>5

LEMMA FindUpdatedSettles ==
    ASSUME Typed, NEW c \in Change, FindUpdated(c)
    PROVE  SettleShape(c)
  <1>1. pc[c] \in Reading /\ pc[c] = "reconciling" /\ ReadOnly
        /\ UNCHANGED <<op, base, seen, snap, tries, made, gone>>
    BY DEF FindUpdated, Reading
  <1>2. tries' \in [Change -> 0 .. 2]
    BY <1>1 DEF Typed
  <1>3. Goto(c, "verifying") \/ \E v \in {"failed", "unknown"} : End(c, v)
    BY DEF FindUpdated, Fails, Errors, Answer, Recorded
  <1> QED BY <1>1, <1>2, <1>3, GoesOn, EndsHere DEF Reading

LEMMA VerifyBookSettles ==
    ASSUME Typed, Shaped, Taken, NEW c \in Change, VerifyBook(c)
    PROVE  SettleShape(c)
  <1>1. pc[c] \in Reading /\ pc[c] = "verifying" /\ ReadOnly
        /\ UNCHANGED <<op, base, seen, snap, made, gone>>
    BY DEF VerifyBook, Reading
  <1>2. \/ Again(c)
        \/ \E v \in {"succeeded", "failed", "unknown"} :
              End(c, v) /\ (v = "succeeded" => ReadsBack(c)) /\ UNCHANGED tries
    BY DEF VerifyBook, ReadBack, Fails, Errors, Answer, Recorded
  <1>3. ReadsBack(c) => Effect(c, world)
    BY <1>1, ReadsEffect
  <1> QED BY <1>1, <1>2, <1>3, ReadsAgain, EndsHere

LEMMA VerifyOnceSettles ==
    ASSUME Typed, Shaped, Taken, NEW c \in Change, NEW v \in {"failed", "unknown"},
           VerifyOnce(c, v)
    PROVE  SettleShape(c)
  <1>1. pc[c] \in Reading /\ ReadOnly
        /\ UNCHANGED <<op, base, seen, snap, tries, made, gone>>
    BY DEF VerifyOnce, Reading
  <1>2. ReadsBack(c) => Effect(c, world)
    BY <1>1, ReadsEffect
  <1>3. \/ Fails(c)
        \/ \E w \in {"succeeded", "failed", "unknown"} : End(c, w) /\ (w = "succeeded" => ReadsBack(c))
    BY DEF VerifyOnce, ReadBack
  <1> QED BY <1>1, <1>2, <1>3, FailsHere, EndsHere

LEMMA LocateSettles ==
    ASSUME Typed, NEW c \in Change, Locate(c)
    PROVE  SettleShape(c)
  <1>1. pc[c] \in Reading /\ pc[c] = "locating" /\ ReadOnly
        /\ UNCHANGED <<op, base, seen, snap, made, gone>>
    BY DEF Locate, Reading
  <1>2. \/ Goto(c, "verifying") /\ UNCHANGED tries
        \/ Again(c)
        \/ \E v \in {"partial", "failed", "unknown"} : End(c, v) /\ UNCHANGED tries
    BY DEF Locate, Fails, Errors, Answer, Recorded
  <1>3. UNCHANGED tries => tries' \in [Change -> 0 .. 2]
    BY DEF Typed
  <1> QED BY <1>1, <1>2, <1>3, GoesOn, ReadsAgain, EndsHere DEF Reading

LEMMA VerifyDocSettles ==
    ASSUME Typed, NEW c \in Change, VerifyDoc(c)
    PROVE  SettleShape(c)
  <1>1. pc[c] \in Reading /\ ReadOnly /\ UNCHANGED <<op, base, seen, snap, tries, made, gone>>
        /\ family = "document" /\ Creates(c)
    BY DEF VerifyDoc, VerifyCreated, Reading, Is, Creates
  <1>2. \E v \in {"succeeded", "partial"} : End(c, v) /\ (v = "succeeded" => Target(c) = op[c].val)
    BY DEF VerifyDoc, VerifyCreated
  <1> QED BY <1>1, <1>2, TargetEffect, EndsHere

LEMMA VerifySheetSettles ==
    ASSUME Typed, NEW c \in Change, VerifySheet(c)
    PROVE  SettleShape(c)
  <1>1. pc[c] \in Reading /\ ReadOnly /\ UNCHANGED <<op, base, seen, snap, tries, made, gone>>
        /\ family = "document" /\ Creates(c)
    BY DEF VerifySheet, VerifyCreated, Reading, Is, Creates
  <1>2. End(c, "partial") \/ (Target(c) = op[c].val /\ Goto(c, "initializing"))
    BY DEF VerifySheet, VerifyCreated
  <1>3. CASE End(c, "partial")
    BY <1>1, <1>3, EndsHere
  <1>4. CASE Target(c) = op[c].val /\ Goto(c, "initializing")
    <2>1. Effect(c, world)
      BY <1>1, <1>4, TargetEffect
    <2>2. tries' \in [Change -> 0 .. 2] /\ gone' \in [Change -> BOOLEAN] /\ filled' \in SUBSET Change
      BY <1>1 DEF Typed, ReadOnly
    <2> QED BY <1>1, <1>4, <2>1, <2>2 DEF SettleShape, Goto, ReadOnly, Reading
  <1> QED BY <1>2, <1>3, <1>4

LEMMA InitializeSettles ==
    ASSUME Typed, NEW c \in Change, Initialize(c)
    PROVE  SettleShape(c)
  <1>1. /\ pc[c] \in Reading /\ pc[c] = "initializing"
        /\ UNCHANGED <<family, world, edits, late, op, base, seen, snap, tries, made, gone, history>>
    BY DEF Initialize, Reading
  <1>2. filled' \in SUBSET Change /\ tries' \in [Change -> 0 .. 2] /\ gone' \in [Change -> BOOLEAN]
    BY <1>1 DEF Initialize, Typed
  <1>3. \E v \in {"succeeded", "failed", "unknown", "partial"} : End(c, v)
    BY DEF Initialize, Fails, Errors, Answer, Recorded
  <1> QED BY <1>1, <1>2, <1>3 DEF SettleShape

LEMMA VerifyGoneSettles ==
    ASSUME Typed, Shaped, NEW c \in Change, VerifyGone(c)
    PROVE  SettleShape(c)
  <1>1. /\ pc[c] \in Reading /\ ReadOnly /\ UNCHANGED <<op, base, seen, snap, tries, made>>
        /\ Removes(c) /\ family \in {"book", "document"}
    BY DEF VerifyGone, Reading
  <1>2. CASE Fails(c) /\ UNCHANGED gone
    BY <1>1, <1>2, FailsHere
  <1>3. CASE gone' = [gone EXCEPT ![c] = Target(c) = Absent] /\ Goto(c, "rereading")
    <2>1. Target(c) = Absent => Effect(c, world)
      BY <1>1 DEF Effect, Goal, Removes, Is, Target
    <2>2. tries' \in [Change -> 0 .. 2] /\ gone' \in [Change -> BOOLEAN] /\ filled' \in SUBSET Change
      BY <1>1, <1>3 DEF Typed, ReadOnly
    <2>3. gone'[c] => Effect(c, world)
      BY <1>3, <2>1 DEF Typed
    <2>4. \A d \in Change \ {c} : gone'[d] = gone[d]
      BY <1>3 DEF Typed
    <2> QED BY <1>1, <1>3, <2>2, <2>3, <2>4 DEF SettleShape, Goto, ReadOnly, Reading
  <1> QED BY <1>2, <1>3 DEF VerifyGone

LEMMA RereadSettles ==
    ASSUME Typed, NEW c \in Change, NEW rejected \in BOOLEAN, Reread(c, rejected)
    PROVE  SettleShape(c)
  <1>1. pc[c] = "rereading" /\ pc[c] \in Reading /\ ReadOnly
        /\ UNCHANGED <<op, base, seen, snap, tries, made, gone>>
    BY DEF Reread, Reading
  <1>2. \E v \in {"succeeded", "unknown"} : End(c, v) /\ (v = "succeeded" => gone[c])
    BY DEF Reread, Trashed
  <1> QED BY <1>1, <1>2, EndsHere

LEMMA RereadObjectSettles ==
    ASSUME Typed, NEW c \in Change, RereadObject(c)
    PROVE  SettleShape(c)
  <1>1. CASE \E rejected \in BOOLEAN : Reread(c, rejected)
    BY <1>1, RereadSettles
  <1>2. CASE Fails(c) /\ ReadOnly /\ UNCHANGED <<op, base, seen, snap, tries, made, gone>>
    BY <1>2, FailsHere DEF RereadObject, Reading
  <1> QED BY <1>1, <1>2 DEF RereadObject

LEMMA VerifySettles ==
    ASSUME Typed, Shaped, Taken, NEW c \in Change, Verify(c)
    PROVE  SettleShape(c)
  <1>1. CASE VerifyUpdated(c) \/ VerifyMember(c) \/ VerifyComment(c)
    BY <1>1, VerifyOnceSettles DEF VerifyUpdated, VerifyMember, VerifyComment
  <1>2. CASE RereadBook(c)
    BY <1>2, RereadSettles DEF RereadBook
  <1> QED BY <1>1, <1>2, VerifyBookSettles, LocateSettles, VerifyDocSettles, VerifySheetSettles,
             InitializeSettles, VerifyGoneSettles, RereadObjectSettles DEF Verify

-----------------------------------------------------------------------------
(* The start, and the types.                                               *)

LEMMA InitInv == Init => IInv
  <1> SUFFICES ASSUME Init PROVE IInv
    OBVIOUS
  <1>1. family \in Family /\ Family \subseteq {"book", "document", "collaborator", "comment"}
    BY ObjectAssumption DEF Init
  <1>2. \A c \in Change : world[c] = Absent
    BY ObjectAssumption DEF Init, Object
  <1>3. Typed
    <2>1. world \in World
      BY ObjectAssumption DEF Init, World
    <2>2. NoOp \in Op
      BY DEF NoOp, Op
    <2>3. /\ op \in [Change -> Op] /\ base \in [Change -> World] /\ seen \in [Change -> World]
          /\ snap \in [Change -> Value \cup {Absent}]
      BY <2>1, <2>2 DEF Init
    <2>4. /\ holder \in [Key -> Change \cup {Nobody}]
          /\ pc \in [Change -> Step] /\ tries \in [Change -> 0 .. 2]
          /\ made \in [Change -> Object \cup {Nobody}] /\ gone \in [Change -> BOOLEAN]
          /\ verdict \in [Change -> Verdict] /\ edits \in 0 .. MaxEdits
      BY ObjectAssumption DEF Init, Key, Step, Verdict
    <2> QED BY <1>1, <2>1, <2>3, <2>4 DEF Init, Typed
  <1>4. Shaped /\ Ordered /\ Locked
    BY DEF Init, Shaped, Ordered, Locked, Inside, Reading
  <1>5. Own
    BY <1>2 DEF Init, Own
  <1>6. ConflictSentNothing /\ Effective /\ Taken /\ Believed /\ Saved /\ Quiet
    BY DEF Init, ConflictSentNothing, Effective, Taken, Believed, Saved, Quiet, Ended, Reading
  <1>7. Single /\ NoTwinBooks
    BY DEF Init, Single, NoTwinBooks
  <1> QED BY <1>3, <1>4, <1>5, <1>6, <1>7 DEF IInv

\* The types of what End writes.
LEMMA EndTypes ==
    ASSUME Typed, Shaped, NEW c \in Change, pc[c] # "new", NEW v \in Verdict, End(c, v)
    PROVE  /\ pc' \in [Change -> Step] /\ pc' = [pc EXCEPT ![c] = "done"]
           /\ verdict' \in [Change -> Verdict] /\ holder' \in [Key -> Change \cup {Nobody}]
  BY DEF End, Typed, Step

LEMMA ShapeTypes ==
    ASSUME Typed, Shaped, Ordered, NEW c \in Change, Shape(c)
    PROVE  Typed'
  <1>1. CASE PreviewShape(c)
    BY <1>1 DEF PreviewShape, Typed, ReadOnly, history, Step
  <1>2. CASE Confirm(c)
    <2>1. pc[c] # "new" /\ op[c].key \in Key
      BY <1>2, OpFacts DEF Confirm
    <2> QED BY <1>2, <2>1 DEF Confirm, Typed, ReadOnly, history, Step, Inside
  <1>3. CASE RecheckShape(c)
    <2>1. pc[c] # "new" /\ Target(c) \in Value \cup {Absent}
      BY <1>3, OpFacts DEF RecheckShape, Target, Typed, World
    <2>2. /\ pc' \in [Change -> Step]
          /\ verdict' \in [Change -> Verdict] /\ holder' \in [Key -> Change \cup {Nobody}]
      BY <1>3, <2>1, EndTypes DEF RecheckShape, Typed, Step, Inside, Verdict
    <2>3. snap' \in [Change -> Value \cup {Absent}]
      BY <1>3, <2>1 DEF RecheckShape, Typed
    <2> QED BY <1>3, <2>2, <2>3 DEF RecheckShape, Typed, ReadOnly, history
  <1>4. CASE PrepareShape(c)
    <2>1. /\ pc' \in [Change -> Step]
          /\ verdict' \in [Change -> Verdict] /\ holder' \in [Key -> Change \cup {Nobody}]
      BY <1>4, EndTypes DEF PrepareShape, Typed, Step, Inside, Verdict
    <2> QED BY <1>4, <2>1 DEF PrepareShape, Typed
  <1>5. CASE RequestShape(c)
    <2>1. op[c].obj \in Object /\ Applied(c) \in World
      BY <1>5, OpFacts DEF RequestShape
    <2>2. /\ pc' \in [Change -> Step]
          /\ verdict' \in [Change -> Verdict] /\ holder' \in [Key -> Change \cup {Nobody}]
      BY <1>5, EndTypes DEF RequestShape, Typed, Step, Inside, Reading, Verdict
    <2>3. world' \in World /\ echo' \in SUBSET Change
      BY <1>5, <2>1 DEF RequestShape, Typed, Echoed
    <2>4. made' \in [Change -> Object \cup {Nobody}]
      BY <1>5, <2>1 DEF RequestShape, Typed
    <2>5. /\ hit' \in SUBSET Change /\ late' \in SUBSET Change
          /\ unanswered' \in SUBSET Change /\ lost' \in SUBSET Change /\ sent' \in SUBSET Change
      BY <1>5 DEF RequestShape, Typed
    <2> QED BY <1>5, <2>2, <2>3, <2>4, <2>5 DEF RequestShape, Typed
  <1>6. CASE Land(c)
    <2>1. pc[c] # "new" /\ Applied(c) \in World
      BY <1>6, SentFacts, OpFacts DEF Land, Ordered
    <2> QED BY <1>6, <2>1 DEF Land, Typed, Echoed, control
  <1>7. CASE SettleShape(c)
    <2>1. /\ pc' \in [Change -> Step]
          /\ verdict' \in [Change -> Verdict] /\ holder' \in [Key -> Change \cup {Nobody}]
      BY <1>7, EndTypes DEF SettleShape, Typed, Step, Inside, Reading, Verdict
    <2>2. made' \in [Change -> Object \cup {Nobody}]
      BY <1>7 DEF SettleShape, Typed
    <2> QED BY <1>7, <2>1, <2>2 DEF SettleShape, Typed, history
  <1> QED BY <1>1, <1>2, <1>3, <1>4, <1>5, <1>6, <1>7 DEF Shape

LEMMA EditTypes ==
    ASSUME Typed, NEW o \in Object, NEW v \in Value \cup {Absent}, Edit(o, v)
    PROVE  Typed'
  <1>1. world' \in World /\ edits' \in 0 .. MaxEdits
    BY ObjectAssumption DEF Edit, Typed, World
  <1> QED BY <1>1 DEF Edit, Typed, Echoed, control

-----------------------------------------------------------------------------
(* What a step leaves alone.                                               *)

LEMMA Frame ==
    ASSUME Typed, NEW c \in Change, Shape(c)
    PROVE  /\ family' = family /\ edits' = edits
           /\ hit \subseteq hit' /\ echo \subseteq echo' /\ sent \subseteq sent'
           /\ pc[c] # "new" => op'[c] = op[c] /\ base'[c] = base[c]
           /\ \A d \in Change \ {c} :
                /\ pc'[d] = pc[d] /\ op'[d] = op[d] /\ base'[d] = base[d]
                /\ seen'[d] = seen[d] /\ snap'[d] = snap[d]
                /\ made'[d] = made[d] /\ gone'[d] = gone[d] /\ verdict'[d] = verdict[d]
                /\ (d \in sent' <=> d \in sent) /\ (d \in hit' <=> d \in hit)
                /\ (d \in unanswered' <=> d \in unanswered) /\ (d \in late' <=> d \in late)
                /\ d \in calm' => d \in calm
  <1>1. CASE PreviewShape(c)
    BY <1>1 DEF PreviewShape, Typed, ReadOnly, history
  <1>2. CASE Confirm(c)
    BY <1>2 DEF Confirm, Typed, ReadOnly, history
  <1>3. CASE RecheckShape(c)
    BY <1>3 DEF RecheckShape, End, Typed, ReadOnly, history
  <1>4. CASE PrepareShape(c)
    BY <1>4 DEF PrepareShape, End, Typed
  <1>5. CASE RequestShape(c)
    BY <1>5 DEF RequestShape, End, Typed, Echoed
  <1>6. CASE Land(c)
    BY <1>6 DEF Land, Typed, Echoed, control
  <1>7. CASE SettleShape(c)
    BY <1>7 DEF SettleShape, End, Typed, history
  <1> QED BY <1>1, <1>2, <1>3, <1>4, <1>5, <1>6, <1>7 DEF Shape

\* The collection changes by a request, sent or late, at the change's object.
LEMMA Writes ==
    ASSUME Typed, Shaped, Ordered, NEW c \in Change, Shape(c)
    PROVE  \/ world' = world
           \/ /\ RequestShape(c) \/ Land(c)
              /\ pc[c] # "new" /\ c \in hit' /\ Applies(c) /\ echo' = Echoed(c)
              /\ world' = [world EXCEPT ![op[c].obj] = Goal(c)]
  <1>1. CASE RequestShape(c)
    <2>1. world' = world \/ (Applies(c) /\ world' = Applied(c) /\ c \in hit')
      BY <1>1 DEF RequestShape
    <2> QED BY <1>1, <2>1 DEF RequestShape, Applied
  <1>2. CASE Land(c)
    <2>1. pc[c] # "new"
      BY <1>2, SentFacts DEF Land, Ordered
    <2>2. world' = world \/ (Applies(c) /\ world' = Applied(c) /\ c \in hit')
      BY <1>2 DEF Land
    <2> QED BY <1>2, <2>1, <2>2 DEF Land, Applied
  <1>3. CASE ~RequestShape(c) /\ ~Land(c)
    BY <1>3 DEF Shape, PreviewShape, Confirm, RecheckShape, PrepareShape, SettleShape, ReadOnly
  <1> QED BY <1>1, <1>2, <1>3

\* A change's phases follow one another.
LEMMA Phases ==
    ASSUME Typed, Ordered, NEW c \in Change, Shape(c)
    PROVE  /\ pc'[c] # "new"
           /\ pc[c] = "new" <=> PreviewShape(c)
           /\ pc'[c] \in Before => pc[c] \in Before /\ sent' = sent
           /\ pc'[c] \in Reading => pc[c] \in Reading \cup {"sending"}
  <1>1. CASE PreviewShape(c)
    BY <1>1 DEF PreviewShape, Typed, Before, Reading, ReadOnly, history
  <1>2. CASE Confirm(c)
    BY <1>2 DEF PreviewShape, Confirm, Typed, Before, Reading, ReadOnly, history
  <1>3. CASE RecheckShape(c)
    BY <1>3 DEF PreviewShape, RecheckShape, End, Typed, Before, Reading, ReadOnly, history
  <1>4. CASE PrepareShape(c)
    BY <1>4 DEF PreviewShape, PrepareShape, End, Typed, Before, Reading
  <1>5. CASE RequestShape(c)
    BY <1>5 DEF PreviewShape, RequestShape, End, Typed, Before, Reading
  <1>6. CASE Land(c)
    BY <1>6, SentFacts DEF PreviewShape, Land, Ordered, control, Before
  <1>7. CASE SettleShape(c)
    BY <1>7 DEF PreviewShape, SettleShape, End, Typed, Before, Reading
  <1> QED BY <1>1, <1>2, <1>3, <1>4, <1>5, <1>6, <1>7 DEF Shape

LEMMA ShapedStep ==
    ASSUME Typed, Shaped, Ordered, NEW c \in Change, Shape(c)
    PROVE  Shaped'
  <1> SUFFICES ASSUME NEW d \in Change
               PROVE  IF pc'[d] = "new" THEN op'[d] = NoOp ELSE Fits(d, op'[d], family')
    BY DEF Shaped, Fits
  <1>1. CASE d # c
    BY <1>1, Frame DEF Shaped
  <1>2. CASE d = c /\ pc[c] = "new"
    BY <1>2, Phases, Frame DEF PreviewShape, Typed
  <1>3. CASE d = c /\ pc[c] # "new"
    BY <1>3, Phases, Frame DEF Shaped
  <1> QED BY <1>1, <1>2, <1>3

LEMMA OrderedStep ==
    ASSUME Typed, Shaped, Ordered, NEW c \in Change, Shape(c)
    PROVE  Ordered'
  <1>1. ASSUME NEW d \in Change, pc'[d] \in Before
        PROVE  d \notin sent'
    BY <1>1, Phases, Frame DEF Ordered
  <1>2. hit' \subseteq sent' /\ late' \subseteq unanswered' /\ unanswered' \subseteq sent'
    <2>1. CASE RequestShape(c)
      BY <2>1 DEF RequestShape, Ordered
    <2>2. CASE Land(c)
      BY <2>2 DEF Land, Ordered
    <2>3. CASE ~RequestShape(c) /\ ~Land(c)
      BY <2>3 DEF Shape, PreviewShape, Confirm, RecheckShape, PrepareShape, SettleShape, ReadOnly,
              history, Ordered
    <2> QED BY <2>1, <2>2, <2>3
  <1> QED BY <1>1, <1>2 DEF Ordered, Before

\* The lock of a confirm is its own until its end.
LEMMA LockedStep ==
    ASSUME Typed, Shaped, Ordered, Locked, NEW c \in Change, Shape(c)
    PROVE  Locked'
  <1> SUFFICES ASSUME NEW d \in Change, pc'[d] \in Inside
               PROVE  holder'[op'[d].key] = d
    BY DEF Locked, Inside, Reading
  <1>0. /\ pc[c] \in Inside => op[c].key \in Key
        /\ pc[c] = "previewed" => op[c].key \in Key
    BY OpFacts DEF Inside, Reading
  <1>1. CASE Confirm(c)
    <2>1. holder' = [holder EXCEPT ![op[c].key] = c] /\ holder[op[c].key] = Nobody
          /\ op' = op /\ op[c].key \in Key
      BY <1>0, <1>1 DEF Confirm
    <2>2. CASE d = c
      BY <2>1, <2>2 DEF Typed
    <2>3. CASE d # c
      <3>1. holder[op[d].key] = d
        BY <2>3, Frame DEF Locked
      <3> QED BY <2>1, <2>3, <3>1, NamesAssumption DEF Typed
    <2> QED BY <2>2, <2>3
  <1>2. CASE \E v \in Verdict : pc[c] \in Inside /\ End(c, v) /\ op' = op
    <2>1. pc'[c] = "done" /\ holder' = [holder EXCEPT ![op[c].key] = Nobody]
      BY <1>2 DEF End, Typed
    <2>2. d # c
      BY <2>1 DEF Inside, Reading
    <2>3. holder[op[d].key] = d /\ holder[op[c].key] = c
      BY <1>2, <2>2, Frame DEF Locked
    <2> QED BY <1>2, <2>1, <2>2, <2>3 DEF Typed
  <1>3. CASE UNCHANGED holder
    <2>1. CASE d # c
      BY <1>3, <2>1, Frame DEF Locked
    <2>2. CASE d = c /\ pc[c] \in Inside
      BY <1>3, <2>2, Frame DEF Locked, Inside, Reading
    <2>3. CASE d = c /\ pc[c] \notin Inside /\ ~Confirm(c)
      BY <2>3 DEF Shape, PreviewShape, RecheckShape, PrepareShape, RequestShape,
         Land, SettleShape, Inside, Reading, Typed, control
    <2> QED BY <1>1, <2>1, <2>2, <2>3
  <1>4. \/ Confirm(c) \/ UNCHANGED holder
        \/ \E v \in Verdict : pc[c] \in Inside /\ End(c, v) /\ op' = op
    BY DEF Shape, PreviewShape, RecheckShape, PrepareShape, RequestShape, Land, SettleShape,
       Inside, Reading, Verdict, control
  <1> QED BY <1>1, <1>2, <1>3, <1>4

LEMMA OwnStep ==
    ASSUME Typed, Shaped, Ordered, Own, NEW c \in Change, Shape(c)
    PROVE  Own'
  <1> SUFFICES ASSUME NEW d \in Change
               PROVE  base'[d][d] = Absent /\ (d \notin hit' => world'[d] = Absent)
    BY DEF Own
  <1>1. base'[d][d] = Absent
    <2>1. CASE d # c \/ pc[c] # "new"
      BY <2>1, Frame DEF Own
    <2>2. CASE d = c /\ pc[c] = "new"
      <3>1. world[c] = Absent
        BY <2>2 DEF Own, Ordered, Before
      <3> QED BY <2>2, <3>1, Phases DEF PreviewShape, Typed
    <2> QED BY <2>1, <2>2
  <1>2. ASSUME d \notin hit'
        PROVE  world'[d] = Absent
    <2>1. d \notin hit /\ world[d] = Absent
      BY <1>2, Frame DEF Own
    <2>2. CASE world' # world
      <3>1. pc[c] # "new" /\ c \in hit' /\ world' = [world EXCEPT ![op[c].obj] = Goal(c)]
        BY <2>2, Writes
      <3>2. op[c].obj \in Old \cup {c}
        BY <3>1, OpFacts
      <3> QED BY <1>2, <2>1, <3>1, <3>2, ObjectAssumption DEF Typed, World, Object
    <2> QED BY <2>1, <2>2
  <1> QED BY <1>1, <1>2

-----------------------------------------------------------------------------
(* Outcomes.                                                               *)

\* A change that may be sent has had no effect yet, and finds what its preview
\* read: the checks of the prepare... methods, family by family.
LEMMA NotYet ==
    ASSUME Typed, Shaped, Ordered, Own, NEW c \in Change, pc[c] \in Before, pc[c] # "new",
           Possible(op[c], world), SameBaseline(c)
    PROVE  /\ ~Effect(c, world)
           /\ Previewed(c)
           /\ Removes(c) => Target(c) # Absent
           /\ Is(c, "document", "delete") => Target(c) = base[c][op[c].obj]
           /\ NewBook(c) => \A p \in Object \ {c} : world[p] # op[c].val
  <1>1. /\ Fits(c, op[c], family) /\ op[c].val \in Value /\ op[c].val # Absent
        /\ op[c].obj \in Object
    BY OpFacts
  <1>2. world[c] = Absent /\ base[c][c] = Absent
    BY DEF Own, Ordered
  <1>3. CASE family = "book" /\ op[c].kind = "create" /\ op[c].obj = c
    <2>1. ~Duplicate(op[c], world)
      BY <1>3 DEF Possible, CanCreateBook
    <2>2. \A p \in Object \ {c} : world[p] # op[c].val
      BY <1>3, <2>1 DEF Duplicate
    <2>3. ~Effect(c, world)
      BY <1>1, <1>2, <1>3, <2>2 DEF Effect, Is
    <2> QED BY <1>2, <1>3, <2>2, <2>3 DEF Previewed, Target, Removes, Is
  <1>4. CASE family = "book" /\ op[c].kind = "update"
    <2>1. Target(c) # op[c].val
      BY <1>4 DEF Possible, CanUpdateBook, Target
    <2>2. Target(c) = base[c][op[c].obj]
      BY <1>4 DEF SameBaseline, Creates
    <2> QED BY <1>4, <2>1, <2>2 DEF Effect, Is, Goal, Removes, Previewed, Target, NewBook
  <1>5. CASE family \in {"book", "document"} /\ op[c].kind = "delete"
    <2>1. Target(c) # Absent
      BY <1>5 DEF Possible, CanDelete, Target
    <2>2. Target(c) = base[c][op[c].obj]
      BY <1>5 DEF SameBaseline, Creates
    <2> QED BY <1>5, <2>1, <2>2 DEF Effect, Is, Goal, Removes, Previewed, Target, NewBook
  <1>6. CASE /\ family = "document" /\ op[c].kind \in {"create", "create_sheet"}
             /\ op[c].obj = c
    BY <1>1, <1>2, <1>6 DEF Effect, Is, Goal, Removes, Previewed, Target, NewBook
  <1>7. CASE family \in {"collaborator", "comment"}
    <2>1. world = base[c]
      BY <1>7 DEF SameBaseline
    <2>2. ~Effect(c, world) /\ (Removes(c) => Target(c) # Absent)
      <3>1. CASE family = "collaborator"
        BY <1>1, <3>1 DEF Possible, CanChangeMember, Fits, Effect, Is, Goal, Removes, Target, Kind
      <3>2. CASE family = "comment"
        BY <1>1, <1>2, <3>2 DEF Possible, CanChangeComment, Fits, Effect, Is, Goal, Removes,
           Target, Kind
      <3> QED BY <1>7, <3>1, <3>2
    <2> QED BY <1>7, <2>1, <2>2 DEF Is, Previewed, NewBook
  <1> QED BY <1>1, <1>3, <1>4, <1>5, <1>6, <1>7 DEF Fits

LEMMA ConflictStep ==
    ASSUME Typed, Ordered, ConflictSentNothing, NEW c \in Change, Shape(c)
    PROVE  ConflictSentNothing'
  <1> SUFFICES ASSUME NEW d \in Change, pc'[d] = "done", verdict'[d] = "conflict"
               PROVE  d \notin sent'
    BY DEF ConflictSentNothing, Ended
  <1>1. CASE d # c
    BY <1>1, Frame DEF ConflictSentNothing, Ended
  <1>2. CASE d = c /\ RecheckShape(c)
    BY <1>2 DEF RecheckShape, Ordered, Before, ReadOnly, history
  <1>3. CASE d = c /\ Land(c)
    BY <1>3 DEF Land, ConflictSentNothing, Ended, control
  <1>4. CASE d = c /\ ~RecheckShape(c) /\ ~Land(c)
    BY <1>4 DEF Shape, PreviewShape, Confirm, PrepareShape, RequestShape, SettleShape, End, Typed,
       Reading
  <1> QED BY <1>1, <1>2, <1>3, <1>4

\* An effect that the read-back may see is accounted for: the request was
\* applied, or somebody else's write had it.
LEMMA EffectiveStep ==
    ASSUME Typed, Shaped, Ordered, Own, Effective, NEW c \in Change, Shape(c)
    PROVE  Effective'
  <1> SUFFICES ASSUME NEW d \in Change, pc'[d] \in Reading \cup {"sending"}, Effect(d, world)'
               PROVE  d \in hit' \cup echo'
    BY DEF Effective, Accounted, Reading
  <1>0. hit \subseteq hit' /\ echo \subseteq echo' /\ family' = family
    BY Frame
  <1>1. CASE d # c
    <2>1. pc[d] \in Reading \cup {"sending"} /\ op'[d] = op[d]
      BY <1>1, Frame
    <2>2. Effect(d, world')
      BY <1>0, <2>1 DEF Effect, Is, Goal, Removes
    <2>3. CASE world' = world
      BY <1>0, <2>1, <2>2, <2>3 DEF Effective, Accounted
    <2>4. CASE echo' = Echoed(c)
      BY <1>1, <2>1, <2>2, <2>4 DEF Echoed, Open, Reading
    <2> QED BY <2>3, <2>4, Writes
  <1>2. CASE d = c /\ pc[c] \in Reading \cup {"sending"}
    <2>1. op'[c] = op[c]
      BY <1>2, Frame DEF Reading
    <2>2. CASE world' = world
      <3>1. Effect(c, world)
        BY <1>0, <1>2, <2>1, <2>2 DEF Effect, Is, Goal, Removes
      <3> QED BY <1>0, <1>2, <3>1 DEF Effective, Accounted
    <2>3. CASE c \in hit'
      BY <1>2, <2>3
    <2> QED BY <2>2, <2>3, Writes
  <1>3. CASE d = c /\ pc[c] \notin Reading \cup {"sending"}
    <2>1. PrepareShape(c) /\ pc'[c] = "sending"
      <3>1. ~Land(c)
        BY <1>3 DEF Land, control
      <3>2. pc'[c] = "sending"
        BY <1>3, Phases
      <3> QED BY <1>3, <3>1, <3>2 DEF Shape, PreviewShape, Confirm, RecheckShape, RequestShape,
              SettleShape, End, Typed
    <2>2. Possible(op[c], world) /\ SameBaseline(c) /\ op' = op /\ world' = world
      BY <2>1 DEF PrepareShape, End, Typed
    <2>3. ~Effect(c, world)
      BY <2>1, <2>2, NotYet DEF PrepareShape, Before
    <2> QED BY <1>0, <1>3, <2>2, <2>3 DEF Effect, Is, Goal, Removes
  <1> QED BY <1>1, <1>2, <1>3

LEMMA TakenStep ==
    ASSUME Typed, Shaped, Ordered, Taken, NEW c \in Change, Shape(c)
    PROVE  Taken'
  <1> SUFFICES ASSUME NEW d \in Change, pc'[d] \in Reading
               PROVE  IF Is(d, "book", "create")' THEN made'[d] \in Object
                                                  ELSE made'[d] = op'[d].obj
    BY DEF Taken, Reading, Object
  <1>0. Is(d, "book", "create")' <=> Is(d, "book", "create")
    BY Frame, Phases DEF Is, Reading
  <1>1. CASE d # c
    BY <1>0, <1>1, Frame DEF Taken
  <1>2. CASE d = c
    <2>1. pc[c] \in Reading \cup {"sending"} /\ op'[c] = op[c]
      BY <1>2, Phases, Frame DEF Reading
    <2>2. CASE RequestShape(c)
      BY <1>2, <2>1, <2>2, OpFacts DEF RequestShape, Typed
    <2>3. CASE Land(c)
      BY <1>0, <1>2, <2>3 DEF Land, control, Taken
    <2>4. CASE SettleShape(c)
      BY <1>0, <1>2, <2>1, <2>4 DEF SettleShape, Taken, Typed
    <2> QED BY <2>1, <2>2, <2>3, <2>4 DEF Shape, PreviewShape, Confirm, RecheckShape, PrepareShape,
            Reading
  <1> QED BY <1>1, <1>2

LEMMA BelievedStep ==
    ASSUME Typed, Shaped, Ordered, Effective, Believed, NEW c \in Change, Shape(c)
    PROVE  Believed'
  <1> DEFINE Sure(d) == \/ pc[d] = "initializing" \/ (pc[d] = "rereading" /\ gone[d])
                        \/ pc[d] = "done" /\ verdict[d] = "succeeded"
  <1> SUFFICES ASSUME NEW d \in Change, Sure(d)'
               PROVE  d \in hit' \cup echo'
    BY DEF Believed, Accounted, Ended
  <1>0. hit \subseteq hit' /\ echo \subseteq echo'
    BY Frame
  <1>1. Sure(d) => d \in hit' \cup echo'
    BY <1>0 DEF Believed, Accounted, Ended
  <1>2. CASE d # c \/ Land(c)
    <2>1. Sure(d)
      BY <1>2, Frame DEF Land, control
    <2> QED BY <1>1, <2>1
  <1>3. CASE d = c /\ SettleShape(c)
    <2>1. Effect(c, world) \/ Sure(c)
      BY <1>3 DEF SettleShape, End, Typed, Reading
    <2>2. Effect(c, world) => c \in hit \cup echo
      BY <1>3 DEF SettleShape, Effective, Accounted
    <2> QED BY <1>0, <1>1, <1>3, <2>1, <2>2
  <1>4. CASE d = c /\ ~Land(c) /\ ~SettleShape(c)
    BY <1>4 DEF Shape, PreviewShape, Confirm, RecheckShape, PrepareShape, RequestShape, End, Typed
  <1> QED BY <1>2, <1>3, <1>4

-----------------------------------------------------------------------------
(* What a request replaces.                                                *)

LEMMA SavedStep ==
    ASSUME Typed, Shaped, Ordered, Own, Saved, NEW c \in Change, Shape(c)
    PROVE  Saved'
  <1> SUFFICES ASSUME NEW d \in Change, Is(d, "document", "delete")'
               PROVE  /\ pc'[d] = "preparing" =>
                           snap'[d] # Absent /\ snap'[d] = base'[d][op'[d].obj]
                      /\ pc'[d] = "sending" \/ d \in sent' =>
                           snap'[d] # Absent /\ snap'[d] = seen'[d][op'[d].obj]
    BY DEF Saved
  <1>1. CASE d # c
    <2>1. Is(d, "document", "delete")
      BY <1>1, Frame DEF Is
    <2> QED BY <1>1, <2>1, Frame DEF Saved
  <1>2. CASE d = c
    <2>0. pc[c] # "new" => family = "document" /\ op[c].kind = "delete"
                         /\ op'[c] = op[c] /\ base'[c] = base[c]
      BY <1>2, Frame DEF Is
    <2>1. CASE PreviewShape(c) \/ Confirm(c)
      <3>1. c \notin sent' /\ pc'[c] \in {"previewed", "rechecking", "preparing"}
        BY <2>1 DEF PreviewShape, Confirm, Ordered, Before, ReadOnly, history, Typed
      <3>2. Confirm(c) => pc'[c] = "rechecking"
        BY <2>0 DEF Confirm, Rechecks, Removes, Typed
      <3>3. PreviewShape(c) => pc'[c] = "previewed"
        BY DEF PreviewShape, Typed
      <3> QED BY <1>2, <2>1, <3>1, <3>2, <3>3
    <2>2. CASE RecheckShape(c)
      <3>1. c \notin sent' /\ pc'[c] \in {"preparing", "done"}
        BY <2>2 DEF RecheckShape, End, Ordered, Before, ReadOnly, history, Typed
      <3>2. pc[c] # "new" /\ pc[c] \in Before
        BY <2>2 DEF RecheckShape, Before
      <3>3. ASSUME pc'[c] = "preparing"
            PROVE  snap'[c] # Absent /\ snap'[c] = base'[c][op'[c].obj]
        <4>1. /\ Possible(op[c], world) /\ SameBaseline(c)
              /\ snap' = [snap EXCEPT ![c] = Target(c)]
          BY <2>0, <2>2, <3>2, <3>3 DEF RecheckShape, End, Typed
        <4>2. Target(c) # Absent /\ Target(c) = base[c][op[c].obj]
          BY <2>0, <3>2, <4>1, NotYet DEF Is, Removes
        <4> QED BY <2>0, <3>2, <4>1, <4>2 DEF Typed
      <3> QED BY <1>2, <3>1, <3>3
    <2>3. CASE PrepareShape(c)
      <3>1. c \notin sent' /\ pc'[c] \in {"sending", "done"}
        BY <2>3 DEF PrepareShape, End, Ordered, Before, Typed
      <3>2. pc[c] # "new" /\ pc[c] = "preparing" /\ pc[c] \in Before
        BY <2>3 DEF PrepareShape, Before
      <3>3. ASSUME pc'[c] = "sending"
            PROVE  snap'[c] # Absent /\ snap'[c] = seen'[c][op'[c].obj]
        <4>1. /\ Possible(op[c], world) /\ SameBaseline(c)
              /\ snap' = snap /\ seen'[c] = world
          BY <2>3, <3>3 DEF PrepareShape, End, Typed
        <4>2. Target(c) # Absent /\ Target(c) = base[c][op[c].obj]
          BY <2>0, <3>2, <4>1, NotYet DEF Is, Removes
        <4>3. snap[c] # Absent /\ snap[c] = base[c][op[c].obj]
          BY <2>0, <3>2 DEF Saved, Is
        <4> QED BY <2>0, <3>2, <4>1, <4>2, <4>3 DEF Target
      <3> QED BY <1>2, <3>1, <3>3
    <2>4. CASE RequestShape(c)
      BY <1>2, <2>0, <2>4 DEF RequestShape, End, Typed, Saved, Is
    <2>5. CASE Land(c)
      <3>1. c \in sent /\ pc[c] \notin Before
        BY <2>5, SentFacts DEF Land, Ordered
      <3> QED BY <1>2, <2>0, <2>5, <3>1 DEF Land, control, Before, Saved, Is
    <2>6. CASE SettleShape(c)
      <3>1. pc'[c] \notin {"preparing", "sending"} /\ sent' = sent /\ snap' = snap /\ seen' = seen
        BY <2>6 DEF SettleShape, End, Typed, Reading, history
      <3> QED BY <1>2, <2>0, <2>6, <3>1 DEF SettleShape, Reading, Saved, Is
    <2> QED BY <2>1, <2>2, <2>3, <2>4, <2>5, <2>6 DEF Shape
  <1> QED BY <1>1, <1>2

\* Two confirms that could write one thing hold one lock, so that only one of
\* them is inside it.
LEMMA Excluded ==
    ASSUME Typed, Shaped, Locked, NEW c \in Change, NEW d \in Change, c # d,
           pc[c] \in Inside, pc[d] \in Inside
    PROVE  /\ op[c].key # op[d].key
           /\ op[c].obj # op[d].obj
           /\ family \notin {"collaborator", "comment"}
           /\ ~(Is(c, "book", "create") /\ Is(d, "book", "create"))
  <1>1. Fits(c, op[c], family) /\ Fits(d, op[d], family) /\ family \in Family
    BY OpFacts DEF Typed, Inside, Reading
  <1>2. op[c].key # op[d].key
    BY DEF Locked
  <1> QED BY <1>1, <1>2, TwoChanges DEF Is

LEMMA QuietStep ==
    ASSUME Typed, Shaped, Ordered, Locked, Own, Quiet, NEW c \in Change, Shape(c)
    PROVE  Quiet'
  <1>1. lost' = {}
    <2>1. CASE RequestShape(c)
      BY <2>1 DEF RequestShape, Quiet
    <2>2. CASE ~RequestShape(c)
      BY <2>2 DEF Shape, PreviewShape, Confirm, RecheckShape, PrepareShape, Land, SettleShape,
         ReadOnly, history, Quiet
    <2> QED BY <2>1, <2>2
  <1>2. ASSUME NEW d \in calm', pc'[d] = "sending"
        PROVE  Previewed(d)'
    <2>0. d \in Change
      <3>1. CASE PrepareShape(c)
        BY <3>1 DEF PrepareShape, Typed
      <3>2. CASE ~PrepareShape(c)
        BY <3>2 DEF Shape, PreviewShape, Confirm, RecheckShape, RequestShape, Land, SettleShape,
           ReadOnly, history, Typed
      <3> QED BY <3>1, <3>2
    <2>1. ASSUME op'[d] = op[d], base'[d] = base[d], world' = world, Previewed(d)
          PROVE  Previewed(d)'
      BY <2>1, Frame DEF Previewed, Target
    <2>2. CASE d # c
      <3>1. pc[d] = "sending" /\ d \in calm /\ Previewed(d) /\ op'[d] = op[d] /\ base'[d] = base[d]
        BY <1>2, <2>0, <2>2, Frame DEF Quiet
      <3>2. CASE world' = world
        BY <2>1, <3>1, <3>2
      <3>3. CASE RequestShape(c) /\ world' = [world EXCEPT ![op[c].obj] = Goal(c)]
        <4>1. op[c].obj # op[d].obj /\ family \notin {"collaborator", "comment"}
          BY <2>0, <2>2, <3>1, <3>3, Excluded DEF RequestShape, Inside
        <4>2. world'[op[d].obj] = world[op[d].obj]
          BY <2>0, <3>1, <3>3, <4>1, OpFacts DEF Typed, World
        <4> QED BY <3>1, <4>1, <4>2, Frame DEF Previewed, Target
      <3>4. ~Land(c)
        BY <1>2 DEF Land
      <3> QED BY <3>2, <3>3, <3>4, Writes
    <2>3. CASE d = c
      <3>1. PrepareShape(c)
        BY <1>2, <2>3, SentFacts DEF Shape, PreviewShape, Confirm, RecheckShape, RequestShape, Land,
           SettleShape, End, Typed, Reading
      <3>2. /\ Possible(op[c], world) /\ SameBaseline(c)
            /\ op' = op /\ base' = base /\ world' = world /\ pc[c] = "preparing"
        BY <1>2, <2>3, <3>1 DEF PrepareShape, End, Typed
      <3>3. Previewed(c)
        BY <3>2, NotYet DEF Before
      <3> QED BY <2>1, <2>3, <3>2, <3>3
    <2> QED BY <2>2, <2>3
  <1> QED BY <1>1, <1>2 DEF Quiet

-----------------------------------------------------------------------------
(* Knowledge bases of one name.                                            *)

\* A new book keeps its name as long as no colleague writes.
LEMMA KeepsName ==
    ASSUME Typed, Shaped, Ordered, Own, Single, NEW c \in Change, Shape(c), edits' = 0,
           NEW d \in hit', NewBook(d)'
    PROVE  world'[d] = op'[d].val
  <1>0. d \in Change /\ edits = 0
    BY ShapeTypes, Frame DEF Typed
  <1>1. pc[d] # "new" /\ NewBook(d) /\ op'[d] = op[d]
    <2>1. CASE d # c
      BY <1>0, <2>1, Frame DEF NewBook, Is
    <2>2. CASE d = c
      <3>1. pc[c] # "new"
        BY <2>2, Phases DEF PreviewShape, Ordered, Before, ReadOnly, history
      <3> QED BY <2>2, <3>1, Frame DEF NewBook, Is
    <2> QED BY <2>1, <2>2
  <1>2. op[d].obj = d /\ Goal(d) = op[d].val /\ d \in Object
    BY <1>0, <1>1, OpFacts DEF NewBook, Is, Creates, Goal, Removes
  <1>3. CASE world' = world /\ d \in hit
    BY <1>0, <1>1, <1>3 DEF Single
  <1>4. CASE world' = world /\ d \notin hit
    <2>1. d = c /\ (RequestShape(c) \/ Land(c))
      BY <1>0, <1>4, Frame DEF Shape, PreviewShape, Confirm, RecheckShape, PrepareShape, SettleShape,
         ReadOnly, history
    <2>2. Applies(c) /\ world' = Applied(c)
      BY <1>4, <2>1 DEF RequestShape, Land
    <2> QED BY <1>1, <1>2, <2>1, <2>2 DEF Applied, Typed, World
  <1>5. CASE world' = [world EXCEPT ![op[c].obj] = Goal(c)] /\ pc[c] # "new"
    <2>1. CASE d = c
      BY <1>1, <1>2, <1>5, <2>1 DEF Typed, World
    <2>2. CASE d # c
      <3>1. op[c].obj # d
        BY <1>0, <1>5, <2>2, OpFacts, ObjectAssumption
      <3> QED BY <1>0, <1>1, <1>2, <1>5, <2>2, <3>1, Frame DEF Single, Typed, World
    <2> QED BY <2>1, <2>2
  <1> QED BY <1>3, <1>4, <1>5, Writes

LEMMA SingleStep ==
    ASSUME Typed, Shaped, Ordered, Locked, Own, Single, NEW c \in Change, Shape(c)
    PROVE  Single'
  <1>1. ASSUME edits' = 0, NEW d \in hit' \ unanswered', NEW e \in Change, d # e,
               NewBook(d)', NewBook(e)', pc'[e] = "sending"
        PROVE  op'[d].val # op'[e].val
    <2>0. d \in Change /\ edits = 0 /\ pc'[d] # "new"
      BY <1>1, ShapeTypes, Frame DEF Typed, NewBook
    <2>1. CASE e = c
      <3>1. PrepareShape(c)
        BY <1>1, <2>1, SentFacts DEF Shape, PreviewShape, Confirm, RecheckShape, RequestShape, Land,
           SettleShape, End, Typed, Reading, Ordered, Before, control
      <3>2. /\ Possible(op[c], world) /\ SameBaseline(c) /\ hit' = hit
            /\ op' = op /\ world' = world /\ pc[c] = "preparing" /\ family' = family
        BY <1>1, <2>1, <3>1 DEF PrepareShape, End, Typed
      <3>3. world[d] # op[c].val
        <4>1. NewBook(c)
          BY <1>1, <2>1, <3>2 DEF NewBook, Is
        <4> QED BY <1>1, <2>0, <2>1, <3>2, <4>1, NotYet DEF Before, Object
      <3>4. world'[d] = op'[d].val
        BY <1>1, KeepsName
      <3> QED BY <2>1, <3>2, <3>3, <3>4
    <2>2. CASE e # c
      <3>1. pc[e] = "sending" /\ op'[e] = op[e] /\ NewBook(e)
        BY <1>1, <2>2, Frame DEF NewBook, Is
      <3>2. CASE d # c
        BY <1>1, <2>0, <3>1, <3>2, Frame DEF NewBook, Is, Single
      <3>3. CASE d = c /\ d \in hit /\ d \notin unanswered
        <4>1. NewBook(d) /\ op'[d] = op[d]
          BY <1>1, <2>0, <3>3, Frame DEF NewBook, Is, Ordered, Before
        <4> QED BY <1>1, <2>0, <3>1, <3>3, <4>1 DEF Single
      <3>4. CASE d = c /\ (d \notin hit \/ d \in unanswered)
        <4>1. unanswered \subseteq unanswered'
          BY DEF Shape, PreviewShape, Confirm, RecheckShape, PrepareShape, RequestShape, Land,
             SettleShape, ReadOnly, history
        <4>2. ~Land(c)
          BY <1>1, <3>4 DEF Land, Ordered
        <4>3. RequestShape(c)
          BY <1>1, <3>4, <4>1, <4>2 DEF Shape, PreviewShape, Confirm, RecheckShape, PrepareShape,
             SettleShape, ReadOnly, history
        <4>4. Is(c, "book", "create") /\ Is(e, "book", "create")
          BY <1>1, <3>1, <3>4, <4>3 DEF RequestShape, NewBook, Is
        <4> QED BY <1>1, <3>1, <3>4, <4>3, <4>4, Excluded DEF RequestShape, Inside
      <3> QED BY <3>2, <3>3, <3>4
    <2> QED BY <2>1, <2>2
  <1> QED BY <1>1, KeepsName DEF Single

LEMMA NoTwinStep ==
    ASSUME Typed, Shaped, Ordered, Locked, Own, Single, NoTwinBooks, NEW c \in Change, Shape(c)
    PROVE  NoTwinBooks'
  <1> SUFFICES ASSUME NEW d \in hit', NEW e \in hit', d # e, edits' = 0,
                      Is(d, "book", "create")', Is(e, "book", "create")', op'[d].val = op'[e].val,
                      d \notin unanswered', e \notin unanswered'
               PROVE  FALSE
    BY DEF NoTwinBooks
  <1>0. d \in Change /\ e \in Change /\ edits = 0 /\ family' = family
    BY ShapeTypes, Frame DEF Typed
  <1>1. unanswered \subseteq unanswered'
    BY DEF Shape, PreviewShape, Confirm, RecheckShape, PrepareShape, RequestShape, Land,
       SettleShape, ReadOnly, history
  <1>2. ASSUME NEW f \in Change, f \in hit, Is(f, "book", "create")'
        PROVE  NewBook(f) /\ op'[f] = op[f]
    <2>1. pc[f] # "new"
      BY <1>2 DEF Ordered, Before
    <2> QED BY <1>0, <1>2, <2>1, Frame DEF NewBook, Is
  <1>3. ASSUME NEW f \in Change, NEW g \in Change, f # g, f \in hit, g \in hit', g \notin hit,
               Is(f, "book", "create")', Is(g, "book", "create")',
               f \notin unanswered, g \notin unanswered'
        PROVE  op'[f].val # op'[g].val
    <2>1. g = c
      BY <1>3, Frame
    <2>2. ~Land(c)
      BY <1>1, <1>3, <2>1 DEF Land, Ordered
    <2>3. RequestShape(c)
      BY <1>3, <2>1, <2>2 DEF Shape, PreviewShape, Confirm, RecheckShape, PrepareShape,
         SettleShape, ReadOnly, history
    <2>4. pc[c] = "sending" /\ NewBook(c) /\ op'[c] = op[c]
      BY <1>0, <1>3, <2>1, <2>3 DEF RequestShape, NewBook, Is
    <2>5. NewBook(f) /\ op'[f] = op[f]
      BY <1>2, <1>3
    <2> QED BY <1>0, <1>3, <2>1, <2>4, <2>5 DEF Single
  <1>4. CASE d \in hit /\ e \in hit
    BY <1>0, <1>1, <1>2, <1>4 DEF NoTwinBooks, NewBook
  <1>5. CASE d \notin hit /\ e \notin hit
    BY <1>0, <1>5, Frame
  <1>6. CASE d \in hit /\ e \notin hit
    BY <1>0, <1>1, <1>3, <1>6
  <1>7. CASE d \notin hit /\ e \in hit
    BY <1>0, <1>1, <1>3, <1>7
  <1> QED BY <1>4, <1>5, <1>6, <1>7

-----------------------------------------------------------------------------
(* A colleague's write.                                                    *)

LEMMA EditStep ==
    ASSUME IInv, NEW o \in Object, NEW v \in Value \cup {Absent}, Edit(o, v)
    PROVE  IInv'
  <1> USE DEF IInv
  <1>1. /\ world' = [world EXCEPT ![o] = v] /\ echo' = Echoed(Nobody) /\ calm' = {}
        /\ edits' # 0
        /\ o \in Old \/ world[o] # Absent
        /\ UNCHANGED <<family, filled, late, control, sent, unanswered, hit, lost>>
    BY DEF Edit, Typed
  <1>2. Typed'
    BY EditTypes
  <1>3. Shaped' /\ Ordered' /\ Locked'
    BY <1>1 DEF Shaped, Ordered, Locked, control
  <1>4. Own'
    <2>1. ASSUME NEW c \in Change, c \notin hit
          PROVE  world'[c] = Absent
      <3>1. c # o
        BY <1>1, <2>1, ObjectAssumption DEF Own
      <3> QED BY <1>1, <2>1, <3>1 DEF Own, Typed, World, Object
    <2> QED BY <1>1, <2>1 DEF Own, control
  <1>5. ConflictSentNothing' /\ Taken' /\ Saved' /\ Quiet'
    BY <1>1 DEF ConflictSentNothing, Ended, Taken, Is, Saved, Quiet, control
  <1>6. Effective'
    <2>1. ASSUME NEW c \in Change, pc[c] \in Reading \cup {"sending"}, Effect(c, world')
          PROVE  c \in echo'
      BY <1>1, <2>1, NamesAssumption DEF Echoed, Open, Reading
    <2>2. ASSUME NEW c \in Change, Effect(c, world)'
          PROVE  Effect(c, world')
      BY <1>1, <2>2 DEF Effect, Is, Goal, Removes, control
    <2>3. pc' = pc /\ hit' = hit
      BY <1>1 DEF control
    <2> QED BY <2>1, <2>2, <2>3 DEF Effective, Accounted
  <1>7. Believed'
    BY <1>1 DEF Believed, Ended, Accounted, Echoed, control
  <1>8. Single' /\ NoTwinBooks'
    BY <1>1 DEF Single, NoTwinBooks
  <1> QED BY <1>2, <1>3, <1>4, <1>5, <1>6, <1>7, <1>8

LEMMA StepIsShape ==
    ASSUME Typed, Shaped, Taken, [Next]_vars
    PROVE  \/ \E c \in Change : Shape(c)
           \/ \E o \in Object, v \in Value \cup {Absent} : Edit(o, v)
           \/ UNCHANGED vars
  <1>1. ASSUME NEW c \in Change,
               RecheckMember(c) \/ RecheckObject(c) \/ RecheckBook(c)
        PROVE  Shape(c)
    BY <1>1, RecheckIsShape DEF Shape
  <1>2. ASSUME NEW c \in Change, PreviewAny(c) \/ Confirm(c) \/ Prepare(c) \/ Send(c) \/ Land(c)
        PROVE  Shape(c)
    BY <1>2, PreviewIsShape, PrepareIsShape, SendIsShape DEF Shape
  <1>3. ASSUME NEW c \in Change, FindBook(c) \/ FindObject(c) \/ FindUpdated(c) \/ Verify(c)
        PROVE  Shape(c)
    BY <1>3, FindBookSettles, FindObjectSettles, FindUpdatedSettles, VerifySettles DEF Shape
  <1> QED BY <1>1, <1>2, <1>3 DEF Next

LEMMA NextInv == IInv /\ [Next]_vars => IInv'
  <1> SUFFICES ASSUME IInv, [Next]_vars PROVE IInv'
    OBVIOUS
  <1>1. ASSUME NEW c \in Change, Shape(c)
        PROVE  IInv'
    BY <1>1, ShapeTypes, ShapedStep, OrderedStep, LockedStep, OwnStep, ConflictStep, EffectiveStep,
       TakenStep, BelievedStep, SavedStep, QuietStep, SingleStep, NoTwinStep DEF IInv
  <1>2. CASE UNCHANGED vars
    BY <1>2 DEF vars, control, history, IInv, Typed, Shaped, Ordered, Locked, Own,
       ConflictSentNothing, Ended, Effective, Effect, Is, Goal, Removes, Accounted, Taken, Believed,
       Saved, Quiet, Previewed, Target, Single, NewBook, NoTwinBooks
  <1> QED BY <1>1, <1>2, StepIsShape, EditStep DEF IInv

LEMMA Invariance == Spec => []IInv
  BY InitInv, NextInv, PTL DEF Spec

-----------------------------------------------------------------------------
(* The theorems.                                                           *)

\* Every change keeps to the shape of its family, and every variable to its
\* type, whatever is confirmed, answered or edited (change-service.ts).
THEOREM TypeCorrect == Spec => []TypeOK
  <1>1. ASSUME Typed, Shaped PROVE TypeOK
    <2>1. ASSUME NEW c \in Change PROVE op[c] = NoOp \/ op[c].obj \in Object
      BY <1>1, OpFacts DEF Shaped
    <2>2. /\ family \in Family /\ world \in World /\ edits \in 0 .. MaxEdits
          /\ late \cup sent \cup unanswered \cup hit \cup echo \cup calm \cup lost \cup filled
               \subseteq Change
      BY <1>1 DEF Typed
    <2>3. ASSUME NEW c \in Change
          PROVE  /\ base[c] \in World /\ seen[c] \in World /\ snap[c] \in Value \cup {Absent}
                 /\ tries[c] \in 0 .. 2 /\ made[c] \in Object \cup {Nobody}
                 /\ verdict[c] \in Verdict
      BY <1>1 DEF Typed
    <2> QED BY <2>1, <2>2, <2>3 DEF TypeOK, Verdict
  <1> QED BY <1>1, Invariance, PTL DEF IInv

\* A change recorded as succeeded had its effect, by its own request or by
\* somebody else's equal one, and a conflict is only recorded when no request
\* was sent (the read-backs and reconciliations of yuque-client.ts).
THEOREM OutcomeIsTrueHolds == Spec => []OutcomeIsTrue
  <1>1. IInv => SuccessIsReal /\ ConflictSentNothing
    BY DEF IInv, Believed, Ended, Accounted, SuccessIsReal
  <1> QED BY <1>1, TypeCorrect, Invariance, PTL DEF OutcomeIsTrue

\* No confirm of the process replaces what its preview had not read, unless a
\* colleague or a late request wrote after the last read; and what a deletion
\* takes away is in its snapshot (withTargetLocks, execute of delete_doc).
THEOREM BaselineReplacedHolds == Spec => []BaselineReplaced
  <1>1. IInv => BaselineReplaced
    BY DEF IInv, Quiet, Saved, Typed, BaselineReplaced, DeletedIsSaved
  <1> QED BY <1>1, Invariance, PTL

\* Two new knowledge bases of one name need a request without an answer: the
\* lock of the dashboard covers both checks and both requests.
THEOREM NoTwinBooksHolds == Spec => []NoTwinBooks
  <1>1. IInv => NoTwinBooks
    BY DEF IInv
  <1> QED BY <1>1, Invariance, PTL
=============================================================================
