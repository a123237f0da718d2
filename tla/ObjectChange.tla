---------------------------- MODULE ObjectChange ----------------------------
(***************************************************************************)
(* The changes that create, change or remove one object of a collection:   *)
(* knowledge bases of the account, documents and sheets of a knowledge     *)
(* base, its collaborators, the comments of a document.  They share one    *)
(* shape -- read, compare with the preview, one request, a read-back --    *)
(* and differ in what the fingerprint covers, which read reconciles an     *)
(* unanswered request, and what each failing read means.                   *)
(*                                                                         *)
(* An object is a book or comment id, a document slug or a login; its      *)
(* value is the name, title, text or role the change is about.  A request  *)
(* that was not answered may have been applied, be lost, or land later.    *)
(* Outcomes and answers are those of DocUpdate; the collection is external.*)
(***************************************************************************)
EXTENDS Naturals, FiniteSets

CONSTANTS
    Change,    \* confirms of the process
    Old,       \* objects numbered by others; a change's own object is the change
    Value,     \* names, titles, texts, roles
    First,     \* value of the object that is there at the start
    Family,    \* families considered
    MaxEdits   \* bound: writes of a colleague

ASSUME ObjectAssumption ==
    /\ First \in Value /\ MaxEdits \in Nat /\ Old \cap Change = {}
    /\ Family \subseteq {"book", "document", "collaborator", "comment"}

VARIABLES
    family,    \* what the collection holds
    world,     \* the collection at Yuque
    filled,    \* sheets whose first worksheet was initialized
    edits,     \* writes of the colleague so far
    late,      \* unanswered requests still on their way
    op,        \* the stored operation of each change
    base,      \* the collection its preview read
    seen,      \* the collection its client read before the request
    snap,      \* the value its encrypted snapshot holds
    holder,    \* the confirm inside each local lock key
    pc, tries, \* where it is; reads of findCreated... so far
    made,      \* the object it takes for the one it wrote
    gone,      \* catalogAbsent, listAbsent
    verdict,   \* the recorded outcome
    sent, unanswered, hit, echo, calm, lost  \* history, see Properties

control == <<op, base, seen, snap, holder, pc, tries, made, gone, verdict>>
history == <<sent, unanswered, hit, echo, calm, lost>>
vars == <<family, world, filled, edits, late, control, history>>

Absent == "absent"
Nobody == "nobody"
ASSUME NamesAssumption == Absent \notin Value /\ Nobody \notin Change

Object == Old \cup Change
World  == [Object -> Value \cup {Absent}]
NoOp   == [kind |-> "none", obj |-> Nobody, val |-> Absent, key |-> Nobody]

TypeOK ==
    /\ family \in Family /\ world \in World /\ edits \in 0 .. MaxEdits
    /\ late \cup sent \cup unanswered \cup hit \cup echo \cup calm \cup lost \cup filled
         \subseteq Change
    /\ \A c \in Change :
        /\ op[c] = NoOp \/ op[c].obj \in Object
        /\ base[c] \in World /\ seen[c] \in World /\ snap[c] \in Value \cup {Absent}
        /\ tries[c] \in 0 .. 2 /\ made[c] \in Object \cup {Nobody}
        /\ verdict[c] \in {"none", "succeeded", "unknown", "failed", "conflict", "partial"}

Init ==
    /\ family \in Family
    /\ \E f \in Old : world = [o \in Object |-> IF o = f THEN First ELSE Absent]
    /\ edits = 0
    /\ late = {} /\ filled = {}
    /\ op = [c \in Change |-> NoOp]
    /\ base = [c \in Change |-> world] /\ seen = [c \in Change |-> world]
    /\ snap = [c \in Change |-> Absent]
    /\ holder = [k \in Object \cup Family |-> Nobody]
    /\ pc = [c \in Change |-> "new"]
    /\ tries = [c \in Change |-> 0]
    /\ made = [c \in Change |-> Nobody]
    /\ gone = [c \in Change |-> FALSE]
    /\ verdict = [c \in Change |-> "none"]
    /\ sent = {} /\ unanswered = {} /\ hit = {} /\ echo = {}
    /\ calm = {} /\ lost = {}

Is(c, f, kind) == family = f /\ op[c].kind = kind
Creates(c) == op[c].kind \in {"create", "create_sheet"}
Removes(c) == op[c].kind = "delete"
Target(c)  == world[op[c].obj]
Goal(c)    == IF Removes(c) THEN Absent ELSE op[c].val

Answer == {"ok", "refused", "uncertain"}
Errors == Answer \ {"ok"}
Recorded(a) == IF a = "uncertain" THEN "unknown" ELSE "failed"

Goto(c, step) == pc' = [pc EXCEPT ![c] = step] /\ UNCHANGED <<holder, verdict>>

\* The local lock goes and the row gets its state.
End(c, v) ==
    /\ verdict' = [verdict EXCEPT ![c] = v]
    /\ pc' = [pc EXCEPT ![c] = "done"]
    /\ holder' = [holder EXCEPT ![op[c].key] = Nobody]

Fails(c) == \E a \in Errors : End(c, Recorded(a))

\* Nothing at Yuque changes.
ReadOnly == UNCHANGED <<family, world, filled, edits, late, history>>

-----------------------------------------------------------------------------
(* The prepare... methods: whether operation o makes sense in collection w. *)

\* Another book of the account, or document of the directory, has the name.
Duplicate(o, w) == \E p \in Object \ {o.obj} : w[p] = o.val

CanCreateBook(o, w) == ~Duplicate(o, w)
CanUpdateBook(o, w) == w[o.obj] \notin {Absent, o.val} /\ ~Duplicate(o, w)
CanDelete(o, w)     == w[o.obj] # Absent

\* One catalog node, and a title no other document of the directory has.
CanCreateObject(o, w) == ~Duplicate(o, w)

\* An invitation needs a login that is not in the list, the rest one that is;
\* a role must change.
CanChangeMember(o, w) ==
    /\ o.kind = "create" => w[o.obj] = Absent
    /\ o.kind = "update" => w[o.obj] \notin {Absent, o.val}
    /\ o.kind = "delete" => w[o.obj] # Absent

CanChangeComment(o, w) ==
    /\ o.kind = "update" => w[o.obj] \notin {Absent, o.val}
    /\ o.kind = "delete" => w[o.obj] # Absent

Possible(o, w) ==
    /\ family = "collaborator" => CanChangeMember(o, w)
    /\ family = "comment" => CanChangeComment(o, w)
    /\ family = "book" /\ o.kind = "create" => CanCreateBook(o, w)
    /\ family = "book" /\ o.kind = "update" => CanUpdateBook(o, w)
    /\ family = "document" /\ o.kind # "delete" => CanCreateObject(o, w)
    /\ family \in {"book", "document"} /\ o.kind = "delete" => CanDelete(o, w)

-----------------------------------------------------------------------------
(* Previews.  The key is the payload's targetUrl, the local lock's key.    *)

Preview(c, kind, obj, val, key) ==
    LET o == [kind |-> kind, obj |-> obj, val |-> val, key |-> key]
    IN  /\ pc[c] = "new"
        /\ Possible(o, world)
        /\ op' = [op EXCEPT ![c] = o]
        /\ base' = [base EXCEPT ![c] = world]
        /\ Goto(c, "previewed")
        /\ UNCHANGED <<seen, snap, tries, made, gone>> /\ ReadOnly

MutantPreviewCreateBook(c) ==
    family = "book" /\ \E v \in Value : Preview(c, "create", c, v, c)

\* All new books of the account share the dashboard's URL.
PreviewCreateBook(c) ==
    family = "book" /\ \E v \in Value : Preview(c, "create", c, v, "book")

PreviewUpdateBook(c) ==
    family = "book" /\ \E o \in Old, v \in Value : Preview(c, "update", o, v, o)

\* The fingerprint is of the book's detail and of its catalog: one value stands for both.
PreviewDeleteBook(c) ==
    family = "book" /\ \E o \in Old : Preview(c, "delete", o, First, o)

\* The slug is drawn by the preview: no two creations share a lock.
PreviewCreateDoc(c) ==
    family = "document" /\ \E v \in Value : Preview(c, "create", c, v, c)

PreviewCreateSheet(c) ==
    family = "document" /\ \E v \in Value : Preview(c, "create_sheet", c, v, c)

PreviewDeleteObject(c) ==
    family = "document" /\ \E o \in Old : Preview(c, "delete", o, First, o)

MutantPreviewMember(c) ==
    /\ family = "collaborator"
    /\ \E kind \in {"create", "update", "delete"}, o \in Old, v \in Value :
        (kind = "delete" => v = First) /\ Preview(c, kind, o, v, o)

\* previewChangeBookCollaborator: the key is the book.
PreviewMember(c) ==
    /\ family = "collaborator"
    /\ \E kind \in {"create", "update", "delete"}, o \in Old, v \in Value :
        (kind = "delete" => v = First) /\ Preview(c, kind, o, v, "collaborator")

\* The key is the document.
PreviewComment(c) ==
    /\ family = "comment"
    /\ \E kind \in {"create", "update", "delete"}, o \in Old \cup {c}, v \in Value :
        /\ kind = "create" <=> o = c
        /\ kind = "delete" => v = First
        /\ Preview(c, kind, o, v, "comment")

-----------------------------------------------------------------------------
(* Before the request.                                                     *)

\* The fingerprint is of the whole list, of the object, or there is none.
SameBaseline(c) ==
    /\ family \in {"collaborator", "comment"} => world = base[c]
    /\ family \in {"book", "document"} /\ ~Creates(c) => Target(c) = base[c][op[c].obj]

\* The kinds whose execute() compares a prepare of its own first.
Rechecks(c) == family = "collaborator" \/ (family \in {"book", "document"} /\ Removes(c))

Confirm(c) ==
    /\ pc[c] = "previewed"
    /\ holder[op[c].key] = Nobody
    /\ holder' = [holder EXCEPT ![op[c].key] = c]
    /\ pc' = [pc EXCEPT ![c] = IF Rechecks(c) THEN "rechecking" ELSE "preparing"]
    /\ UNCHANGED <<op, base, seen, snap, tries, made, gone, verdict>> /\ ReadOnly

\* A difference found by execute() itself is a conflict.
Recheck(c) ==
    /\ pc[c] = "rechecking"
    /\ \/ Possible(op[c], world) /\ SameBaseline(c) /\ Goto(c, "preparing")
       \/ Possible(op[c], world) /\ ~SameBaseline(c) /\ End(c, "conflict")
       \/ ~Possible(op[c], world) /\ End(c, "failed")
       \/ Fails(c)
    /\ UNCHANGED <<op, base, seen, tries, made, gone>> /\ ReadOnly

RecheckMember(c) == family = "collaborator" /\ Recheck(c) /\ UNCHANGED snap
RecheckBook(c)   == family = "book" /\ Recheck(c) /\ UNCHANGED snap

\* The whole object is in a snapshot before the deletion goes on.
RecheckObject(c) ==
    /\ family = "document" /\ Recheck(c)
    /\ snap' = IF pc'[c] = "preparing" THEN [snap EXCEPT ![c] = Target(c)] ELSE snap

\* The client's prepare and compare: a difference is a contract error.
Prepare(c) ==
    /\ pc[c] = "preparing"
    /\ seen' = [seen EXCEPT ![c] = world]
    /\ \/ Possible(op[c], world) /\ SameBaseline(c) /\ Goto(c, "sending")
       \/ ~(Possible(op[c], world) /\ SameBaseline(c)) /\ End(c, "failed")
       \/ Fails(c)
    /\ calm' = calm \cup {c}
    /\ UNCHANGED <<op, base, snap, tries, made, gone, family, world, filled, edits, late,
                   sent, unanswered, hit, echo, lost>>

-----------------------------------------------------------------------------
(* The request.                                                            *)

\* Yuque checks that the object is there, or not, and nothing else.
Applies(c) == IF Creates(c) THEN Target(c) = Absent ELSE Target(c) # Absent
Applied(c) == [world EXCEPT ![op[c].obj] = Goal(c)]

\* c's effect, as its own read-back can see it.
Effect(c, w) ==
    IF Is(c, "book", "create") THEN \E o \in Object : w[o] = op[c].val
    ELSE w[op[c].obj] = Goal(c)

Open(c) ==
    pc[c] \in {"sending", "reconciling", "locating", "verifying", "rereading", "initializing"}
Echoed(who) == echo \cup {d \in Change \ {who} : Open(d) /\ Effect(d, world')}

\* The request meets what the preview read: the list, or the object.
Previewed(c) ==
    IF family \in {"collaborator", "comment"} THEN world = base[c]
    ELSE Target(c) = base[c][op[c].obj]

\* One request, answered or not: where to go then.  A refusal may have been
\* applied too, when it is a response of a shape nobody expected.
Request(c, answered, otherwise) ==
    /\ pc[c] = "sending"
    /\ sent' = sent \cup {c}
    /\ made' = [made EXCEPT ![c] = op[c].obj]
    /\ \E a \in Answer, reached \in BOOLEAN, delayed \in BOOLEAN :
        /\ a = "ok" => reached
        /\ reached => Applies(c)
        /\ delayed => a = "uncertain" /\ ~reached
        /\ world' = IF reached THEN Applied(c) ELSE world
        /\ hit' = IF reached THEN hit \cup {c} ELSE hit
        /\ late' = IF delayed THEN late \cup {c} ELSE late
        /\ unanswered' = IF a = "uncertain" THEN unanswered \cup {c} ELSE unanswered
        /\ lost' = IF reached /\ c \in calm /\ ~Previewed(c) THEN lost \cup {c} ELSE lost
        /\ echo' = Echoed(c)
        /\ \/ a = "ok" /\ Goto(c, answered)
           \/ a = "refused" /\ End(c, "failed")
           \/ /\ a = "uncertain"
              /\ IF otherwise = "unknown" THEN End(c, "unknown") ELSE Goto(c, otherwise)
    /\ UNCHANGED <<family, filled, edits, op, base, seen, snap, tries, gone, calm>>

CreateBook(c)    == Is(c, "book", "create") /\ Request(c, "verifying", "reconciling")
UpdateBook(c)    == Is(c, "book", "update") /\ Request(c, "verifying", "reconciling")
DeleteBook(c)    == Is(c, "book", "delete") /\ Request(c, "verifying", "verifying")
CreateDoc(c)     == Is(c, "document", "create") /\ Request(c, "locating", "reconciling")
CreateSheet(c)   == Is(c, "document", "create_sheet") /\ Request(c, "locating", "reconciling")
DeleteObject(c)  == Is(c, "document", "delete") /\ Request(c, "verifying", "verifying")
ChangeMember(c)  == family = "collaborator" /\ Request(c, "verifying", "verifying")
ChangeComment(c) == family = "comment" /\ Request(c, "verifying", "unknown")

\* An unanswered request arrives after all.
Land(c) ==
    /\ c \in late
    /\ late' = late \ {c}
    /\ world' = IF Applies(c) THEN Applied(c) ELSE world
    /\ hit' = IF Applies(c) THEN hit \cup {c} ELSE hit
    /\ echo' = Echoed(c)
    /\ calm' = {}
    /\ UNCHANGED <<family, filled, edits, control, sent, unanswered, lost>>

-----------------------------------------------------------------------------
(* Reconciliation of an unanswered request.                                *)

\* Three reads at most.
Again(c) == /\ tries[c] < 2
            /\ tries' = [tries EXCEPT ![c] = @ + 1]
            /\ Goto(c, pc[c])

\* findCreatedPersonalBook: the only book of that name is taken for ours.
FindBook(c) ==
    LET named == {o \in Object : world[o] = op[c].val}
    IN  /\ pc[c] = "reconciling" /\ Is(c, "book", "create")
        /\ \/ /\ Cardinality(named) = 1
              /\ \E o \in named : made' = [made EXCEPT ![c] = o]
              /\ tries' = [tries EXCEPT ![c] = 0]
              /\ Goto(c, "verifying")
           \/ Cardinality(named) > 1 /\ End(c, "failed") /\ UNCHANGED <<made, tries>>
           \/ named = {} /\ Again(c) /\ UNCHANGED made
           \/ named = {} /\ tries[c] = 2 /\ End(c, "unknown") /\ UNCHANGED <<made, tries>>
           \/ Fails(c) /\ UNCHANGED <<made, tries>>
        /\ UNCHANGED <<op, base, seen, snap, gone>> /\ ReadOnly

\* findCreatedObject, by slug and title.
FindObject(c) ==
    /\ pc[c] = "reconciling" /\ family = "document"
    /\ \/ /\ Target(c) = op[c].val
          /\ tries' = [tries EXCEPT ![c] = 0]
          /\ Goto(c, "locating")
       \/ Target(c) # op[c].val /\ Again(c)
       \/ Target(c) # op[c].val /\ tries[c] = 2 /\ End(c, "unknown") /\ UNCHANGED tries
       \/ Fails(c) /\ UNCHANGED tries
    /\ UNCHANGED <<op, base, seen, snap, made, gone>> /\ ReadOnly

\* updatePersonalBook: one resolveBook; a book no longer there is an error.
FindUpdated(c) ==
    /\ pc[c] = "reconciling" /\ Is(c, "book", "update")
    /\ \/ Target(c) = op[c].val /\ Goto(c, "verifying")
       \/ Target(c) \notin {op[c].val, Absent} /\ End(c, "unknown")
       \/ Target(c) = Absent /\ End(c, "failed")
       \/ Fails(c)
    /\ UNCHANGED <<op, base, seen, snap, tries, made, gone>> /\ ReadOnly

-----------------------------------------------------------------------------
(* Read-back.                                                              *)

ReadsBack(c) == world[made[c]] = Goal(c)

ReadBack(c, otherwise) == End(c, IF ReadsBack(c) THEN "succeeded" ELSE otherwise)

\* By id and name, three reads.
VerifyBook(c) ==
    /\ pc[c] = "verifying" /\ Is(c, "book", "create")
    /\ \/ ~ReadsBack(c) /\ Again(c)
       \/ (ReadsBack(c) \/ tries[c] = 2) /\ ReadBack(c, "failed") /\ UNCHANGED tries
       \/ Fails(c) /\ UNCHANGED tries
    /\ UNCHANGED <<op, base, seen, snap, made, gone>> /\ ReadOnly

VerifyOnce(c, otherwise) ==
    /\ pc[c] = "verifying"
    /\ ReadBack(c, otherwise) \/ Fails(c)
    /\ UNCHANGED <<op, base, seen, snap, tries, made, gone>> /\ ReadOnly

VerifyUpdated(c) == Is(c, "book", "update") /\ VerifyOnce(c, "failed")
VerifyComment(c) == family = "comment" /\ VerifyOnce(c, "failed")
VerifyMember(c)  ==
    family = "collaborator" /\ VerifyOnce(c, IF c \in unanswered THEN "unknown" ELSE "failed")

\* findCreatedObject again, after an answered creation or its reconciliation:
\* the object may be found without its node in the catalog, or not at all.
Locate(c) ==
    /\ pc[c] = "locating"
    /\ \/ Target(c) = op[c].val /\ Goto(c, "verifying") /\ UNCHANGED tries
       \/ Target(c) = op[c].val /\ End(c, "partial") /\ UNCHANGED tries
       \/ Target(c) # op[c].val /\ Again(c)
       \/ Target(c) # op[c].val /\ tries[c] = 2 /\ End(c, "partial") /\ UNCHANGED tries
       \/ Fails(c) /\ UNCHANGED tries
    /\ UNCHANGED <<op, base, seen, snap, made, gone>> /\ ReadOnly

\* getDoc or getSheet of the new object: whatever goes wrong is partial.
VerifyCreated(c, next) ==
    /\ pc[c] = "verifying"
    /\ \/ Target(c) = op[c].val /\ next
       \/ End(c, "partial")
    /\ UNCHANGED <<op, base, seen, snap, tries, made, gone>> /\ ReadOnly

VerifyDoc(c) == Is(c, "document", "create") /\ VerifyCreated(c, End(c, "succeeded"))
VerifySheet(c) == Is(c, "document", "create_sheet") /\ VerifyCreated(c, Goto(c, "initializing"))

\* The first worksheet: any error of initializeSheetDraft is followed by a
\* read; an accepted one too, and that read's error ends the confirm.
Initialize(c) ==
    /\ pc[c] = "initializing"
    /\ \E a \in Answer, reached \in BOOLEAN, readable \in BOOLEAN :
        /\ a = "ok" => reached
        /\ reached => Target(c) # Absent
        /\ filled' = IF reached THEN filled \cup {c} ELSE filled
        /\ LET initialized == readable /\ c \in filled'
           IN  \/ initialized /\ End(c, "succeeded")
               \/ ~initialized /\ a = "ok" /\ Fails(c)
               \/ ~initialized /\ a # "ok" /\ End(c, "partial")
    /\ UNCHANGED <<family, world, edits, late, op, base, seen, snap, tries, made, gone, history>>

\* The catalog, or the list of books, after a removal.
VerifyGone(c) ==
    /\ pc[c] = "verifying" /\ family \in {"book", "document"} /\ Removes(c)
    /\ \/ gone' = [gone EXCEPT ![c] = Target(c) = Absent] /\ Goto(c, "rereading")
       \/ Fails(c) /\ UNCHANGED gone
    /\ UNCHANGED <<op, base, seen, snap, tries, made>> /\ ReadOnly

MutantTrashed(c, rejected) == rejected
Trashed(c, rejected) == gone[c] /\ rejected

Reread(c, rejected) ==
    /\ pc[c] = "rereading"
    /\ ~rejected => Target(c) # Absent
    /\ End(c, IF Trashed(c, rejected) THEN "succeeded" ELSE "unknown")
    /\ UNCHANGED <<op, base, seen, snap, tries, made, gone>> /\ ReadOnly

\* The direct read of a document: only 404 is a rejection.
RereadObject(c) ==
    /\ family = "document" /\ pc[c] = "rereading"
    /\ \/ \E rejected \in BOOLEAN : (rejected => Target(c) = Absent) /\ Reread(c, rejected)
       \/ /\ Fails(c)
          /\ UNCHANGED <<op, base, seen, snap, tries, made, gone>> /\ ReadOnly

\* Of a book: whatever goes wrong is one.
RereadBook(c) == family = "book" /\ \E rejected \in BOOLEAN : Reread(c, rejected)

-----------------------------------------------------------------------------
\* A colleague, or the owner in the web page.
Edit(o, v) ==
    /\ edits < MaxEdits
    /\ o \in Old \/ world[o] # Absent
    /\ v # world[o]
    /\ edits' = edits + 1
    /\ world' = [world EXCEPT ![o] = v]
    /\ echo' = Echoed(Nobody)
    /\ calm' = {}
    /\ UNCHANGED <<family, filled, late, control, sent, unanswered, hit, lost>>

PreviewAny(c) ==
    \/ PreviewCreateBook(c) \/ PreviewUpdateBook(c) \/ PreviewDeleteBook(c)
    \/ PreviewCreateDoc(c) \/ PreviewCreateSheet(c) \/ PreviewDeleteObject(c)
    \/ PreviewMember(c) \/ PreviewComment(c)

Send(c) ==
    \/ CreateBook(c) \/ UpdateBook(c) \/ DeleteBook(c)
    \/ CreateDoc(c) \/ CreateSheet(c) \/ DeleteObject(c)
    \/ ChangeMember(c) \/ ChangeComment(c)

Verify(c) ==
    \/ VerifyBook(c) \/ VerifyUpdated(c) \/ VerifyMember(c) \/ VerifyComment(c)
    \/ Locate(c) \/ VerifyDoc(c) \/ VerifySheet(c) \/ Initialize(c)
    \/ VerifyGone(c) \/ RereadObject(c) \/ RereadBook(c)

Next ==
    \/ \E c \in Change :
        \/ PreviewAny(c) \/ Confirm(c)
        \/ RecheckMember(c) \/ RecheckObject(c) \/ RecheckBook(c) \/ Prepare(c)
        \/ Send(c) \/ Land(c)
        \/ FindBook(c) \/ FindObject(c) \/ FindUpdated(c)
        \/ Verify(c)
    \/ \E o \in Object, v \in Value \cup {Absent} : Edit(o, v)

Spec == Init /\ [][Next]_vars

-----------------------------------------------------------------------------
(* Properties.  sent: changes that sent their request; unanswered: those   *)
(* that got no answer; hit: those whose request was applied; echo: those   *)
(* whose effect somebody else had since the last read before the request;  *)
(* calm: no colleague and no late request wrote since that read; lost:     *)
(* requests applied, in the calm, to something their preview had not read. *)

Ended(c, v) == pc[c] = "done" /\ verdict[c] = v

SuccessIsReal == \A c \in Change : Ended(c, "succeeded") => c \in hit \cup echo

ConflictSentNothing == \A c \in Change : Ended(c, "conflict") => c \notin sent

\* A change recorded as succeeded had its effect: its own request was applied,
\* or, while it was being reconciled, somebody else did the same
\* (changeBookCollaborator, findCreatedPersonalBook, deleteObject, deleteBook);
\* and "conflict ... no write was attempted" is true: the request was not sent.
OutcomeIsTrue == TypeOK /\ SuccessIsReal /\ ConflictSentNothing

DeletedIsSaved ==
    \A c \in sent : Is(c, "document", "delete")
        => snap[c] # Absent /\ snap[c] = seen[c][op[c].obj]

\* A request never replaces something else than its preview showed, unless a
\* colleague or a late request came between the last read and the request:
\* two confirms of the process do not do that to each other (withTargetLocks,
\* baselineFingerprint).  And what the deletion of a document takes away is in
\* the snapshot taken before it (execute of delete_doc and delete_sheet).
BaselineReplaced == lost = {} /\ DeletedIsSaved

\* Two new knowledge bases of one name come only out of a request without an
\* answer: the lock of the dashboard and the duplicate check see to the rest.
NoTwinBooks ==
    \A c, d \in hit :
        /\ Is(c, "book", "create") /\ Is(d, "book", "create")
        /\ c # d /\ op[c].val = op[d].val /\ edits = 0
        => c \in unanswered \/ d \in unanswered
=============================================================================
