---------------------------- MODULE SessionFile ----------------------------
(***************************************************************************)
(* The encrypted session file of one employee (SessionStore) between the   *)
(* requests of the web client, which queue up per employee, load the file  *)
(* and write the cookie jar back, and the logins and logouts, which do not *)
(* queue.  A save writes <file>.tmp, whose name is fixed, renames it over  *)
(* the file and sets its mode; writers of one name share an inode, as      *)
(* writeFile truncates what it finds and keeps its descriptor.             *)
(*                                                                         *)
(* A step is one system call or one remote call with the code after it.    *)
(* A session is the login it stems from and the requests whose cookies it  *)
(* has; encryption is a bijection that fails on anything but a whole file. *)
(***************************************************************************)
EXTENDS Naturals, Sequences, FiniteSets

CONSTANTS
    Request,     \* calls of YuqueWebClient.request
    Login,       \* logins that save a session
    Idempotent,  \* requests whose endpoint is idempotent: tried twice
    Legacy       \* a session.enc of the single-tenant version is still there

ASSUME RequestAssumption == Idempotent \subseteq Request /\ Legacy \in BOOLEAN

VARIABLES
    queue,      \* the employee's promise queue
    pc,         \* where each request and login is
    saving,     \* what a save is for: "jar", "login", "migration"
    mem,        \* the session in its hands
    tries,      \* attempts of a request so far
    target,     \* inode of the session file, 0: absent
    tmp,        \* inode of the temporary file, 0: absent
    data,       \* what the inodes hold
    fd,         \* the inode a writer has open
    stored,     \* history: requests whose jar was saved without an error
    overlap     \* history: two saves were under way together

vars == <<queue, pc, saving, mem, tries, target, tmp, data, fd, stored, overlap>>

Writer == Request \cup Login
Inode  == 1 .. Cardinality(Writer) + 2
First  == "first"      \* the login of the session that is there initially
Old    == "legacy"     \* the one of session.enc
Jar    == [by: Login \cup {First, Old}, seen: SUBSET Request]
Fresh(l) == [by |-> l, seen |-> {}]
Empty  == Fresh("empty")
Mixed  == Fresh("mixed")   \* parts of two files

ASSUME WriterAssumption ==
    /\ IsFiniteSet(Writer) /\ Request \cap Login = {}
    /\ Login \cap {First, Old, Empty.by, Mixed.by} = {}

Step == {"new", "queued", "fetching", "removing", "open", "write", "rename", "chmod", "done"}

TypeOK ==
    /\ queue \in Seq(Request)
    /\ pc \in [Writer -> Step]
    /\ saving \in [Writer -> {"jar", "login", "migration"}]
    /\ mem \in [Writer -> Jar]
    /\ tries \in [Request -> 0 .. 2]
    /\ target \in Inode \cup {0} /\ tmp \in Inode \cup {0}
    /\ data \in [Inode -> Jar \cup {Empty, Mixed}]
    /\ fd \in [Writer -> Inode \cup {0}]
    /\ stored \subseteq Request
    /\ overlap \in BOOLEAN

Init ==
    /\ queue = <<>>
    /\ pc = [w \in Writer |-> "new"]
    /\ saving = [w \in Writer |-> IF w \in Login THEN "login" ELSE "jar"]
    /\ mem = [w \in Writer |-> Fresh(IF w \in Login THEN w ELSE First)]
    /\ tries = [r \in Request |-> 0]
    /\ target = 1 /\ tmp = 0
    /\ data = [i \in Inode |-> IF i = 1 THEN Fresh(First) ELSE Empty]
    /\ fd = [w \in Writer |-> 0]
    /\ stored = {} /\ overlap = FALSE

-----------------------------------------------------------------------------
Goto(w, step) == pc' = [pc EXCEPT ![w] = step]

files   == <<target, tmp, data, fd>>
history == <<stored, overlap>>

\* mutant: an expired login breaks the chain
MutantEnds(r) ==
    Goto(r, "done") /\ queue' = IF pc[r] = "removing" THEN queue ELSE Tail(queue)

\* A request that ends leaves the queue, whatever its end.
Ends(r) == Goto(r, "done") /\ queue' = Tail(queue)

\* request: withEmployeeQueue
Issue(r) ==
    /\ pc[r] = "new"
    /\ Goto(r, "queued")
    /\ queue' = Append(queue, r)
    /\ UNCHANGED <<saving, mem, tries, files, history>>

MutantTurn(r) == r \in {queue[i] : i \in 1 .. Len(queue)}  \* mutant: nobody waits
Turn(r) == queue # <<>> /\ Head(queue) = r

\* SessionStore.load and what it finds; without a file it looks for the file
\* of the single-tenant version and saves what that holds.
Load(r) ==
    /\ pc[r] = "queued" /\ Turn(r)
    /\ IF target # 0
       THEN IF data[target] \in Jar
            THEN /\ mem' = [mem EXCEPT ![r] = data[target]]
                 /\ Goto(r, "fetching")
                 /\ UNCHANGED <<saving, queue>>
            ELSE Ends(r) /\ UNCHANGED <<mem, saving>>
       ELSE IF Legacy
            THEN /\ mem' = [mem EXCEPT ![r] = Fresh(Old)]
                 /\ saving' = [saving EXCEPT ![r] = "migration"]
                 /\ Goto(r, "open")
                 /\ UNCHANGED queue
            ELSE Ends(r) /\ UNCHANGED <<mem, saving>>
    /\ UNCHANGED <<tries, files, history>>

\* May the request be tried again after an error that is no answer of Yuque?
Again(r) == r \in Idempotent /\ tries[r] < 2

\* fetchWithSession: an answer with new cookies, which are kept or (skipPersist)
\* not, an answer that the login expired, an error.
Fetch(r) ==
    /\ pc[r] = "fetching"
    /\ tries' = [tries EXCEPT ![r] = @ + 1]
    /\ \/ /\ mem' = [mem EXCEPT ![r].seen = @ \cup {r}]
          /\ saving' = [saving EXCEPT ![r] = "jar"]
          /\ Goto(r, "open")
          /\ UNCHANGED queue
       \/ Goto(r, "removing") /\ UNCHANGED <<queue, mem, saving>>
       \/ Ends(r) /\ UNCHANGED <<mem, saving>>
       \/ Again(r)' /\ UNCHANGED <<queue, pc, mem, saving>>
    /\ UNCHANGED <<files, history>>

\* SessionStore.remove after an answer that the login expired
Expired(r) ==
    /\ pc[r] = "removing"
    /\ target' = 0
    /\ Ends(r)
    /\ UNCHANGED <<saving, mem, tries, tmp, data, fd, stored, overlap>>

-----------------------------------------------------------------------------
\* SessionStore.save, also of a login and of the migration.

Busy(w) == pc[w] \in {"open", "write", "rename", "chmod"}

Unused == Inode \ ({target, tmp} \cup {fd[w] : w \in Writer})

MutantTemporary == target  \* mutant: the session file itself is written
Temporary == tmp

\* writeFile opens: it creates the file or truncates the one that is there.
Open(w) ==
    /\ pc[w] = "open"
    /\ LET i == IF Temporary # 0 THEN Temporary ELSE CHOOSE j \in Unused : TRUE IN
       /\ fd' = [fd EXCEPT ![w] = i]
       /\ data' = [data EXCEPT ![i] = Empty]
       /\ tmp' = i
    /\ overlap' = (overlap \/ \E v \in Writer \ {w} : pc[v] \in {"write", "rename", "chmod"})
    /\ Goto(w, "write")
    /\ UNCHANGED <<queue, saving, mem, tries, target, stored>>

\* ... and writes from the start; what another one wrote there is replaced or,
\* when it was longer, has its end left.
Write(w) ==
    /\ pc[w] = "write"
    /\ \E d \in {mem[w]} \cup (IF data[fd[w]] = Empty THEN {} ELSE {Mixed}) :
          data' = [data EXCEPT ![fd[w]] = d]
    /\ Goto(w, "rename")
    /\ UNCHANGED <<queue, saving, mem, tries, target, tmp, fd, history>>

\* The error of a save: a login fails, a migration finds no session, a jar
\* that could not be kept is an error of the request, which may be retried.
SaveFails(w) ==
    /\ fd' = [fd EXCEPT ![w] = 0]
    /\ IF w \in Login
       THEN Goto(w, "done") /\ UNCHANGED queue
       ELSE IF saving[w] = "jar" /\ Again(w)
       THEN Goto(w, "fetching") /\ UNCHANGED queue
       ELSE Ends(w)

Rename(w) ==
    /\ pc[w] = "rename"
    /\ IF tmp = 0
       THEN SaveFails(w) /\ UNCHANGED <<target, tmp>>
       ELSE /\ target' = tmp /\ tmp' = 0
            /\ fd' = [fd EXCEPT ![w] = 0]
            /\ Goto(w, "chmod")
            /\ UNCHANGED queue
    /\ UNCHANGED <<saving, mem, tries, data, history>>

\* chmod, which finds no file when it was removed; then the save is over.
Chmod(w) ==
    /\ pc[w] = "chmod"
    /\ IF target = 0
       THEN SaveFails(w) /\ UNCHANGED stored
       ELSE /\ IF w \in Login
               THEN Goto(w, "done") /\ UNCHANGED queue
               ELSE IF saving[w] = "migration"
               THEN Goto(w, "fetching") /\ UNCHANGED queue
               ELSE Ends(w)
            /\ stored' = IF saving[w] = "jar" THEN stored \cup {w} ELSE stored
            /\ UNCHANGED fd
    /\ UNCHANGED <<saving, mem, tries, target, tmp, data, overlap>>

\* A login found the account and calls save.
LoggedIn(l) ==
    /\ pc[l] = "new"
    /\ Goto(l, "open")
    /\ UNCHANGED <<queue, saving, mem, tries, files, stored, overlap>>

\* logout, reset-session
Logout ==
    /\ target' = 0
    /\ UNCHANGED <<queue, pc, saving, mem, tries, tmp, data, fd, stored, overlap>>

Save(w) == Open(w) \/ Write(w) \/ Rename(w) \/ Chmod(w)

RequestNext(r) == Load(r) \/ Fetch(r) \/ Expired(r) \/ Save(r)

Next ==
    \/ \E r \in Request : Issue(r) \/ RequestNext(r)
    \/ \E l \in Login : LoggedIn(l) \/ Save(l)
    \/ Logout

Spec == Init /\ [][Next]_vars

\* Files answer, and a fetch comes back: its headers are timed, its body by the HTTP library.
FairSpec == Spec /\ \A r \in Request : WF_vars(RequestNext(r))

-----------------------------------------------------------------------------
(* Properties                                                              *)

Content == IF target = 0 THEN Empty ELSE data[target]

\* No request loses the cookies of another one: a session in the file has the
\* cookies of every request that started from the same login and was stored
\* (withEmployeeQueue around load and persistJar).  A migration may repeat.
CookiesKept ==
    Content \in Jar /\ Content.by # Old =>
        {r \in stored : mem[r].by = Content.by} \subseteq Content.seen

\* Unless two saves were under way together, which takes a login beside a
\* request, the file is absent or whole, also in the middle of a save.
WholeFile == TypeOK /\ (target # 0 /\ ~overlap => data[target] \in Jar)

\* Every request that was issued comes to an end, also after one before it
\* failed (the chain of withEmployeeQueue goes on after an error).
RequestsEnd == \A r \in Request : pc[r] = "queued" ~> pc[r] = "done"
=============================================================================
