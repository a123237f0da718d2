-------------------------- MODULE InstanceManager --------------------------
(***************************************************************************)
(* instance-manager.ts: the administration commands on one root directory, *)
(* its index, its lock file, the instances' directories and containers.    *)
(*                                                                         *)
(* A job is one command, a process of its own; several may run at once.    *)
(* A step is one file operation or one call of Docker Compose with the     *)
(* code after it; any of them may fail, and the process may die between    *)
(* two.  An instance is named after the job that created it, 0 being one   *)
(* that was there before.  Docker Compose is external.                     *)
(***************************************************************************)
EXTENDS Integers, FiniteSets

CONSTANTS
    Alias,       \* user aliases (their hashes)
    Port, Image,
    First,       \* the record of instance 0
    MaxJobs,     \* bound: commands
    MaxErrors    \* bound: I/O errors

VARIABLES
    index,       \* index.json
    lock,        \* .index.lock exists
    dir,         \* instances/<id>, or the temporary directory it comes from
    container,   \* the image the container of each instance was made of
    kept,        \* jobs whose backup was renamed into place
    job,         \* the commands, at their step or at their end
    jobs,        \* commands so far
    errors       \* I/O errors so far

vars == <<index, lock, dir, container, kept, job, jobs, errors>>

Job    == 1..MaxJobs
Id     == 0..MaxJobs
Record == [id: Id, alias: Alias, port: Port, image: Image]

Locked == {"load", "make", "place", "compose", "pull", "up", "restore", "upPrevious",
           "meta", "index", "clean", "unlock"}
Ended  == {"created", "started", "backed_up", "upgraded", "error", "torn", "crashed"}
Step   == {"none", "resolve", "start", "copyFiles", "copyTree", "copyDatabase", "publish", "lock"}
            \cup Locked \cup Ended

NoJob == [op |-> "none", at |-> "none", rec |-> First, read |-> {}, prev |-> First.image,
          how |-> "none"]

TypeOK ==
    /\ index \in SUBSET Record
    /\ lock \in BOOLEAN
    /\ dir \in [Id -> [at: {"none", "temporary", "final"}, compose: Image, meta: Image]]
    /\ container \in [Id -> Image \cup {"none"}]
    /\ kept \in SUBSET Job
    /\ job \in [Job -> [op: {"none", "create", "start", "backup", "upgrade"}, at: Step,
                        rec: Record, read: SUBSET Record, prev: Image, how: Ended \cup {"none"}]]
    /\ jobs \in 0..MaxJobs
    /\ errors \in 0..MaxErrors

Whole(image) == [at |-> "final", compose |-> image, meta |-> image]
NoDir        == [at |-> "none", compose |-> First.image, meta |-> First.image]

Init ==
    /\ index = {First}
    /\ lock = FALSE
    /\ dir = [n \in Id |-> IF n = 0 THEN Whole(First.image) ELSE NoDir]
    /\ container = [n \in Id |-> IF n = 0 THEN First.image ELSE "none"]
    /\ kept = {}
    /\ job = [j \in Job |-> NoJob]
    /\ jobs = 0 /\ errors = 0

-----------------------------------------------------------------------------
Goto(j, step) == job' = [job EXCEPT ![j].at = step]

\* An ended command forgets all but what it was about.
End(j, how) ==
    job' = [job EXCEPT ![j] = [NoJob EXCEPT !.op = job[j].op, !.at = how,
                                            !.rec = [First EXCEPT !.id = job[j].rec.id]]]

\* The finally of withIndexLock comes before the job ends.
Leave(j, how) == job' = [job EXCEPT ![j].at = "unlock", ![j].how = how]

(* The operator gives a command, its options checked; what it names is     *)
(* looked up later.                                                        *)
Begin(op, alias, port, image) ==
    /\ jobs < MaxJobs
    /\ jobs' = jobs + 1
    /\ job' = [job EXCEPT ![jobs + 1] =
                 [NoJob EXCEPT !.op = op, !.at = IF op = "create" THEN "lock" ELSE "resolve",
                  !.rec = [id |-> jobs + 1, alias |-> alias, port |-> port, image |-> image]]]
    /\ UNCHANGED <<index, lock, dir, container, kept, errors>>

Named(records, j) == {r \in records : r.alias = job[j].rec.alias}

\* resolveRecord: reads the index and asks for no lock.
Resolve(j) ==
    /\ job[j].at = "resolve"
    /\ IF Named(index, j) = {} THEN End(j, "error")
       ELSE \E r \in Named(index, j) :
              job' = [job EXCEPT ![j].at = IF job[j].op = "start" THEN "start" ELSE "copyFiles",
                                 ![j].rec = [r EXCEPT !.image = job[j].rec.image]]
    /\ UNCHANGED <<index, lock, dir, container, kept, jobs, errors>>

\* start: the Compose file as it is.
StartUp(j) ==
    /\ job[j].at = "start"
    /\ \/ End(j, "error") /\ UNCHANGED container
       \/ /\ container' = [container EXCEPT ![job[j].rec.id] = dir[job[j].rec.id].compose]
          /\ End(j, "started")
    /\ UNCHANGED <<index, lock, dir, kept, jobs, errors>>

-----------------------------------------------------------------------------
(* backup, on its own or at the start of an upgrade: into a partial        *)
(* directory, which is renamed at the end or removed on an error.          *)

Copies(j, here, next) ==
    /\ job[j].at = here
    /\ Goto(j, next)
    /\ UNCHANGED <<index, lock, dir, container, kept, jobs, errors>>

CopyFiles(j)    == Copies(j, "copyFiles", "copyTree")
CopyTree(j)     == Copies(j, "copyTree", "copyDatabase")
CopyDatabase(j) == Copies(j, "copyDatabase", "publish")

\* backup.json with the digests, and the rename.
Publish(j) ==
    /\ job[j].at = "publish"
    /\ kept' = kept \cup {j}
    /\ IF job[j].op = "backup" THEN End(j, "backed_up") ELSE Goto(j, "lock")
    /\ UNCHANGED <<index, lock, dir, container, jobs, errors>>

-----------------------------------------------------------------------------
(* withIndexLock.                                                          *)

\* Mutant: the lock file is opened without "wx".
MutantTaken == FALSE
Taken == lock

Acquire(j) ==
    /\ job[j].at = "lock"
    /\ IF Taken THEN End(j, "error") /\ UNCHANGED lock
       ELSE Goto(j, "load") /\ lock' = TRUE
    /\ UNCHANGED <<index, dir, container, kept, jobs, errors>>

Unlock(j) ==
    /\ job[j].at = "unlock"
    /\ lock' = FALSE
    /\ End(j, job[j].how)
    /\ UNCHANGED <<index, dir, container, kept, jobs, errors>>

\* A command that died leaves the file: somebody removes it, seeing no command.
RemoveLeftLock ==
    /\ lock /\ \A j \in Job : job[j].at \notin Locked
    /\ lock' = FALSE
    /\ UNCHANGED <<index, dir, container, kept, job, jobs, errors>>

Clashes(j) == \E r \in index : r.alias = job[j].rec.alias \/ r.port = job[j].rec.port

\* loadIndex and the checks after it.
LoadIndex(j) ==
    /\ job[j].at = "load"
    /\ IF job[j].op = "create"
       THEN IF Clashes(j) THEN Leave(j, "error")
            ELSE job' = [job EXCEPT ![j].at = "make", ![j].read = index]
       ELSE \* exactRecord; the image it has already is refused
            IF \E r \in Named(index, j) : r.image # job[j].rec.image
            THEN \E r \in Named(index, j) :
                    job' = [job EXCEPT ![j].at = "compose", ![j].read = index,
                              ![j].rec = [r EXCEPT !.image = job[j].rec.image]]
            ELSE Leave(j, "error")
    /\ UNCHANGED <<index, lock, dir, container, kept, jobs, errors>>

-----------------------------------------------------------------------------
(* create.                                                                 *)

Own(j) == job[j].rec.id

\* The temporary directory with its files.
MakeDir(j) ==
    /\ job[j].at = "make"
    /\ dir' = [dir EXCEPT ![Own(j)] = [Whole(job[j].rec.image) EXCEPT !.at = "temporary"]]
    /\ Goto(j, "place")
    /\ UNCHANGED <<index, lock, container, kept, jobs, errors>>

Place(j) ==
    /\ job[j].at = "place"
    /\ dir' = [dir EXCEPT ![Own(j)].at = "final"]
    /\ Goto(j, "index")
    /\ UNCHANGED <<index, lock, container, kept, jobs, errors>>

\* What writeIndex writes: the index it loaded, with its change.
NewIndex(j) == {r \in job[j].read : r.id # Own(j)} \cup {job[j].rec}

Ending(j) == IF job[j].op = "create" THEN "created" ELSE "upgraded"

WriteIndex(j) ==
    /\ job[j].at = "index"
    /\ index' = NewIndex(j)
    /\ \/ Leave(j, Ending(j)) /\ UNCHANGED errors
       \/ \* the mode of the renamed file cannot be set
          /\ errors < MaxErrors /\ errors' = errors + 1
          /\ IF job[j].op = "create" THEN Goto(j, "clean") ELSE Leave(j, "torn")
    /\ UNCHANGED <<lock, dir, container, kept, jobs>>

\* The catch of create removes both directories.
Clean(j) ==
    /\ job[j].at = "clean"
    /\ dir' = [dir EXCEPT ![Own(j)] = NoDir]
    /\ Leave(j, "error")
    /\ UNCHANGED <<index, lock, container, kept, jobs, errors>>

-----------------------------------------------------------------------------
(* upgrade, after its backup.                                              *)

\* atomicWrite of the Compose file; a failing chmod leaves it replaced and is
\* not caught.
WriteCompose(j) ==
    /\ job[j].at = "compose"
    /\ dir' = [dir EXCEPT ![Own(j)].compose = job[j].rec.image]
    /\ \/ /\ job' = [job EXCEPT ![j].at = "pull", ![j].prev = dir[Own(j)].compose]
          /\ UNCHANGED errors
       \/ errors < MaxErrors /\ errors' = errors + 1 /\ Leave(j, "torn")
    /\ UNCHANGED <<index, lock, container, kept, jobs>>

Pull(j) ==
    /\ job[j].at = "pull"
    /\ Goto(j, "up") \/ Goto(j, "restore")
    /\ UNCHANGED <<index, lock, dir, container, kept, jobs, errors>>

\* "up" may have made the container and fail all the same.
Up(j) ==
    /\ job[j].at = "up"
    /\ \/ Goto(j, "restore") /\ UNCHANGED container
       \/ /\ container' = [container EXCEPT ![Own(j)] = dir[Own(j)].compose]
          /\ Goto(j, "meta") \/ Goto(j, "restore")
    /\ UNCHANGED <<index, lock, dir, kept, jobs, errors>>

\* Mutant: the previous version is started and its Compose file is not put back.
MutantRestore(j) ==
    /\ job[j].at = "restore"
    /\ Goto(j, "upPrevious")
    /\ UNCHANGED <<index, lock, dir, container, kept, jobs, errors>>

Restore(j) ==
    /\ job[j].at = "restore"
    /\ dir' = [dir EXCEPT ![Own(j)].compose = job[j].prev]
    /\ \/ Goto(j, "upPrevious") /\ UNCHANGED errors
       \/ errors < MaxErrors /\ errors' = errors + 1 /\ Leave(j, "error")
    /\ UNCHANGED <<index, lock, container, kept, jobs>>

\* Its failure is swallowed.
UpPrevious(j) ==
    /\ job[j].at = "upPrevious"
    /\ container' \in {container, [container EXCEPT ![Own(j)] = dir[Own(j)].compose]}
    /\ Leave(j, "error")
    /\ UNCHANGED <<index, lock, dir, kept, jobs, errors>>

WriteMeta(j) ==
    /\ job[j].at = "meta"
    /\ dir' = [dir EXCEPT ![Own(j)].meta = job[j].rec.image]
    /\ \/ Goto(j, "index") /\ UNCHANGED errors
       \/ errors < MaxErrors /\ errors' = errors + 1 /\ Leave(j, "torn")
    /\ UNCHANGED <<index, lock, container, kept, jobs>>

-----------------------------------------------------------------------------
(* What goes wrong before a step has its effect.                           *)

Fail(j) ==
    /\ errors < MaxErrors /\ errors' = errors + 1
    /\ \/ /\ job[j].at \in {"copyFiles", "copyTree", "copyDatabase", "publish", "resolve"}
          /\ End(j, "error")
       \/ job[j].at \in {"load", "compose"} /\ Leave(j, "error")
       \/ job[j].at \in {"restore", "meta"} /\ Leave(j, "torn")
       \/ job[j].at \in {"make", "place"} /\ Goto(j, "clean")
       \/ job[j].at = "index" /\ job[j].op = "create" /\ Goto(j, "clean")
       \/ job[j].at = "index" /\ job[j].op # "create" /\ Leave(j, "torn")
    /\ UNCHANGED <<index, lock, dir, container, kept, jobs>>

Crash(j) ==
    /\ job[j].at \notin Ended \cup {"none"}
    /\ End(j, "crashed")
    /\ UNCHANGED <<index, lock, dir, container, kept, jobs, errors>>

-----------------------------------------------------------------------------
BeginAny ==
    \E op \in {"create", "start", "backup", "upgrade"}, alias \in Alias, port \in Port, image \in Image :
        /\ op # "create" => port = First.port
        /\ op # "upgrade" => image = First.image
        /\ Begin(op, alias, port, image)

Plain(j) ==     \* the steps that touch neither a container nor the files of an instance
    \/ Resolve(j) \/ Publish(j) \/ Acquire(j) \/ Unlock(j) \/ LoadIndex(j)
    \/ MakeDir(j) \/ Place(j) \/ WriteIndex(j) \/ Clean(j)
    \/ WriteCompose(j) \/ Pull(j) \/ Restore(j) \/ WriteMeta(j)
    \/ Fail(j) \/ Crash(j)

Ups(j) == StartUp(j) \/ Up(j) \/ UpPrevious(j)

Next ==
    \/ BeginAny \/ RemoveLeftLock
    \/ \E j \in Job : Plain(j) \/ Ups(j) \/ CopyFiles(j) \/ CopyTree(j) \/ CopyDatabase(j)

Spec == Init /\ [][Next]_vars

-----------------------------------------------------------------------------
(* Properties                                                              *)

\* However commands overlap, fail or die, no alias and no port is given twice
\* (create checks an index that another command may be about to replace).
IndexSound ==
    \A r, s \in index : r # s => r.id # s.id /\ r.alias # s.alias /\ r.port # s.port

\* What was reported as created stays in the index, and an instance of the
\* index has its whole directory, unless its creation reported an error after
\* the index was in place (create, whose catch removes the directory).
CreatedStays ==
    /\ \A j \in Job : job[j].at = "created" => \E r \in index : r.id = j
    /\ \A r \in index :
         \/ dir[r.id].at = "final"
         \/ r.id # 0 /\ errors > 0 /\ job[r.id].at \in {"unlock", "error", "crashed"}

Upgrades(r) == {j \in Job : job[j].op = "upgrade" /\ job[j].rec.id = r.id}

\* An upgrade that succeeded, or failed in pulling or starting, leaves the
\* Compose file and the index with one image: only one that died or could not
\* write afterwards leaves them apart (upgrade, whose last two writes stand
\* outside its try).
ImagesAgree ==
    \A r \in index :
        \/ dir[r.id].compose = r.image /\ dir[r.id].meta = r.image
        \/ \E j \in Upgrades(r) : job[j].at \in (Locked \ {"load"}) \cup {"torn", "crashed"}
        \/ dir[r.id].at # "final"
=============================================================================
