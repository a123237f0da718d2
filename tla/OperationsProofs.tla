-------------------------- MODULE OperationsProofs --------------------------
(***************************************************************************)
(* Proofs about Operations, for any owners, aliases, ports and images and  *)
(* any number of commands, writes and errors.                              *)
(*                                                                         *)
(* The invariant has a part for each side.  InstanceInv: one command is    *)
(* inside withIndexLock, what it read is still the index, and the files of *)
(* an instance follow the creation or the upgrade that is under way.       *)
(* MaintenanceInv: a restore or a rotation has the service stopped and a   *)
(* bundle of the files as they were, and goes by its key.  They meet in    *)
(* StartsOK (nobody is about to start a container under such a command)    *)
(* and CopyOK (what a backup has copied has the configured key).           *)
(***************************************************************************)
EXTENDS Operations, TLAPS

-----------------------------------------------------------------------------
(* The instance manager.                                                   *)

\* Jobs are numbered as they begin.
Numbered == \A j \in I!Job : job[j].at = "none" <=> j > jobs

\* Which commands come to which steps.
KindOK(j) ==
    /\ job[j].op = "create" => job[j].rec.id = j
    /\ job[j].at \in {"make", "place", "clean", "created"} => job[j].op = "create"
    /\ job[j].at \in {"compose", "pull", "up", "restore", "upPrevious", "meta"} => job[j].op = "upgrade"
    /\ job[j].at \in I!Locked \cup {"lock"} => job[j].op \in {"create", "upgrade"}
    /\ job[j].at = "resolve" => job[j].op \in {"start", "backup", "upgrade"}
    /\ job[j].at = "start" => job[j].op = "start"
    /\ job[j].at \in {"copyFiles", "copyTree", "copyDatabase", "publish"} =>
          job[j].op \in {"backup", "upgrade"}
    /\ job[j].at = "unlock" => job[j].how \in {"created", "upgraded", "error", "torn"}
    /\ job[j].at = "unlock" /\ job[j].op # "create" => job[j].how # "created"
    /\ job[j].at = "unlock" /\ job[j].op = "create" => job[j].how \in {"created", "error"}

\* One command at a time is inside withIndexLock.
LockOK ==
    /\ \A j \in I!Job : job[j].at \in I!Locked => lock
    /\ \A j, k \in I!Job : job[j].at \in I!Locked /\ job[k].at \in I!Locked => j = k

\* Where the index has been read and not yet been written.
Writing == {"make", "place", "compose", "pull", "up", "restore", "upPrevious", "meta", "index"}

\* What a command read is still the index: a creation clashes with none of it,
\* an upgrade gives one of its instances another image.
ReadOK(j) ==
    job[j].at \in Writing =>
        /\ job[j].read = index
        /\ job[j].op = "create" => \A r \in index :
              r.id # j /\ r.alias # job[j].rec.alias /\ r.port # job[j].rec.port
        /\ job[j].op = "upgrade" => \E r \in index :
              /\ r.id = job[j].rec.id /\ r.alias = job[j].rec.alias /\ r.port = job[j].rec.port
              /\ r.image # job[j].rec.image

\* The directory of an instance follows its creation.
DirOK(j) ==
    /\ job[j].at \in {"place", "index"} /\ job[j].op = "create" =>
          dir[j].compose = job[j].rec.image /\ dir[j].meta = job[j].rec.image
    /\ job[j].at = "index" /\ job[j].op = "create" => dir[j].at = "final"
    /\ job[j].at = "clean" => errors > 0
    /\ job[j].at = "unlock" /\ job[j].how = "created" => dir[j].at = "final"
    /\ job[j].at = "created" \/ (job[j].at = "unlock" /\ job[j].how = "created")
          => \E r \in index : r.id = j

\* Who is in the index was there before, or is past its entry.
IndexOK ==
    \A r \in index :
        /\ r.id = 0 => dir[0].at = "final"
        /\ r.id # 0 =>
              /\ job[r.id].op = "create"
              /\ job[r.id].at \in {"clean", "unlock", "error", "created", "crashed"}
              /\ \/ dir[r.id].at = "final"
                 \/ errors > 0 /\ job[r.id].at \in {"unlock", "error", "crashed"}

\* An upgrade that wrote and did not come to its end.
Broken(j) == job[j].at \in {"torn", "crashed"} \/ (job[j].at = "unlock" /\ job[j].how = "torn")

\* An upgrade between its first write and its last.
Midway(j) == job[j].at \in {"pull", "up", "restore", "meta", "index"}

\* What is written of an upgrade of r that is midway.
Half(j, r) ==
    /\ dir[r.id].compose = job[j].rec.image
    /\ dir[r.id].meta = IF job[j].at = "index" THEN job[j].rec.image ELSE r.image
    /\ job[j].at \in {"pull", "up", "restore"} => job[j].prev = r.image

Even(r) ==
    /\ (\A j \in I!Upgrades(r) : ~Midway(j)) => dir[r.id].compose = r.image /\ dir[r.id].meta = r.image
    /\ \A j \in I!Upgrades(r) : Midway(j) => Half(j, r)

\* The images of an instance agree but for the upgrade that is midway.
EvenOK ==
    \A r \in index :
        dir[r.id].at = "final" /\ (\A j \in I!Upgrades(r) : ~Broken(j)) => Even(r)

InstanceInv ==
    /\ I!TypeOK /\ Numbered
    /\ \A j \in I!Job : KindOK(j) /\ ReadOK(j) /\ DirOK(j)
    /\ LockOK /\ IndexOK /\ I!IndexSound /\ EvenOK

-----------------------------------------------------------------------------
(* The offline commands and the service.                                   *)

Exclusive == cmd.op \in {"restore", "rotate"}

\* The service works with the configured key, and not under a restore or a rotation.
ServiceOK ==
    /\ service # Down => service = secret
    /\ Exclusive => service = Down

Making == {"copyDb", "copySession", "seal"}

\* Where a command stands, and its bundle.
CommandOK ==
    /\ cmd.op = "none" <=> cmd.at = "idle"
    /\ cmd.op # "none" => commands > 0
    /\ \A n \in Command : n > commands => bundle[n] = NoBundle
    /\ cmd.at \in Making => ~bundle[commands].sealed
    /\ cmd.op # "none" /\ cmd.at \notin Making =>
          Exclusive /\ bundle[commands].sealed /\ bundle[commands].key = {cmd.key}
    /\ cmd.at \in {"installDb", "installSession", "installKey"} => cmd.op = "restore"
    /\ cmd.at \in {"load", "rows", "save", "writeKey"} => cmd.op = "rotate"
    /\ cmd.op # "none" /\ cmd.at \notin {"undoDb", "undoSession"} => cmd.key = secret
    /\ cmd.op = "restore" => cmd.source \in Command /\ cmd.source < commands /\ bundle[cmd.source].sealed

\* The bundle of a restore or a rotation has the files as they were when it began,
\* and so they are until it changes them.
FilesOK ==
    Exclusive =>
        /\ cmd.at # "copyDb" => bundle[commands].db = before.db
        /\ cmd.at \notin {"copyDb", "copySession"} => bundle[commands].session = before.session
        /\ cmd.at \in Making \cup {"installDb", "load", "rows", "undoSession"} => stateDb = before.db
        /\ cmd.at \in Making \cup {"installDb", "installSession", "load", "rows", "save"} =>
              session[Primary] = before.session
        /\ cmd.at \in {"rows", "save"} =>
              cmd.loaded = before.session /\ Opens(cmd.key, Primary, cmd.loaded)
        /\ cmd.at \in {"save", "writeKey"} => Opens(commands, Primary, stateDb)
        /\ cmd.at = "writeKey" => Opens(commands, Primary, session[Primary])

\* What Recoverable says of one ciphertext.
Kept(c) ==
    \/ c.key \in KnownKeys
    \/ \E n \in Recovery : \E d \in bundle[n].db \cup bundle[n].session :
          d.of = c.of /\ d.key \in KnownKeys

KeptOK ==
    /\ \A c \in Live : Kept(c)
    /\ \A n \in Command : \A c \in bundle[n].db \cup bundle[n].session : Kept(c)

\* No container is about to be started under a restore or a rotation.
StartsOK == Exclusive => Starting = {}

MaintenanceInv == TypeOK /\ ServiceOK /\ CommandOK /\ FilesOK /\ KeptOK

\* As long as a job is sound nothing is sealed with another key than the
\* configured one, and what it has copied is not either.
CopyOK ==
    /\ copy \in [I!Job -> Copy]
    /\ sound \in SUBSET I!Job
    /\ \A j \in I!Job : j > jobs => copy[j].data = {}
    /\ sound # {} => Offline /\ Readable
    /\ \A j \in sound :
          /\ job[j].at \in {"copyTree", "copyDatabase"} => copy[j].key = secret
          /\ \A c \in copy[j].data : c.key = secret /\ copy[j].key = secret

IInv == InstanceInv /\ MaintenanceInv /\ StartsOK /\ CopyOK

LEMMA Constants ==
    /\ MaxJobs \in Nat /\ MaxErrors \in Nat
    /\ First \in I!Record /\ First.id = 0
    /\ First = [id |-> 0, alias |-> First.alias, port |-> First.port, image |-> First.image]
    /\ First.alias \in Alias /\ First.port \in Port /\ First.image \in Image
BY MaxAssumption, FirstAssumption DEF I!Record

JobSet == [op: {"none", "create", "start", "backup", "upgrade"}, at: I!Step, rec: I!Record,
           read: SUBSET I!Record, prev: Image, how: I!Ended \cup {"none"}]

LEMMA RecordParts ==
    ASSUME NEW r \in I!Record
    PROVE  /\ r.id \in I!Id /\ r.alias \in Alias /\ r.port \in Port /\ r.image \in Image
           /\ \A i \in I!Id : /\ [r EXCEPT !.id = i] \in I!Record
                              /\ [r EXCEPT !.id = i].id = i
           /\ \A m \in Image : LET s == [r EXCEPT !.image = m] IN
                 s \in I!Record /\ s.id = r.id /\ s.alias = r.alias /\ s.port = r.port /\ s.image = m
BY DEF I!Record

LEMMA StartingJob == I!NoJob \in JobSet
BY Constants DEF I!NoJob, JobSet, I!Step, I!Ended

LEMMA InstanceBegin == I!Init => InstanceInv
<1> SUFFICES ASSUME I!Init PROVE InstanceInv
  OBVIOUS
<1>1. I!TypeOK
  <2>1. job \in [I!Job -> JobSet]
    BY StartingJob DEF I!Init
  <2>2. dir \in [I!Id -> [at: {"none", "temporary", "final"}, compose: Image, meta: Image]]
    BY Constants DEF I!Init, I!Whole, I!NoDir
  <2>3. container \in [I!Id -> Image \cup {"none"}]
    BY Constants DEF I!Init
  <2>4. index \in SUBSET I!Record /\ lock \in BOOLEAN /\ kept \in SUBSET I!Job
    BY Constants DEF I!Init
  <2>5. jobs \in 0..MaxJobs /\ errors \in 0..MaxErrors
    BY Constants DEF I!Init
  <2> QED BY <2>1, <2>2, <2>3, <2>4, <2>5 DEF I!TypeOK, JobSet
<1>2. Numbered /\ LockOK /\ \A j \in I!Job : KindOK(j) /\ ReadOK(j) /\ DirOK(j)
  BY DEF I!Init, Numbered, LockOK, KindOK, ReadOK, DirOK, I!NoJob, I!Job, I!Locked, Writing
<1>3. IndexOK /\ I!IndexSound
  BY Constants DEF I!Init, IndexOK, I!IndexSound, I!Whole, I!NoDir, I!Id
<1>4. EvenOK
  BY Constants DEF I!Init, EvenOK, Even, Half, Midway, I!Upgrades, I!NoJob, I!Whole, I!NoDir, I!Id
<1> QED BY <1>1, <1>2, <1>3, <1>4 DEF InstanceInv

-----------------------------------------------------------------------------
(* What a step of a job does to the jobs.                                  *)

\* Only this job moves, and it stays the command it is.
Moves(j) ==
    /\ job' \in [I!Job -> JobSet]
    /\ \A k \in I!Job \ {j} : job'[k] = job[k]
    /\ job'[j].op = job[j].op

LEMMA GotoMoves ==
    ASSUME I!TypeOK, NEW j \in I!Job, NEW s \in I!Step, I!Goto(j, s)
    PROVE  /\ Moves(j) /\ job'[j].at = s /\ job'[j].rec = job[j].rec
           /\ job'[j].read = job[j].read /\ job'[j].prev = job[j].prev
BY DEF I!TypeOK, I!Goto, Moves, JobSet

LEMMA LeaveMoves ==
    ASSUME I!TypeOK, NEW j \in I!Job, NEW h \in I!Ended, I!Leave(j, h)
    PROVE  /\ Moves(j) /\ job'[j].at = "unlock" /\ job'[j].how = h /\ job'[j].rec = job[j].rec
BY DEF I!TypeOK, I!Leave, Moves, JobSet, I!Step, I!Locked

LEMMA EndMoves ==
    ASSUME I!TypeOK, NEW j \in I!Job, NEW h \in I!Ended, I!End(j, h)
    PROVE  /\ Moves(j) /\ job'[j].at = h /\ job'[j].rec.id = job[j].rec.id
<1>1. job[j].rec.id \in I!Id
  BY DEF I!TypeOK, I!Record
<1>2. [First EXCEPT !.id = job[j].rec.id] \in I!Record
  BY <1>1, Constants, RecordParts
<1> DEFINE e == [I!NoJob EXCEPT !.op = job[j].op, !.at = h, !.rec = [First EXCEPT !.id = job[j].rec.id]]
<1>3. e \in JobSet /\ e.op = job[j].op /\ e.at = h /\ e.rec = [First EXCEPT !.id = job[j].rec.id]
  BY <1>2, StartingJob DEF JobSet, I!TypeOK, I!NoJob, I!Step
<1>4. e.rec.id = job[j].rec.id
  BY <1>1, <1>3, Constants, RecordParts
<1>5. job' = [job EXCEPT ![j] = e]
  BY DEF I!End
<1> HIDE DEF e
<1> QED BY <1>3, <1>4, <1>5 DEF I!TypeOK, Moves, JobSet

-----------------------------------------------------------------------------
(* What a step of one job leaves as it was.                                *)

\* The job that moves enters and leaves the lock as withIndexLock does.
Passes(j) ==
    /\ job[j].at # "none" /\ job'[j].at # "none"
    /\ job'[j].at \in I!Locked => lock' /\ (job[j].at \in I!Locked \/ ~lock)
    /\ lock => lock' \/ job[j].at \in I!Locked

\* What the entry of a job in the index asks of its step.
EntryOK(j) ==
    \A r \in index : r.id = j =>
        /\ job[j].at \in {"clean", "unlock", "error", "created", "crashed"}
        /\ \/ dir[j].at = "final"
           \/ errors > 0 /\ job[j].at \in {"unlock", "error", "crashed"}

LEMMA Shape ==
    ASSUME InstanceInv, NEW j \in I!Job, Moves(j), Passes(j),
           UNCHANGED <<jobs, index>>, errors' \in Nat, errors' >= errors,
           KindOK(j)', ReadOK(j)', DirOK(j)', EntryOK(j)',
           dir' = dir \/ (job[j].at \in I!Locked /\ \A i \in I!Id \ {j} : dir'[i].at = dir[i].at)
    PROVE  /\ Numbered' /\ LockOK' /\ IndexOK' /\ I!IndexSound'
           /\ \A k \in I!Job : KindOK(k)' /\ ReadOK(k)' /\ DirOK(k)'
<1> USE DEF InstanceInv
<1>1. ASSUME NEW k \in I!Job, k # j PROVE job'[k] = job[k]
  BY <1>1 DEF Moves
<1>2. Numbered'
  BY <1>1 DEF Numbered, Passes
<1>3. LockOK'
  BY <1>1 DEF LockOK, Passes
<1>4. ASSUME NEW k \in I!Job, k # j PROVE KindOK(k)' /\ ReadOK(k)'
  BY <1>1, <1>4 DEF KindOK, ReadOK
<1>5. ASSUME NEW k \in I!Job, k # j PROVE DirOK(k)'
  <2>1. errors > 0 => errors' > 0
    BY DEF I!TypeOK
  <2>2. CASE dir' = dir
    BY <1>1, <1>5, <2>1, <2>2 DEF DirOK
  <2>3. CASE job[j].at \in I!Locked
    <3>1. job[k].at \notin I!Locked
      BY <1>5, <2>3 DEF LockOK
    <3>2. job'[k].at \notin {"place", "index", "unlock"}
      BY <1>1, <1>5, <3>1 DEF I!Locked
    <3> QED BY <1>1, <1>5, <2>1, <3>2 DEF DirOK
  <2> QED BY <2>2, <2>3
<1>6. IndexOK'
  <2> SUFFICES ASSUME NEW r \in index
               PROVE  /\ r.id = 0 => dir'[0].at = "final"
                      /\ r.id # 0 =>
                           /\ job'[r.id].op = "create"
                           /\ job'[r.id].at \in {"clean", "unlock", "error", "created", "crashed"}
                           /\ \/ dir'[r.id].at = "final"
                              \/ errors' > 0 /\ job'[r.id].at \in {"unlock", "error", "crashed"}
    BY DEF IndexOK
  <2>1. r.id \in I!Id
    BY RecordParts DEF I!TypeOK
  <2>2. r.id # j => dir'[r.id].at = dir[r.id].at
    BY <2>1
  <2>3. CASE r.id = 0
    BY <2>2, <2>3, Constants DEF IndexOK, I!Job
  <2>4. CASE r.id # 0 /\ r.id # j
    <3>1. r.id \in I!Job
      BY <2>1, <2>4, Constants DEF I!Id, I!Job
    <3>2. errors > 0 => errors' > 0
      BY DEF I!TypeOK
    <3> QED BY <1>1, <2>2, <2>4, <3>1, <3>2 DEF IndexOK
  <2>5. CASE r.id # 0 /\ r.id = j
    BY <2>5 DEF IndexOK, EntryOK, Moves
  <2> QED BY <2>3, <2>4, <2>5
<1>7. I!IndexSound'
  BY DEF I!IndexSound
<1> QED BY <1>2, <1>3, <1>4, <1>5, <1>6, <1>7

LEMMA EvenOther ==
    ASSUME InstanceInv, NEW j \in I!Job, Moves(j), index' = index, job[j].op # "upgrade",
           \A r \in index : dir'[r.id] = dir[r.id] \/ dir'[r.id].at # "final"
    PROVE  EvenOK'
<1> SUFFICES ASSUME NEW r \in index, dir'[r.id].at = "final",
                    \A k \in I!Upgrades(r)' : ~Broken(k)'
             PROVE  Even(r)'
  BY DEF EvenOK
<1>1. I!Upgrades(r)' = I!Upgrades(r) /\ \A k \in I!Upgrades(r) : job'[k] = job[k]
  BY DEF I!Upgrades, Moves
<1>2. \A k \in I!Upgrades(r) : Broken(k)' = Broken(k) /\ Midway(k)' = Midway(k)
  BY <1>1 DEF Broken, Midway
<1>3. Even(r)
  BY <1>1, <1>2 DEF InstanceInv, EvenOK
<1> QED BY <1>1, <1>2, <1>3 DEF Even, Half

LEMMA EvenIdle ==
    ASSUME InstanceInv, NEW j \in I!Job, Moves(j), UNCHANGED <<index, dir>>,
           ~Midway(j), ~Midway(j)', Broken(j) => Broken(j)' /\ job'[j].rec.id = job[j].rec.id
    PROVE  EvenOK'
<1> SUFFICES ASSUME NEW r \in index, dir[r.id].at = "final",
                    \A k \in I!Upgrades(r)' : ~Broken(k)'
             PROVE  Even(r)'
  BY DEF EvenOK
<1>1. \A k \in I!Job \ {j} : job'[k] = job[k]
  BY DEF Moves
<1>2. \A k \in I!Job \ {j} : k \in I!Upgrades(r)' <=> k \in I!Upgrades(r)
  BY <1>1 DEF I!Upgrades
<1>3. \A k \in I!Job \ {j} : Broken(k)' = Broken(k) /\ Midway(k)' = Midway(k)
  BY <1>1 DEF Broken, Midway
<1>4. \A k \in I!Upgrades(r) : ~Broken(k)
  <2>1. j \in I!Upgrades(r) => ~Broken(j)
    BY DEF I!Upgrades, Moves
  <2> QED BY <1>2, <1>3, <2>1 DEF I!Upgrades
<1>5. Even(r)
  BY <1>4 DEF InstanceInv, EvenOK
<1>6. I!Upgrades(r) \subseteq I!Job /\ I!Upgrades(r)' \subseteq I!Job
  BY DEF I!Upgrades, I!Job
<1>7. \A k \in I!Upgrades(r)' : Midway(k)' => k # j
  OBVIOUS
<1>8. \A k \in I!Upgrades(r)' : Midway(k)' => Half(k, r)'
  BY <1>1, <1>2, <1>3, <1>5, <1>6, <1>7 DEF Even, Half
<1>9. (\A k \in I!Upgrades(r)' : ~Midway(k)') => \A k \in I!Upgrades(r) : ~Midway(k)
  BY <1>2, <1>3, <1>6
<1> QED BY <1>5, <1>8, <1>9 DEF Even

\* The images of r when j is the only upgrade of it that may be midway.
EvenFor(j, r) ==
    /\ Midway(j) => Half(j, r)
    /\ ~Midway(j) => dir[r.id].compose = r.image /\ dir[r.id].meta = r.image

LEMMA EvenMidway ==
    ASSUME InstanceInv, NEW j \in I!Job, Moves(j), index' = index,
           job[j].op = "upgrade", job'[j].rec.id = job[j].rec.id,
           job[j].at \in I!Locked, Broken(j) => Broken(j)',
           \A i \in I!Id \ {job[j].rec.id} : dir'[i] = dir[i],
           \A i \in I!Id : dir'[i].at = dir[i].at,
           \A r \in index : r.id = job[j].rec.id /\ EvenFor(j, r) /\ ~Broken(j)' => EvenFor(j, r)'
    PROVE  EvenOK'
<1> SUFFICES ASSUME NEW r \in index, dir'[r.id].at = "final",
                    \A k \in I!Upgrades(r)' : ~Broken(k)'
             PROVE  Even(r)'
  BY DEF EvenOK
<1>1. \A k \in I!Job \ {j} : job'[k] = job[k]
  BY DEF Moves
<1>2. I!Upgrades(r)' = I!Upgrades(r) /\ I!Upgrades(r) \subseteq I!Job
  BY <1>1 DEF I!Upgrades, Moves
<1>3. \A k \in I!Job \ {j} : Broken(k)' = Broken(k) /\ Midway(k)' = Midway(k)
  BY <1>1 DEF Broken, Midway
<1>4. r.id \in I!Id
  BY RecordParts DEF InstanceInv, I!TypeOK
<1>5. Even(r)
  BY <1>2, <1>3, <1>4 DEF InstanceInv, EvenOK
<1>6. \A k \in I!Job \ {j} : ~Midway(k)
  BY DEF InstanceInv, LockOK, Midway, I!Locked
<1>7. CASE j \in I!Upgrades(r)
  <2>1. r.id = job[j].rec.id
    BY <1>7 DEF I!Upgrades
  <2>2. EvenFor(j, r)
    BY <1>2, <1>5, <1>6, <1>7 DEF Even, EvenFor
  <2>3. EvenFor(j, r)'
    BY <1>2, <1>7, <2>1, <2>2
  <2> QED BY <1>2, <1>3, <1>6, <1>7, <2>3 DEF Even, EvenFor
<1>8. CASE j \notin I!Upgrades(r)
  <2>1. r.id # job[j].rec.id
    BY <1>8 DEF I!Upgrades
  <2>2. dir'[r.id] = dir[r.id]
    BY <1>4, <2>1
  <2>3. \A k \in I!Upgrades(r) : k \in I!Job \ {j}
    BY <1>2, <1>8
  <2> QED BY <1>1, <1>2, <1>3, <1>5, <2>2, <2>3 DEF Even, Half
<1> QED BY <1>7, <1>8

-----------------------------------------------------------------------------
(* Each step of a job keeps the invariant.                                 *)

\* The steps outside the lock: where they go.
Outside == {"resolve", "start", "copyFiles", "copyTree", "copyDatabase", "publish", "lock"}

LEMMA OutsideStep ==
    ASSUME InstanceInv, NEW j \in I!Job, Moves(j), UNCHANGED <<index, dir, lock, jobs>>,
           errors' \in Nat, errors' >= errors, I!TypeOK',
           job[j].at \in Outside, job'[j].at \in Outside \cup (I!Ended \ {"created"}),
           job'[j].at # "resolve",
           job'[j].at = "start" => job[j].op = "start",
           job'[j].at \in {"copyFiles", "copyTree", "copyDatabase", "publish"} =>
              job[j].op \in {"backup", "upgrade"},
           job'[j].at = "lock" => job[j].op \in {"create", "upgrade"},
           job[j].op = "create" => job'[j].rec.id = job[j].rec.id
    PROVE  InstanceInv'
<1>1. job'[j].op = job[j].op
  BY DEF Moves
<1>2. KindOK(j) /\ KindOK(j)' /\ ReadOK(j)' /\ DirOK(j)' /\ Passes(j)
  BY <1>1 DEF InstanceInv, KindOK, ReadOK, DirOK, Passes, Outside, I!Ended, I!Locked, Writing
<1>3. \A r \in index : r.id # j
  BY DEF InstanceInv, IndexOK, Outside, I!Job
<1>4. EntryOK(j)'
  BY <1>3 DEF EntryOK
<1>5. EvenOK'
  BY EvenIdle DEF Broken, Midway, Outside, I!Ended
<1> QED BY <1>2, <1>4, <1>5, Shape DEF InstanceInv

LEMMA JobTypes ==
    ASSUME I!TypeOK, NEW j \in I!Job, Moves(j),
           index' \in SUBSET I!Record, lock' \in BOOLEAN, kept' \in SUBSET I!Job,
           dir' \in [I!Id -> [at: {"none", "temporary", "final"}, compose: Image, meta: Image]],
           container' \in [I!Id -> Image \cup {"none"}], jobs' = jobs,
           errors' = errors \/ (errors < MaxErrors /\ errors' = errors + 1)
    PROVE  I!TypeOK' /\ errors' \in Nat /\ errors' >= errors
BY Constants DEF I!TypeOK, Moves, JobSet

LEMMA ResolveStep == ASSUME InstanceInv, NEW j \in I!Job, I!Resolve(j) PROVE InstanceInv'
<1>1. I!TypeOK /\ KindOK(j) /\ job[j].at = "resolve"
  BY DEF InstanceInv, I!Resolve
<1>2. CASE I!End(j, "error")
  <2>1. Moves(j) /\ job'[j].at = "error" /\ job'[j].rec.id = job[j].rec.id
    BY <1>1, <1>2, EndMoves DEF I!Ended
  <2>2. I!TypeOK' /\ errors' \in Nat /\ errors' >= errors
    BY <1>1, <2>1, JobTypes DEF I!Resolve, I!TypeOK
  <2> QED BY <1>1, <2>1, <2>2, OutsideStep DEF I!Resolve, Outside, I!Ended
<1>3. CASE ~I!End(j, "error")
  <2>1. PICK r \in index : job' = [job EXCEPT ![j].at = IF job[j].op = "start" THEN "start" ELSE "copyFiles",
                                              ![j].rec = [r EXCEPT !.image = job[j].rec.image]]
    BY <1>3 DEF I!Resolve, I!Named
  <2>2. [r EXCEPT !.image = job[j].rec.image] \in I!Record
    BY <1>1, RecordParts DEF I!TypeOK
  <2> DEFINE s == IF job[j].op = "start" THEN "start" ELSE "copyFiles"
             e == [job[j] EXCEPT !.at = s, !.rec = [r EXCEPT !.image = job[j].rec.image]]
  <2>6. e \in JobSet /\ e.op = job[j].op /\ e.at = s
    BY <1>1, <2>2 DEF I!TypeOK, JobSet, I!Step
  <2>7. job' = [job EXCEPT ![j] = e]
    BY <2>1
  <2>3. Moves(j) /\ job'[j].at = s
    <3> HIDE DEF e, s
    <3> QED BY <1>1, <2>6, <2>7 DEF I!TypeOK, Moves, JobSet
  <2>4. I!TypeOK' /\ errors' \in Nat /\ errors' >= errors
    BY <1>1, <2>3, JobTypes DEF I!Resolve, I!TypeOK
  <2>5. job[j].op \in {"start", "backup", "upgrade"}
    BY <1>1 DEF KindOK
  <2> QED BY <1>1, <2>3, <2>4, <2>5, OutsideStep DEF I!Resolve, Outside, I!Ended
<1> QED BY <1>2, <1>3

LEMMA StartUpStep == ASSUME InstanceInv, NEW j \in I!Job, I!StartUp(j) PROVE InstanceInv'
<1>1. I!TypeOK /\ KindOK(j) /\ job[j].at = "start"
  BY DEF InstanceInv, I!StartUp
<1>2. PICK h \in {"error", "started"} : I!End(j, h)
  BY DEF I!StartUp
<1>3. Moves(j) /\ job'[j].at = h /\ job'[j].rec.id = job[j].rec.id
  BY <1>1, <1>2, EndMoves DEF I!Ended
<1>4. job[j].rec.id \in I!Id
  BY <1>1, RecordParts DEF I!TypeOK
<1>5. container' \in [I!Id -> Image \cup {"none"}]
  BY <1>1, <1>4 DEF I!StartUp, I!TypeOK
<1>6. I!TypeOK' /\ errors' \in Nat /\ errors' >= errors
  BY <1>1, <1>3, <1>5, JobTypes DEF I!StartUp, I!TypeOK
<1> QED BY <1>1, <1>3, <1>6, OutsideStep DEF I!StartUp, Outside, I!Ended

LEMMA CopyStep ==
    ASSUME InstanceInv, NEW j \in I!Job, I!CopyFiles(j) \/ I!CopyTree(j) \/ I!CopyDatabase(j)
    PROVE  InstanceInv'
<1>1. PICK next \in {"copyTree", "copyDatabase", "publish"} : I!Goto(j, next)
  BY DEF I!CopyFiles, I!CopyTree, I!CopyDatabase, I!Copies
<1>2. I!TypeOK /\ KindOK(j) /\ job[j].at \in {"copyFiles", "copyTree", "copyDatabase"}
  BY DEF InstanceInv, I!CopyFiles, I!CopyTree, I!CopyDatabase, I!Copies
<1>3. Moves(j) /\ job'[j].at = next /\ job'[j].rec = job[j].rec
  BY <1>1, <1>2, GotoMoves DEF I!Step
<1>4. UNCHANGED <<index, lock, dir, container, kept, jobs, errors>>
  BY DEF I!CopyFiles, I!CopyTree, I!CopyDatabase, I!Copies
<1>5. I!TypeOK' /\ errors' \in Nat /\ errors' >= errors
  BY <1>2, <1>3, <1>4, JobTypes DEF I!TypeOK
<1>6. job[j].op \in {"backup", "upgrade"}
  BY <1>2 DEF KindOK
<1> QED BY <1>2, <1>3, <1>4, <1>5, <1>6, OutsideStep DEF Outside, I!Ended

LEMMA PublishStep == ASSUME InstanceInv, NEW j \in I!Job, I!Publish(j) PROVE InstanceInv'
<1>1. I!TypeOK /\ KindOK(j) /\ job[j].at = "publish"
  BY DEF InstanceInv, I!Publish
<1>2. kept' \in SUBSET I!Job
  BY <1>1 DEF I!Publish, I!TypeOK
<1>3. CASE I!End(j, "backed_up")
  <2>1. Moves(j) /\ job'[j].at = "backed_up" /\ job'[j].rec.id = job[j].rec.id
    BY <1>1, <1>3, EndMoves DEF I!Ended
  <2>2. I!TypeOK' /\ errors' \in Nat /\ errors' >= errors
    BY <1>1, <1>2, <2>1, JobTypes DEF I!Publish, I!TypeOK
  <2> QED BY <1>1, <2>1, <2>2, OutsideStep DEF I!Publish, Outside, I!Ended
<1>4. CASE job[j].op # "backup" /\ I!Goto(j, "lock")
  <2>1. Moves(j) /\ job'[j].at = "lock" /\ job'[j].rec = job[j].rec
    BY <1>1, <1>4, GotoMoves DEF I!Step
  <2>2. I!TypeOK' /\ errors' \in Nat /\ errors' >= errors
    BY <1>1, <1>2, <2>1, JobTypes DEF I!Publish, I!TypeOK
  <2>3. job[j].op \in {"create", "upgrade"}
    BY <1>1, <1>4 DEF I!TypeOK, KindOK
  <2> QED BY <1>1, <2>1, <2>2, <2>3, OutsideStep DEF I!Publish, Outside, I!Ended
<1> QED BY <1>3, <1>4 DEF I!Publish


LEMMA AcquireStep == ASSUME InstanceInv, NEW j \in I!Job, I!Acquire(j) PROVE InstanceInv'
<1>1. I!TypeOK /\ KindOK(j) /\ DirOK(j) /\ job[j].at = "lock"
  BY DEF InstanceInv, I!Acquire
<1>2. CASE lock /\ I!End(j, "error") /\ UNCHANGED lock
  <2>1. Moves(j) /\ job'[j].at = "error" /\ job'[j].rec.id = job[j].rec.id
    BY <1>1, <1>2, EndMoves DEF I!Ended
  <2>2. I!TypeOK' /\ errors' \in Nat /\ errors' >= errors
    BY <1>1, <1>2, <2>1, JobTypes DEF I!Acquire, I!TypeOK
  <2> QED BY <1>1, <1>2, <2>1, <2>2, OutsideStep DEF I!Acquire, Outside, I!Ended
<1>3. CASE ~lock /\ I!Goto(j, "load") /\ lock' = TRUE
  <2>1. Moves(j) /\ job'[j].at = "load" /\ job'[j].rec = job[j].rec /\ job'[j].op = job[j].op
    BY <1>1, <1>3, GotoMoves DEF I!Step, I!Locked, Moves
  <2>2. I!TypeOK' /\ errors' \in Nat /\ errors' >= errors
    BY <1>1, <1>3, <2>1, JobTypes DEF I!Acquire, I!TypeOK
  <2>3. KindOK(j)' /\ ReadOK(j)' /\ DirOK(j)' /\ Passes(j)
    BY <1>1, <1>3, <2>1 DEF KindOK, ReadOK, DirOK, Passes, I!Locked, Writing
  <2>4. EntryOK(j)'
    BY <1>1, <2>1 DEF I!Acquire, EntryOK, InstanceInv, IndexOK, I!Job
  <2>5. EvenOK'
    BY <1>1, <2>1, EvenIdle DEF I!Acquire, Broken, Midway
  <2> QED BY <2>1, <2>2, <2>3, <2>4, <2>5, Shape DEF I!Acquire, InstanceInv
<1> QED BY <1>2, <1>3 DEF I!Acquire, I!Taken

LEMMA UnlockStep == ASSUME InstanceInv, NEW j \in I!Job, I!Unlock(j) PROVE InstanceInv'
<1>1. I!TypeOK /\ KindOK(j) /\ DirOK(j) /\ job[j].at = "unlock"
  BY DEF InstanceInv, I!Unlock
<1>2. job[j].how \in {"created", "upgraded", "error", "torn"}
  BY <1>1 DEF KindOK
<1>3. Moves(j) /\ job'[j].at = job[j].how /\ job'[j].rec.id = job[j].rec.id /\ job'[j].op = job[j].op
  BY <1>1, <1>2, EndMoves DEF I!Ended, I!Unlock, Moves
<1>4. I!TypeOK' /\ errors' \in Nat /\ errors' >= errors
  BY <1>1, <1>3, JobTypes DEF I!Unlock, I!TypeOK
<1>5. KindOK(j)' /\ ReadOK(j)' /\ DirOK(j)' /\ Passes(j)
  BY <1>1, <1>2, <1>3 DEF I!Unlock, KindOK, ReadOK, DirOK, Passes, I!Locked, Writing
<1>6. EntryOK(j)'
  BY <1>1, <1>2, <1>3 DEF I!Unlock, EntryOK, InstanceInv, IndexOK, I!Job, KindOK, DirOK
<1>7. EvenOK'
  BY <1>1, <1>2, <1>3, EvenIdle DEF I!Unlock, Broken, Midway
<1> QED BY <1>3, <1>4, <1>5, <1>6, <1>7, Shape DEF I!Unlock, InstanceInv

\* A step under the lock that does not end the command, and leaves the directories.
LEMMA InsideStep ==
    ASSUME InstanceInv, NEW j \in I!Job, Moves(j), UNCHANGED <<index, lock, dir, jobs>>,
           job[j].at \in I!Locked, job'[j].at \in I!Locked,
           I!TypeOK', errors' \in Nat, errors' >= errors,
           KindOK(j)', ReadOK(j)', DirOK(j)', EvenOK', EntryOK(j)'
    PROVE  InstanceInv'
<1>1. Passes(j)
  BY DEF Passes, I!Locked, InstanceInv, LockOK
<1> QED BY <1>1, Shape DEF InstanceInv

LEMMA LoadIndexStep == ASSUME InstanceInv, NEW j \in I!Job, I!LoadIndex(j) PROVE InstanceInv'
<1>1. I!TypeOK /\ KindOK(j) /\ DirOK(j) /\ job[j].at = "load" /\ job[j].op \in {"create", "upgrade"}
  BY DEF InstanceInv, I!LoadIndex, KindOK, I!Locked
<1>2. \A r \in index : r.id # j
  BY <1>1 DEF InstanceInv, IndexOK, I!Job
<1>3. EntryOK(j)'
  BY <1>2 DEF EntryOK, I!LoadIndex
<1>4. CASE I!Leave(j, "error")
  <2>1. Moves(j) /\ job'[j].at = "unlock" /\ job'[j].how = "error" /\ job'[j].rec = job[j].rec
        /\ job'[j].op = job[j].op
    BY <1>1, <1>4, LeaveMoves DEF I!Ended, Moves
  <2>2. I!TypeOK' /\ errors' \in Nat /\ errors' >= errors
    BY <1>1, <2>1, JobTypes DEF I!LoadIndex, I!TypeOK
  <2>3. KindOK(j)' /\ ReadOK(j)' /\ DirOK(j)'
    BY <1>1, <2>1 DEF KindOK, ReadOK, DirOK, I!Locked, Writing
  <2>4. EvenOK'
    BY <1>1, <2>1, EvenIdle DEF I!LoadIndex, Broken, Midway
  <2> QED BY <1>1, <1>3, <2>1, <2>2, <2>3, <2>4, InsideStep DEF I!LoadIndex, I!Locked
<1>5. CASE /\ job[j].op = "create" /\ ~I!Clashes(j)
           /\ job' = [job EXCEPT ![j].at = "make", ![j].read = index]
  <2>1. /\ Moves(j) /\ job'[j].at = "make" /\ job'[j].read = index /\ job'[j].rec = job[j].rec
        /\ job'[j].op = job[j].op
    BY <1>1, <1>5 DEF Moves, I!TypeOK, JobSet, I!Step, I!Locked
  <2>2. I!TypeOK' /\ errors' \in Nat /\ errors' >= errors
    BY <1>1, <2>1, JobTypes DEF I!LoadIndex, I!TypeOK
  <2>3. KindOK(j)' /\ ReadOK(j)' /\ DirOK(j)'
    BY <1>1, <1>2, <1>5, <2>1 DEF I!LoadIndex, KindOK, ReadOK, DirOK, I!Locked, Writing, I!Clashes
  <2>4. EvenOK'
    BY <1>1, <2>1, EvenIdle DEF I!LoadIndex, Broken, Midway
  <2> QED BY <1>1, <1>3, <2>1, <2>2, <2>3, <2>4, InsideStep DEF I!LoadIndex, I!Locked
<1>6. ASSUME job[j].op = "upgrade", NEW r \in I!Named(index, j), r.image # job[j].rec.image,
             job' = [job EXCEPT ![j].at = "compose", ![j].read = index,
                                ![j].rec = [r EXCEPT !.image = job[j].rec.image]]
      PROVE  InstanceInv'
  <2> DEFINE s == [r EXCEPT !.image = job[j].rec.image]
             e == [job[j] EXCEPT !.at = "compose", !.read = index, !.rec = s]
  <2>1. r \in index
    BY DEF I!Named
  <2>2. job[j].rec.image \in Image
    BY <1>1, RecordParts DEF I!TypeOK
  <2>3. /\ s \in I!Record /\ s.id = r.id /\ s.alias = r.alias /\ s.port = r.port
        /\ s.image = job[j].rec.image
    BY <1>1, <2>1, <2>2, RecordParts DEF I!TypeOK
  <2>4. e \in JobSet /\ e.op = job[j].op /\ e.at = "compose" /\ e.read = index /\ e.rec = s
    <3> HIDE DEF s
    <3> QED BY <1>1, <2>3 DEF I!TypeOK, JobSet, I!Step, I!Locked
  <2>5. job' = [job EXCEPT ![j] = e]
    BY <1>6
  <2>6. Moves(j) /\ job'[j] = e
    <3> HIDE DEF e
    <3> QED BY <1>1, <2>4, <2>5 DEF I!TypeOK, Moves, JobSet
  <2> HIDE DEF s, e
  <2>7. I!TypeOK' /\ errors' \in Nat /\ errors' >= errors
    BY <1>1, <2>6, JobTypes DEF I!LoadIndex, I!TypeOK
  <2>8. KindOK(j)' /\ ReadOK(j)' /\ DirOK(j)'
    BY <1>1, <1>6, <2>1, <2>3, <2>4, <2>6
    DEF I!LoadIndex, KindOK, ReadOK, DirOK, I!Locked, Writing
  <2>9. EvenOK'
    BY <1>1, <2>4, <2>6, EvenIdle DEF I!LoadIndex, Broken, Midway
  <2> QED BY <1>1, <1>3, <2>4, <2>6, <2>7, <2>8, <2>9, InsideStep DEF I!LoadIndex, I!Locked
<1>7. CASE job[j].op = "create"
  BY <1>4, <1>5, <1>7 DEF I!LoadIndex
<1>8. CASE job[j].op = "upgrade" /\ ~I!Leave(j, "error")
  <2>1. PICK s \in I!Named(index, j) : s.image # job[j].rec.image
    BY <1>8 DEF I!LoadIndex
  <2>2. PICK r \in I!Named(index, j) :
           job' = [job EXCEPT ![j].at = "compose", ![j].read = index,
                              ![j].rec = [r EXCEPT !.image = job[j].rec.image]]
    BY <1>8 DEF I!LoadIndex
  <2>3. r = s
    BY DEF I!Named, InstanceInv, I!IndexSound
  <2> QED BY <1>6, <1>8, <2>1, <2>2, <2>3
<1> QED BY <1>1, <1>4, <1>7, <1>8


\* What the cases below need of a job at its step.
LEMMA AtStep ==
    ASSUME InstanceInv, NEW j \in I!Job
    PROVE  /\ I!TypeOK /\ KindOK(j) /\ ReadOK(j) /\ DirOK(j)
           /\ job[j] \in JobSet
           /\ job[j].rec.id \in I!Id /\ job[j].rec.image \in Image
           /\ job[j].prev \in Image /\ job[j].rec \in I!Record
           /\ job[j].op = "create" => job[j].rec.id = j
           /\ job[j].at \in {"load", "make", "place", "compose", "pull", "up", "restore",
                             "upPrevious", "meta", "index", "lock"} =>
                 \A r \in index : r.id # j
BY RecordParts DEF InstanceInv, I!TypeOK, KindOK, IndexOK, JobSet, I!Job

LEMMA MakeDirStep == ASSUME InstanceInv, NEW j \in I!Job, I!MakeDir(j) PROVE InstanceInv'
<1>1. /\ I!TypeOK /\ KindOK(j) /\ ReadOK(j) /\ DirOK(j) /\ job[j].at = "make"
      /\ job[j].op = "create" /\ job[j].rec.id = j /\ job[j].rec.image \in Image
      /\ \A r \in index : r.id # j
  BY AtStep DEF I!MakeDir, KindOK
<1>2. /\ Moves(j) /\ job'[j].at = "place" /\ job'[j].rec = job[j].rec
      /\ job'[j].read = job[j].read /\ job'[j].op = job[j].op
  BY <1>1, GotoMoves DEF I!MakeDir, I!Step, I!Locked, Moves
<1>3. j \in I!Id
  BY Constants DEF I!Id, I!Job
<1>4. /\ dir' \in [I!Id -> [at: {"none", "temporary", "final"}, compose: Image, meta: Image]]
      /\ dir'[j].compose = job[j].rec.image /\ dir'[j].meta = job[j].rec.image
      /\ \A i \in I!Id \ {j} : dir'[i] = dir[i]
  BY <1>1, <1>3 DEF I!MakeDir, I!Own, I!Whole, I!TypeOK
<1>5. I!TypeOK' /\ errors' \in Nat /\ errors' >= errors
  BY <1>1, <1>2, <1>4, JobTypes DEF I!MakeDir, I!TypeOK
<1>6. KindOK(j)' /\ ReadOK(j)' /\ DirOK(j)' /\ EntryOK(j)' /\ Passes(j)
  BY <1>1, <1>2, <1>4 DEF I!MakeDir, KindOK, ReadOK, DirOK, EntryOK, I!Locked, Writing, Passes,
                          InstanceInv, LockOK
<1>7. EvenOK'
  <2>1. \A r \in index : r.id \in I!Id \ {j}
    BY <1>1, RecordParts DEF I!TypeOK
  <2> QED BY <1>1, <1>2, <1>4, <2>1, EvenOther DEF I!MakeDir
<1> QED BY <1>1, <1>2, <1>4, <1>5, <1>6, <1>7, Shape DEF I!MakeDir, InstanceInv, I!Locked

LEMMA PlaceStep == ASSUME InstanceInv, NEW j \in I!Job, I!Place(j) PROVE InstanceInv'
<1>1. /\ I!TypeOK /\ KindOK(j) /\ ReadOK(j) /\ DirOK(j) /\ job[j].at = "place"
      /\ job[j].op = "create" /\ job[j].rec.id = j /\ job[j].rec.image \in Image
      /\ \A r \in index : r.id # j
  BY AtStep DEF I!Place, KindOK
<1>2. /\ Moves(j) /\ job'[j].at = "index" /\ job'[j].rec = job[j].rec
      /\ job'[j].read = job[j].read /\ job'[j].op = job[j].op
  BY <1>1, GotoMoves DEF I!Place, I!Step, I!Locked, Moves
<1>3. j \in I!Id
  BY Constants DEF I!Id, I!Job
<1>4. /\ dir' \in [I!Id -> [at: {"none", "temporary", "final"}, compose: Image, meta: Image]]
      /\ dir'[j].compose = dir[j].compose /\ dir'[j].meta = dir[j].meta /\ dir'[j].at = "final"
      /\ \A i \in I!Id \ {j} : dir'[i] = dir[i]
  BY <1>1, <1>3 DEF I!Place, I!Own, I!TypeOK
<1>5. I!TypeOK' /\ errors' \in Nat /\ errors' >= errors
  BY <1>1, <1>2, <1>4, JobTypes DEF I!Place, I!TypeOK
<1>6. KindOK(j)' /\ ReadOK(j)' /\ DirOK(j)' /\ EntryOK(j)' /\ Passes(j)
  BY <1>1, <1>2, <1>4 DEF I!Place, KindOK, ReadOK, DirOK, EntryOK, I!Locked, Writing, Passes,
                          InstanceInv, LockOK
<1>7. EvenOK'
  <2>1. \A r \in index : r.id \in I!Id \ {j}
    BY <1>1, RecordParts DEF I!TypeOK
  <2> QED BY <1>1, <1>2, <1>4, <2>1, EvenOther DEF I!Place
<1> QED BY <1>1, <1>2, <1>4, <1>5, <1>6, <1>7, Shape DEF I!Place, InstanceInv, I!Locked

LEMMA CleanStep == ASSUME InstanceInv, NEW j \in I!Job, I!Clean(j) PROVE InstanceInv'
<1>1. /\ I!TypeOK /\ KindOK(j) /\ DirOK(j) /\ job[j].at = "clean"
      /\ job[j].op = "create" /\ job[j].rec.id = j
  BY AtStep DEF I!Clean, KindOK
<1>2. /\ Moves(j) /\ job'[j].at = "unlock" /\ job'[j].how = "error" /\ job'[j].rec = job[j].rec
      /\ job'[j].op = job[j].op
  BY <1>1, LeaveMoves DEF I!Clean, I!Ended, Moves
<1>3. j \in I!Id
  BY Constants DEF I!Id, I!Job
<1>4. /\ dir' \in [I!Id -> [at: {"none", "temporary", "final"}, compose: Image, meta: Image]]
      /\ dir'[j].at = "none"
      /\ \A i \in I!Id \ {j} : dir'[i] = dir[i]
  BY <1>1, <1>3, Constants DEF I!Clean, I!Own, I!TypeOK, I!NoDir
<1>5. I!TypeOK' /\ errors' \in Nat /\ errors' >= errors
  BY <1>1, <1>2, <1>4, JobTypes DEF I!Clean, I!TypeOK
<1>6. KindOK(j)' /\ ReadOK(j)' /\ DirOK(j)' /\ EntryOK(j)' /\ Passes(j)
  BY <1>1, <1>2, <1>4 DEF I!Clean, KindOK, ReadOK, DirOK, EntryOK, I!Locked, Writing, Passes,
                          InstanceInv, LockOK
<1>7. EvenOK'
  <2>1. \A r \in index : r.id \in I!Id
    BY <1>1, RecordParts DEF I!TypeOK
  <2> QED BY <1>1, <1>2, <1>4, <2>1, EvenOther DEF I!Clean
<1> QED BY <1>1, <1>2, <1>4, <1>5, <1>6, <1>7, Shape DEF I!Clean, InstanceInv, I!Locked


\* A step of an upgrade under the lock: it may write into the directory of its instance.
LEMMA UpgradeStep ==
    ASSUME InstanceInv, NEW j \in I!Job, Moves(j), UNCHANGED <<index, lock, jobs>>,
           job[j].op = "upgrade", job[j].at \in Writing,
           job'[j].at \in {"pull", "up", "restore", "upPrevious", "meta", "index", "unlock"},
           job'[j].at = "unlock" => job'[j].how \in {"error", "torn"},
           job'[j].at # "unlock" => job'[j].read = job[j].read,
           job'[j].rec = job[j].rec,
           I!TypeOK', errors' \in Nat, errors' >= errors,
           \A i \in I!Id \ {job[j].rec.id} : dir'[i] = dir[i],
           dir'[job[j].rec.id].at = dir[job[j].rec.id].at,
           \A r \in index : r.id = job[j].rec.id /\ EvenFor(j, r) /\ ~Broken(j)' => EvenFor(j, r)'
    PROVE  InstanceInv'
<1>1. /\ I!TypeOK /\ KindOK(j) /\ ReadOK(j) /\ job[j].rec.id \in I!Id /\ \A r \in index : r.id # j
  BY AtStep DEF Writing
<1>2. \A i \in I!Id : dir'[i].at = dir[i].at
  OBVIOUS
<1>3. job'[j].op = "upgrade"
  BY DEF Moves
<1>4. KindOK(j)' /\ ReadOK(j)' /\ DirOK(j)' /\ EntryOK(j)'
  BY <1>1, <1>3 DEF KindOK, ReadOK, DirOK, EntryOK, Writing, I!Locked
<1>5. job[j].at \in I!Locked
  BY DEF Writing, I!Locked
<1>6. Passes(j)
  BY <1>5 DEF Passes, I!Locked, InstanceInv, LockOK
<1>7. ~Broken(j)
  BY DEF Broken, Writing
<1>8. EvenOK'
  BY <1>1, <1>2, <1>5, <1>7, EvenMidway
<1> QED BY <1>2, <1>4, <1>5, <1>6, <1>8, Shape DEF InstanceInv

LEMMA WriteComposeStep == ASSUME InstanceInv, NEW j \in I!Job, I!WriteCompose(j) PROVE InstanceInv'
<1>1. /\ I!TypeOK /\ job[j].at = "compose" /\ job[j].op = "upgrade"
      /\ job[j].rec.id \in I!Id /\ job[j].rec.image \in Image
  BY AtStep DEF I!WriteCompose, KindOK
<1> DEFINE i == job[j].rec.id
<1>2. /\ dir' \in [I!Id -> [at: {"none", "temporary", "final"}, compose: Image, meta: Image]]
      /\ dir'[i].compose = job[j].rec.image /\ dir'[i].meta = dir[i].meta /\ dir'[i].at = dir[i].at
      /\ \A k \in I!Id \ {i} : dir'[k] = dir[k]
  BY <1>1 DEF I!WriteCompose, I!Own, I!TypeOK
<1>3. CASE /\ job' = [job EXCEPT ![j].at = "pull", ![j].prev = dir[i].compose]
           /\ UNCHANGED errors
  <2>1. /\ Moves(j) /\ job'[j].at = "pull" /\ job'[j].read = job[j].read /\ job'[j].rec = job[j].rec
        /\ job'[j].prev = dir[i].compose
    BY <1>1, <1>3 DEF Moves, I!TypeOK, JobSet, I!Step, I!Locked
  <2>2. I!TypeOK' /\ errors' \in Nat /\ errors' >= errors
    BY <1>1, <1>2, <1>3, <2>1, JobTypes DEF I!WriteCompose, I!TypeOK
  <2>3. \A r \in index : r.id = i /\ EvenFor(j, r) => EvenFor(j, r)'
    BY <1>1, <1>2, <2>1 DEF EvenFor, Midway, Half
  <2> QED BY <1>1, <1>2, <2>1, <2>2, <2>3, UpgradeStep DEF I!WriteCompose, Writing
<1>4. CASE errors < MaxErrors /\ errors' = errors + 1 /\ I!Leave(j, "torn")
  <2>1. Moves(j) /\ job'[j].at = "unlock" /\ job'[j].how = "torn" /\ job'[j].rec = job[j].rec
    BY <1>1, <1>4, LeaveMoves DEF I!Ended
  <2>2. I!TypeOK' /\ errors' \in Nat /\ errors' >= errors
    BY <1>1, <1>2, <1>4, <2>1, JobTypes DEF I!WriteCompose, I!TypeOK
  <2> QED BY <1>1, <1>2, <2>1, <2>2, UpgradeStep DEF I!WriteCompose, Writing, Broken
<1> QED BY <1>3, <1>4 DEF I!WriteCompose, I!Own

\* Steps that call Docker and write no file.
LEMMA CallStep ==
    ASSUME InstanceInv, NEW j \in I!Job, UNCHANGED <<index, lock, dir, kept, jobs, errors>>,
           NEW s \in {"up", "restore", "meta"}, I!Goto(j, s), job[j].at \in {"pull", "up"},
           container' \in [I!Id -> Image \cup {"none"}]
    PROVE  InstanceInv'
<1>1. I!TypeOK /\ job[j].op = "upgrade"
  BY AtStep DEF KindOK
<1>2. /\ Moves(j) /\ job'[j].at = s /\ job'[j].read = job[j].read /\ job'[j].rec = job[j].rec
      /\ job'[j].prev = job[j].prev
  BY <1>1, GotoMoves DEF I!Step, I!Locked
<1>3. I!TypeOK' /\ errors' \in Nat /\ errors' >= errors
  BY <1>1, <1>2, JobTypes DEF I!TypeOK
<1>4. \A r \in index : r.id = job[j].rec.id /\ EvenFor(j, r) => EvenFor(j, r)'
  BY <1>1, <1>2 DEF EvenFor, Midway, Half
<1> QED BY <1>1, <1>2, <1>3, <1>4, UpgradeStep DEF Writing

LEMMA PullStep == ASSUME InstanceInv, NEW j \in I!Job, I!Pull(j) PROVE InstanceInv'
BY CallStep DEF I!Pull, InstanceInv, I!TypeOK

LEMMA UpStep == ASSUME InstanceInv, NEW j \in I!Job, I!Up(j) PROVE InstanceInv'
<1>1. container' \in [I!Id -> Image \cup {"none"}]
  BY AtStep DEF I!Up, I!TypeOK, I!Own
<1> QED BY <1>1, CallStep DEF I!Up

LEMMA UpPreviousStep == ASSUME InstanceInv, NEW j \in I!Job, I!UpPrevious(j) PROVE InstanceInv'
<1>1. I!TypeOK /\ job[j].op = "upgrade" /\ job[j].at = "upPrevious" /\ job[j].rec.id \in I!Id
  BY AtStep DEF KindOK, I!UpPrevious
<1>2. Moves(j) /\ job'[j].at = "unlock" /\ job'[j].how = "error" /\ job'[j].rec = job[j].rec
  BY <1>1, LeaveMoves DEF I!Ended, I!UpPrevious
<1>3. container' \in [I!Id -> Image \cup {"none"}]
  BY <1>1 DEF I!UpPrevious, I!TypeOK, I!Own
<1>4. I!TypeOK' /\ errors' \in Nat /\ errors' >= errors
  BY <1>1, <1>2, <1>3, JobTypes DEF I!TypeOK, I!UpPrevious
<1>5. \A r \in index : r.id = job[j].rec.id /\ EvenFor(j, r) => EvenFor(j, r)'
  BY <1>1, <1>2 DEF EvenFor, Midway, Half, I!UpPrevious
<1> QED BY <1>1, <1>2, <1>4, <1>5, UpgradeStep DEF Writing, I!UpPrevious

LEMMA RestoreStep == ASSUME InstanceInv, NEW j \in I!Job, I!Restore(j) PROVE InstanceInv'
<1>1. /\ I!TypeOK /\ job[j].at = "restore" /\ job[j].op = "upgrade"
      /\ job[j].rec.id \in I!Id /\ job[j].prev \in Image
  BY AtStep DEF I!Restore, KindOK
<1> DEFINE i == job[j].rec.id
<1>2. /\ dir' \in [I!Id -> [at: {"none", "temporary", "final"}, compose: Image, meta: Image]]
      /\ dir'[i].compose = job[j].prev /\ dir'[i].meta = dir[i].meta /\ dir'[i].at = dir[i].at
      /\ \A k \in I!Id \ {i} : dir'[k] = dir[k]
  BY <1>1 DEF I!Restore, I!Own, I!TypeOK
<1>3. /\ Moves(j) /\ job'[j].at \in {"upPrevious", "unlock"} /\ job'[j].rec = job[j].rec
      /\ job'[j].at = "unlock" => job'[j].how = "error"
      /\ job'[j].at = "upPrevious" => job'[j].read = job[j].read
  BY <1>1, GotoMoves, LeaveMoves DEF I!Restore, I!Step, I!Locked, I!Ended
<1>4. I!TypeOK' /\ errors' \in Nat /\ errors' >= errors
  BY <1>1, <1>2, <1>3, JobTypes DEF I!Restore, I!TypeOK
<1>5. \A r \in index : r.id = i /\ EvenFor(j, r) => EvenFor(j, r)'
  BY <1>1, <1>2, <1>3 DEF EvenFor, Midway, Half
<1> QED BY <1>1, <1>2, <1>3, <1>4, <1>5, UpgradeStep DEF I!Restore, Writing

LEMMA WriteMetaStep == ASSUME InstanceInv, NEW j \in I!Job, I!WriteMeta(j) PROVE InstanceInv'
<1>1. /\ I!TypeOK /\ job[j].at = "meta" /\ job[j].op = "upgrade"
      /\ job[j].rec.id \in I!Id /\ job[j].rec.image \in Image
  BY AtStep DEF I!WriteMeta, KindOK
<1> DEFINE i == job[j].rec.id
<1>2. /\ dir' \in [I!Id -> [at: {"none", "temporary", "final"}, compose: Image, meta: Image]]
      /\ dir'[i].compose = dir[i].compose /\ dir'[i].meta = job[j].rec.image
      /\ dir'[i].at = dir[i].at
      /\ \A k \in I!Id \ {i} : dir'[k] = dir[k]
  BY <1>1 DEF I!WriteMeta, I!Own, I!TypeOK
<1>3. /\ Moves(j) /\ job'[j].at \in {"index", "unlock"} /\ job'[j].rec = job[j].rec
      /\ job'[j].at = "unlock" => job'[j].how = "torn"
      /\ job'[j].at = "index" => job'[j].read = job[j].read
  BY <1>1, GotoMoves, LeaveMoves DEF I!WriteMeta, I!Step, I!Locked, I!Ended
<1>4. I!TypeOK' /\ errors' \in Nat /\ errors' >= errors
  BY <1>1, <1>2, <1>3, JobTypes DEF I!WriteMeta, I!TypeOK
<1>5. \A r \in index : r.id = i /\ EvenFor(j, r) /\ ~Broken(j)' => EvenFor(j, r)'
  BY <1>1, <1>2, <1>3 DEF EvenFor, Midway, Half, Broken
<1> QED BY <1>1, <1>2, <1>3, <1>4, <1>5, UpgradeStep DEF I!WriteMeta, Writing


\* Writing the index: what was in it stays, and the job's record is in it.
LEMMA NewIndexIs ==
    ASSUME InstanceInv, NEW j \in I!Job, job[j].at = "index"
    PROVE  /\ I!NewIndex(j) \in SUBSET I!Record
           /\ job[j].rec \in I!NewIndex(j)
           /\ \A r \in index : \E s \in I!NewIndex(j) : s.id = r.id
           /\ \A s \in I!NewIndex(j) : s.id # job[j].rec.id => s \in index
           /\ \A s \in I!NewIndex(j) : s.id = job[j].rec.id => s = job[j].rec
           /\ job[j].op = "create" => \A r \in index : r.id # j /\ r.id # job[j].rec.id
           /\ job[j].op = "upgrade" => \E r \in index :
                 r.id = job[j].rec.id /\ r.alias = job[j].rec.alias /\ r.port = job[j].rec.port
           /\ \A r, s \in I!NewIndex(j) :
                 r # s => r.id # s.id /\ r.alias # s.alias /\ r.port # s.port
<1>1. /\ I!TypeOK /\ ReadOK(j) /\ KindOK(j) /\ job[j].rec \in I!Record /\ job[j].read = index
      /\ job[j].op \in {"create", "upgrade"}
  BY AtStep DEF ReadOK, Writing, KindOK, I!Locked
<1>2. \A s : s \in I!NewIndex(j) <=> (s \in index /\ s.id # job[j].rec.id) \/ s = job[j].rec
  BY <1>1 DEF I!NewIndex, I!Own
<1>3. I!NewIndex(j) \in SUBSET I!Record
  BY <1>1, <1>2 DEF I!TypeOK
<1>4. job[j].op = "create" => \A r \in index : r.id # j /\ r.id # job[j].rec.id
  BY <1>1 DEF ReadOK, Writing, KindOK
<1>5. job[j].op = "upgrade" => \E r \in index :
         r.id = job[j].rec.id /\ r.alias = job[j].rec.alias /\ r.port = job[j].rec.port
  BY <1>1 DEF ReadOK, Writing
<1>6. \A s \in index : s.id # job[j].rec.id =>
         s.alias # job[j].rec.alias /\ s.port # job[j].rec.port
  BY <1>1, <1>5 DEF ReadOK, Writing, InstanceInv, I!IndexSound
<1>7. \A r, s \in I!NewIndex(j) : r # s => r.id # s.id /\ r.alias # s.alias /\ r.port # s.port
  BY <1>2, <1>6 DEF InstanceInv, I!IndexSound
<1> QED BY <1>2, <1>3, <1>4, <1>5, <1>7

LEMMA WriteIndexStep == ASSUME InstanceInv, NEW j \in I!Job, I!WriteIndex(j) PROVE InstanceInv'
<1>1. /\ I!TypeOK /\ KindOK(j) /\ ReadOK(j) /\ DirOK(j) /\ job[j].at = "index"
      /\ job[j].op \in {"create", "upgrade"} /\ job[j].rec.id \in I!Id
      /\ job[j].op = "create" => job[j].rec.id = j
      /\ job[j].rec \in I!Record
  BY AtStep DEF I!WriteIndex, KindOK, I!Locked
<1> DEFINE i == job[j].rec.id
<1>2. index' = I!NewIndex(j) /\ UNCHANGED <<lock, dir, container, kept, jobs>>
  BY DEF I!WriteIndex
<1>3. /\ Moves(j) /\ job'[j].rec = job[j].rec /\ job'[j].op = job[j].op
      /\ \/ job'[j].at = "unlock" /\ job'[j].how = I!Ending(j)
         \/ job'[j].at = "clean" /\ job[j].op = "create" /\ errors' > 0
         \/ job'[j].at = "unlock" /\ job'[j].how = "torn" /\ job[j].op = "upgrade"
  BY <1>1, GotoMoves, LeaveMoves DEF I!WriteIndex, I!Step, I!Locked, I!Ended, I!Ending, Moves,
                                     I!TypeOK
<1>4. I!TypeOK' /\ errors' \in Nat /\ errors' >= errors
  BY <1>1, <1>2, <1>3, JobTypes, NewIndexIs DEF I!WriteIndex, I!TypeOK
<1>5. \A k \in I!Job \ {j} : job'[k] = job[k] /\ job[k].at \notin I!Locked
  BY <1>1, <1>3 DEF Moves, InstanceInv, LockOK, I!Locked
<1>6. Numbered' /\ LockOK'
  BY <1>1, <1>2, <1>3, <1>5 DEF InstanceInv, Numbered, LockOK, I!Locked
<1>7. KindOK(j)' /\ ReadOK(j)'
  BY <1>1, <1>3 DEF KindOK, ReadOK, I!Locked, Writing, I!Ending
<1>8. DirOK(j)'
  BY <1>1, <1>2, <1>3, NewIndexIs DEF DirOK, I!Ending
<1>9. ASSUME NEW k \in I!Job, k # j PROVE KindOK(k)' /\ ReadOK(k)' /\ DirOK(k)'
  <2>1. KindOK(k) /\ DirOK(k) /\ job'[k] = job[k] /\ job[k].at \notin I!Locked
    BY <1>5, <1>9 DEF InstanceInv
  <2>2. (\E r \in index : r.id = k) => \E r \in index' : r.id = k
    BY <1>1, <1>2, NewIndexIs
  <2> QED BY <2>1, <2>2 DEF KindOK, ReadOK, DirOK, I!Locked, Writing
<1>10. IndexOK'
  <2> SUFFICES ASSUME NEW r \in index'
               PROVE  /\ r.id = 0 => dir[0].at = "final"
                      /\ r.id # 0 =>
                           /\ job'[r.id].op = "create"
                           /\ job'[r.id].at \in {"clean", "unlock", "error", "created", "crashed"}
                           /\ \/ dir[r.id].at = "final"
                              \/ errors' > 0 /\ job'[r.id].at \in {"unlock", "error", "crashed"}
    BY <1>2 DEF IndexOK
  <2>1. CASE job[j].op = "create" /\ r.id = j
    BY <1>1, <1>3, <2>1, Constants DEF DirOK, I!Job
  <2>2. CASE ~(job[j].op = "create" /\ r.id = j)
    <3>1. PICK s \in index : s.id = r.id
      BY <1>1, <1>2, <2>2, NewIndexIs
    <3>2. s.id # j
      BY <1>1, AtStep
    <3>3. s.id \in I!Id
      BY <1>1, RecordParts DEF I!TypeOK
    <3>4. s.id # 0 => s.id \in I!Job \ {j}
      BY <3>2, <3>3, Constants DEF I!Id, I!Job
    <3>5. errors > 0 => errors' > 0
      BY <1>1, <1>4 DEF I!TypeOK
    <3> QED BY <1>5, <3>1, <3>4, <3>5 DEF InstanceInv, IndexOK
  <2> QED BY <2>1, <2>2
<1>11. I!IndexSound'
  BY <1>1, <1>2, NewIndexIs DEF I!IndexSound
<1>12. EvenOK'
  <2> SUFFICES ASSUME NEW r \in index', dir[r.id].at = "final",
                      \A k \in I!Upgrades(r)' : ~Broken(k)'
               PROVE  Even(r)'
    BY <1>2 DEF EvenOK
  <2>1. ~Midway(j)' /\ \A k \in I!Job \ {j} : ~Midway(k)' /\ Broken(k)' = Broken(k)
    BY <1>3, <1>5 DEF Midway, Broken, I!Locked
  <2>2. I!Upgrades(r)' = I!Upgrades(r) /\ I!Upgrades(r) \subseteq I!Job
    BY <1>3, <1>5 DEF I!Upgrades
  <2>3. SUFFICES dir[r.id].compose = r.image /\ dir[r.id].meta = r.image
    BY <1>2, <2>1, <2>2 DEF Even
  <2>4. CASE job[j].op = "create" /\ r.id = i
    <3>1. r = job[j].rec
      BY <1>1, <1>2, <2>4, NewIndexIs
    <3> QED BY <1>1, <2>4, <3>1 DEF DirOK
  <2>5. CASE r.id # i
    <3>1. r \in index
      BY <1>1, <1>2, <2>5, NewIndexIs
    <3>2. j \notin I!Upgrades(r)
      BY <2>5 DEF I!Upgrades
    <3>3. \A k \in I!Upgrades(r) : ~Broken(k) /\ ~Midway(k)
      BY <1>5, <2>1, <2>2, <3>2 DEF Midway, I!Locked
    <3> QED BY <3>1, <3>3 DEF InstanceInv, EvenOK, Even
  <2>6. CASE job[j].op = "upgrade" /\ r.id = i
    <3>1. r = job[j].rec
      BY <1>1, <1>2, <2>6, NewIndexIs
    <3>2. PICK s \in index : s.id = i
      BY <1>1, <2>6, NewIndexIs
    <3>3. I!Upgrades(s) = I!Upgrades(r) /\ j \in I!Upgrades(s)
      BY <2>6, <3>2 DEF I!Upgrades
    <3>4. ~Broken(j)
      BY <1>1 DEF Broken
    <3>5. \A k \in I!Upgrades(s) : ~Broken(k)
      BY <2>1, <2>2, <3>3, <3>4
    <3>6. Half(j, s)
      BY <1>1, <2>6, <3>2, <3>3, <3>5 DEF InstanceInv, EvenOK, Even, Midway
    <3> QED BY <1>1, <2>6, <3>1, <3>2, <3>6 DEF Half
  <2> QED BY <1>1, <2>4, <2>5, <2>6
<1> QED BY <1>4, <1>6, <1>7, <1>8, <1>9, <1>10, <1>11, <1>12 DEF InstanceInv


LEMMA FailStep == ASSUME InstanceInv, NEW j \in I!Job, I!Fail(j) PROVE InstanceInv'
<1>1. I!TypeOK /\ KindOK(j) /\ ReadOK(j) /\ DirOK(j)
  BY AtStep
<1>2. errors < MaxErrors /\ errors' = errors + 1 /\ UNCHANGED <<index, lock, dir, container, kept, jobs>>
  BY DEF I!Fail
<1>3. errors' > 0
  BY <1>1, <1>2 DEF I!TypeOK
<1>4. ASSUME Moves(j) PROVE I!TypeOK' /\ errors' \in Nat /\ errors' >= errors
  BY <1>1, <1>2, <1>4, JobTypes DEF I!TypeOK
<1>5. CASE job[j].at \in {"copyFiles", "copyTree", "copyDatabase", "publish", "resolve"} /\ I!End(j, "error")
  <2>1. Moves(j) /\ job'[j].at = "error" /\ job'[j].rec.id = job[j].rec.id
    BY <1>1, <1>5, EndMoves DEF I!Ended
  <2> QED BY <1>2, <1>4, <1>5, <2>1, OutsideStep DEF Outside, I!Ended
<1>6. CASE job[j].at \in {"load", "compose"} /\ I!Leave(j, "error")
  <2>1. /\ Moves(j) /\ job'[j].at = "unlock" /\ job'[j].how = "error" /\ job'[j].rec = job[j].rec
        /\ job'[j].op = job[j].op
    BY <1>1, <1>6, LeaveMoves DEF I!Ended, Moves
  <2>2. KindOK(j)' /\ ReadOK(j)' /\ DirOK(j)' /\ EntryOK(j)'
    BY <1>1, <1>2, <1>6, <2>1, AtStep DEF KindOK, ReadOK, DirOK, EntryOK, I!Locked, Writing
  <2>3. EvenOK'
    BY <1>2, <1>6, <2>1, EvenIdle DEF Broken, Midway
  <2> QED BY <1>2, <1>4, <1>6, <2>1, <2>2, <2>3, InsideStep DEF I!Locked
<1>7. CASE job[j].op = "upgrade" /\ job[j].at \in {"restore", "meta", "index"} /\ I!Leave(j, "torn")
  <2>1. Moves(j) /\ job'[j].at = "unlock" /\ job'[j].how = "torn" /\ job'[j].rec = job[j].rec
    BY <1>1, <1>7, LeaveMoves DEF I!Ended
  <2> QED BY <1>2, <1>4, <1>7, <2>1, UpgradeStep DEF Writing, Broken
<1>8. CASE job[j].op = "create" /\ job[j].at \in {"make", "place", "index"} /\ I!Goto(j, "clean")
  <2>1. Moves(j) /\ job'[j].at = "clean" /\ job'[j].rec = job[j].rec /\ job'[j].op = job[j].op
    BY <1>1, <1>8, GotoMoves DEF I!Step, I!Locked, Moves
  <2>2. KindOK(j)' /\ ReadOK(j)' /\ DirOK(j)' /\ EntryOK(j)'
    BY <1>1, <1>2, <1>3, <1>8, <2>1, AtStep DEF KindOK, ReadOK, DirOK, EntryOK, I!Locked, Writing
  <2>3. EvenOK'
    BY <1>2, <1>8, <2>1, EvenOther
  <2> QED BY <1>2, <1>4, <1>8, <2>1, <2>2, <2>3, InsideStep DEF I!Locked
<1>9. job[j].at \in {"restore", "meta"} => job[j].op = "upgrade"
  BY <1>1 DEF KindOK
<1>10. job[j].at \in {"make", "place"} => job[j].op = "create"
  BY <1>1 DEF KindOK
<1>11. job[j].at = "index" => job[j].op \in {"create", "upgrade"}
  BY <1>1 DEF KindOK, I!Locked
<1> QED BY <1>5, <1>6, <1>7, <1>8, <1>9, <1>10, <1>11 DEF I!Fail

LEMMA CrashStep == ASSUME InstanceInv, NEW j \in I!Job, I!Crash(j) PROVE InstanceInv'
<1>1. I!TypeOK /\ KindOK(j) /\ ReadOK(j) /\ DirOK(j)
  BY AtStep
<1>2. UNCHANGED <<index, lock, dir, container, kept, jobs, errors>> /\ job[j].at \notin I!Ended \cup {"none"}
  BY DEF I!Crash
<1>3. Moves(j) /\ job'[j].at = "crashed" /\ job'[j].rec.id = job[j].rec.id /\ job'[j].op = job[j].op
  BY <1>1, EndMoves DEF I!Crash, I!Ended, Moves
<1>4. I!TypeOK' /\ errors' \in Nat /\ errors' >= errors
  BY <1>1, <1>2, <1>3, JobTypes DEF I!TypeOK
<1>5. KindOK(j)' /\ ReadOK(j)' /\ DirOK(j)' /\ Passes(j)
  BY <1>1, <1>2, <1>3 DEF KindOK, ReadOK, DirOK, Passes, I!Locked, Writing
<1>6. EntryOK(j)'
  BY <1>1, <1>2, <1>3 DEF EntryOK, InstanceInv, IndexOK, I!Job
<1>7. EvenOK'
  <2>1. CASE job[j].op # "upgrade"
    BY <1>2, <1>3, <2>1, EvenOther
  <2>2. CASE job[j].op = "upgrade" /\ job[j].at \in I!Locked
    BY <1>1, <1>2, <1>3, <2>2, EvenMidway DEF Broken
  <2>3. CASE job[j].at \notin I!Locked
    BY <1>2, <1>3, <2>3, EvenIdle DEF Broken, Midway, I!Locked
  <2> QED BY <2>1, <2>2, <2>3
<1> QED BY <1>2, <1>3, <1>4, <1>5, <1>6, <1>7, Shape DEF InstanceInv

LEMMA BeginStep == ASSUME InstanceInv, I!BeginAny PROVE InstanceInv' /\ jobs' \in I!Job /\ jobs' = jobs + 1
<1>1. PICK op \in {"create", "start", "backup", "upgrade"}, alias \in Alias, port \in Port, image \in Image :
         I!Begin(op, alias, port, image)
  BY DEF I!BeginAny
<1>0. I!TypeOK /\ jobs + 1 \in I!Job /\ jobs \in Nat
  BY <1>1, Constants DEF I!Begin, InstanceInv, I!TypeOK, I!Job
<1>2. PICK n \in I!Job : jobs' = n /\ n = jobs + 1 /\ n # 0 /\ n > jobs
  BY <1>0, <1>1 DEF I!Begin
<1> DEFINE new == [id |-> n, alias |-> alias, port |-> port, image |-> image]
           e == [I!NoJob EXCEPT !.op = op, !.at = IF op = "create" THEN "lock" ELSE "resolve", !.rec = new]
<1>3. new \in I!Record /\ new.id = n
  BY <1>0, <1>2, Constants DEF I!Record, I!Id, I!Job
<1>4. e \in JobSet /\ e.op = op /\ e.rec = new /\ e.at = IF op = "create" THEN "lock" ELSE "resolve"
  <2> HIDE DEF new
  <2> QED BY <1>3, StartingJob DEF JobSet, I!NoJob, I!Step
<1>5. UNCHANGED <<index, lock, dir, container, kept, errors>> /\ job' = [job EXCEPT ![n] = e]
  BY <1>1, <1>2 DEF I!Begin
<1> HIDE DEF new, e
<1>6. job' \in [I!Job -> JobSet] /\ job'[n] = e /\ \A k \in I!Job \ {n} : job'[k] = job[k]
  BY <1>0, <1>2, <1>4, <1>5 DEF I!TypeOK, JobSet
<1>7. I!TypeOK'
  BY <1>0, <1>2, <1>5, <1>6, Constants DEF I!TypeOK, I!Job, JobSet
<1>8. job[n].at = "none"
  BY <1>0, <1>2 DEF InstanceInv, Numbered
<1>9. Numbered'
  <2>1. e.at # "none"
    BY <1>4
  <2>2. ASSUME NEW k \in I!Job, k # n PROVE k > n <=> k > jobs
    BY <1>0, <1>2, <2>2, Constants DEF I!Job
  <2>3. ASSUME NEW k \in I!Job PROVE job'[k].at = "none" <=> k > n
    <3>1. CASE k = n
      BY <1>0, <1>2, <1>6, <2>1, <3>1
    <3>2. CASE k # n
      BY <1>6, <2>2, <3>2 DEF InstanceInv, Numbered
    <3> QED BY <3>1, <3>2
  <2> QED BY <1>0, <1>2, <2>3 DEF Numbered
<1>10. LockOK'
  <2>1. e.at \notin I!Locked
    BY <1>4 DEF I!Locked
  <2> QED BY <1>5, <1>6, <2>1 DEF InstanceInv, LockOK
<1>11. KindOK(n)' /\ ReadOK(n)' /\ DirOK(n)'
  <2>1. /\ job'[n].op = op /\ job'[n].rec.id = n
        /\ op = "create" => job'[n].at = "lock"
        /\ op # "create" => job'[n].at = "resolve"
    BY <1>3, <1>4, <1>6
  <2> QED BY <1>1, <2>1 DEF KindOK, ReadOK, DirOK, I!Locked, Writing
<1>12. ASSUME NEW k \in I!Job, k # n PROVE KindOK(k)' /\ ReadOK(k)' /\ DirOK(k)'
  BY <1>5, <1>6, <1>12 DEF InstanceInv, KindOK, ReadOK, DirOK
<1>13. \A r \in index : r.id # n
  BY <1>0, <1>2, <1>8 DEF InstanceInv, IndexOK
<1>14. IndexOK'
  <2>1. \A r \in index : r.id \in I!Id
    BY <1>0, <1>2, RecordParts DEF I!TypeOK
  <2>2. \A r \in index : r.id # 0 => job'[r.id] = job[r.id]
    BY <1>6, <1>13, <2>1, Constants DEF I!Id, I!Job
  <2> QED BY <1>5, <2>2 DEF InstanceInv, IndexOK
<1>15. I!IndexSound'
  BY <1>5 DEF InstanceInv, I!IndexSound
<1>16. EvenOK'
  <2> SUFFICES ASSUME NEW r \in index, dir[r.id].at = "final",
                      \A k \in I!Upgrades(r)' : ~Broken(k)'
               PROVE  Even(r)'
    BY <1>5 DEF EvenOK
  <2>1. r.id # n
    BY <1>13
  <2>2. n \notin I!Upgrades(r)'
    BY <1>3, <1>4, <1>6, <2>1 DEF I!Upgrades
  <2>3. n \in I!Upgrades(r) => ~Broken(n) /\ ~Midway(n)
    BY <1>8 DEF Broken, Midway
  <2>4. I!Upgrades(r) \subseteq I!Job /\ I!Upgrades(r)' \subseteq I!Job
    BY DEF I!Upgrades, I!Job
  <2>5. \A k \in I!Job \ {n} : /\ k \in I!Upgrades(r)' <=> k \in I!Upgrades(r)
                               /\ Broken(k)' = Broken(k) /\ Midway(k)' = Midway(k)
    BY <1>6 DEF I!Upgrades, Broken, Midway
  <2>6. \A k \in I!Upgrades(r) : ~Broken(k)
    BY <2>2, <2>3, <2>4, <2>5
  <2>7. Even(r)
    BY <2>6 DEF InstanceInv, EvenOK
  <2>8. \A k \in I!Upgrades(r)' : Midway(k)' => Half(k, r)'
    BY <1>5, <1>6, <2>2, <2>4, <2>5, <2>7 DEF Even, Half
  <2>9. (\A k \in I!Upgrades(r)' : ~Midway(k)') => \A k \in I!Upgrades(r) : ~Midway(k)
    BY <2>2, <2>3, <2>4, <2>5
  <2> QED BY <1>5, <2>7, <2>8, <2>9 DEF Even
<1>17. \A k \in I!Job : KindOK(k)' /\ ReadOK(k)' /\ DirOK(k)'
  BY <1>11, <1>12
<1>18. InstanceInv'
  BY <1>7, <1>9, <1>10, <1>14, <1>15, <1>16, <1>17 DEF InstanceInv
<1> QED BY <1>0, <1>2, <1>18

LEMMA InstanceStep == InstanceInv /\ [I!Next]_instanceVars => InstanceInv'
<1> SUFFICES ASSUME InstanceInv, [I!Next]_instanceVars PROVE InstanceInv'
  OBVIOUS
<1>1. CASE UNCHANGED instanceVars
  BY <1>1 DEF instanceVars, InstanceInv, I!TypeOK, Numbered, KindOK, ReadOK, DirOK, LockOK, IndexOK,
              I!IndexSound, EvenOK, Even, Half, Midway, Broken, I!Upgrades
<1>2. CASE I!BeginAny
  BY <1>2, BeginStep
<1>3. CASE I!RemoveLeftLock
  <2>1. UNCHANGED <<index, dir, container, kept, job, jobs, errors>> /\ lock' \in BOOLEAN
    BY <1>3 DEF I!RemoveLeftLock
  <2>2. LockOK'
    BY <1>3, <2>1 DEF I!RemoveLeftLock, LockOK
  <2>3. I!TypeOK' /\ Numbered' /\ \A j \in I!Job : KindOK(j)' /\ ReadOK(j)' /\ DirOK(j)'
    BY <2>1 DEF InstanceInv, I!TypeOK, Numbered, KindOK, ReadOK, DirOK
  <2>4. IndexOK' /\ I!IndexSound' /\ EvenOK'
    BY <2>1 DEF InstanceInv, IndexOK, I!IndexSound, EvenOK, Even, Half, Midway, Broken, I!Upgrades
  <2> QED BY <2>2, <2>3, <2>4 DEF InstanceInv
<1>4. ASSUME NEW j \in I!Job, I!Plain(j) PROVE InstanceInv'
  BY <1>4, ResolveStep, PublishStep, AcquireStep, UnlockStep, LoadIndexStep, MakeDirStep, PlaceStep,
     WriteIndexStep, CleanStep, WriteComposeStep, PullStep, RestoreStep, WriteMetaStep, FailStep,
     CrashStep
  DEF I!Plain
<1>5. ASSUME NEW j \in I!Job,
             I!Ups(j) \/ I!CopyFiles(j) \/ I!CopyTree(j) \/ I!CopyDatabase(j)
      PROVE  InstanceInv'
  BY <1>5, StartUpStep, UpStep, UpPreviousStep, CopyStep DEF I!Ups
<1> QED BY <1>1, <1>2, <1>3, <1>4, <1>5 DEF I!Next

-----------------------------------------------------------------------------
(* The offline commands: what their steps need.                            *)

LEMMA Bounds ==
    /\ MaxCommands \in Nat /\ MaxWrites \in Nat /\ MaxFaults \in Nat /\ Primary \in Owner
BY BoundAssumption, OwnerAssumption

LEMMA CipherParts ==
    ASSUME NEW c \in Cipher
    PROVE  /\ c.of \in 1..MaxWrites /\ c.owner \in Owner /\ c.key \in Key
           /\ \A k \in Key : LET d == [c EXCEPT !.key = k] IN
                 d \in Cipher /\ d.key = k /\ d.of = c.of /\ d.owner = c.owner
BY DEF Cipher

LEMMA UnderParts ==
    ASSUME NEW k \in Key, NEW f \in File
    PROVE  /\ Under(k, f) \in File
           /\ \A c \in Under(k, f) : c.key = k /\ \E d \in f : d.of = c.of /\ d.owner = c.owner
<1>1. \A c \in f : c \in Cipher
  BY DEF File
<1>2. \A c \in Under(k, f) : \E d \in f : c = [d EXCEPT !.key = k]
  BY DEF Under
<1>3. ASSUME NEW c \in Under(k, f)
      PROVE  c \in Cipher /\ c.key = k /\ \E d \in f : d.of = c.of /\ d.owner = c.owner
  <2>1. PICK d \in f : c = [d EXCEPT !.key = k]
    BY <1>2
  <2> QED BY <1>1, <2>1, CipherParts
<1> QED BY <1>3 DEF File

\* What was recoverable stays so as long as no key is lost and no recovery bundle changed.
LEMMA KeptStays ==
    ASSUME KnownKeys \subseteq KnownKeys', Recovery \subseteq Recovery',
           \A n \in Recovery : bundle'[n].db = bundle[n].db /\ bundle'[n].session = bundle[n].session,
           NEW c, Kept(c)
    PROVE  Kept(c)'
BY DEF Kept

LEMMA KeptUnchanged ==
    ASSUME UNCHANGED <<secret, bundle>>
    PROVE  KnownKeys' = KnownKeys /\ Recovery' = Recovery /\ \A c : Kept(c) => Kept(c)'
<1>1. KnownKeys' = KnownKeys /\ Recovery' = Recovery
  BY DEF KnownKeys, Recovery
<1> QED BY <1>1, KeptStays

LEMMA InitMaintenance == Init => MaintenanceInv
<1> SUFFICES ASSUME Init PROVE MaintenanceInv
  OBVIOUS
<1>1. TypeOK
  BY Bounds DEF Init, TypeOK, Key, File, Command, Bundle, NoBundle, Op, Step, Ended, Idle, Down
<1>2. ServiceOK /\ CommandOK /\ FilesOK
  BY DEF Init, ServiceOK, CommandOK, FilesOK, Idle, Down, Exclusive, Making
<1>3. KeptOK
  BY DEF Init, KeptOK, Live, NoBundle
<1> QED BY <1>1, <1>2, <1>3 DEF MaintenanceInv

-----------------------------------------------------------------------------
(* The service.                                                            *)

\* The service starts or stops, or its container is made anew.
LEMMA ServiceStep ==
    ASSUME MaintenanceInv, UNCHANGED <<files, bundle, cmd, bounds, last, before>>,
           service' = Down \/ (service' \in {secret, service} /\ ~Exclusive)
    PROVE  MaintenanceInv'
<1>1. TypeOK'
  BY DEF MaintenanceInv, TypeOK, files, bounds
<1>2. ServiceOK' /\ CommandOK' /\ FilesOK'
  BY DEF MaintenanceInv, ServiceOK, CommandOK, FilesOK, Exclusive, files, bounds, Opens
<1>3. KeptOK'
  BY KeptUnchanged DEF MaintenanceInv, KeptOK, Live, files
<1> QED BY <1>1, <1>2, <1>3 DEF MaintenanceInv

LEMMA SealedIs ==
    ASSUME MaintenanceInv, service # Down, writes < MaxWrites, NEW o \in Owner
    PROVE  Sealed(o) \in Cipher /\ Sealed(o).key = secret /\ writes + 1 \in 0..MaxWrites
BY Bounds DEF MaintenanceInv, TypeOK, ServiceOK, Sealed, Cipher, Down

LEMMA WriteRowStep ==
    ASSUME MaintenanceInv, NEW o \in Owner, WriteRow(o) PROVE MaintenanceInv'
<1>1. Sealed(o) \in Cipher /\ Sealed(o).key = secret /\ writes + 1 \in 0..MaxWrites
  BY SealedIs DEF WriteRow
<1>2. tenantDb' \in [Owner -> File]
  BY <1>1 DEF WriteRow, MaintenanceInv, TypeOK, File
<1>3. TypeOK'
  BY <1>1, <1>2 DEF WriteRow, MaintenanceInv, TypeOK
<1>4. ~Exclusive
  BY DEF WriteRow, MaintenanceInv, ServiceOK
<1>5. ServiceOK' /\ CommandOK' /\ FilesOK'
  BY <1>4 DEF WriteRow, MaintenanceInv, ServiceOK, CommandOK, FilesOK, Exclusive
<1>6. \A c \in Live' : c \in Live \/ c = Sealed(o)
  BY DEF WriteRow, Live, MaintenanceInv, TypeOK
<1>7. Kept(Sealed(o))
  BY <1>1 DEF Kept, KnownKeys
<1>8. KeptOK'
  BY <1>6, <1>7, KeptUnchanged DEF WriteRow, MaintenanceInv, KeptOK
<1> QED BY <1>3, <1>5, <1>8 DEF MaintenanceInv

LEMMA SaveSessionStep ==
    ASSUME MaintenanceInv, NEW o \in Owner, SaveSession(o) PROVE MaintenanceInv'
<1>1. Sealed(o) \in Cipher /\ Sealed(o).key = secret /\ writes + 1 \in 0..MaxWrites
  BY SealedIs DEF SaveSession
<1>2. session' \in [Owner -> File]
  BY <1>1 DEF SaveSession, MaintenanceInv, TypeOK, File
<1>3. TypeOK'
  BY <1>1, <1>2 DEF SaveSession, MaintenanceInv, TypeOK
<1>4. ~Exclusive
  BY DEF SaveSession, MaintenanceInv, ServiceOK
<1>5. ServiceOK' /\ CommandOK' /\ FilesOK'
  BY <1>4 DEF SaveSession, MaintenanceInv, ServiceOK, CommandOK, FilesOK, Exclusive
<1>6. \A c \in Live' : c \in Live \/ c = Sealed(o)
  BY DEF SaveSession, Live, MaintenanceInv, TypeOK
<1>7. Kept(Sealed(o))
  BY <1>1 DEF Kept, KnownKeys
<1>8. KeptOK'
  BY <1>6, <1>7, KeptUnchanged DEF SaveSession, MaintenanceInv, KeptOK
<1> QED BY <1>3, <1>5, <1>8 DEF MaintenanceInv

LEMMA RemoveSessionStep ==
    ASSUME MaintenanceInv, NEW o \in Owner, RemoveSession(o) PROVE MaintenanceInv'
<1>1. session' \in [Owner -> File]
  BY DEF RemoveSession, MaintenanceInv, TypeOK, File
<1>2. TypeOK'
  BY <1>1 DEF RemoveSession, MaintenanceInv, TypeOK, bounds
<1>3. ~Exclusive
  BY DEF RemoveSession, MaintenanceInv, ServiceOK
<1>4. ServiceOK' /\ CommandOK' /\ FilesOK'
  BY <1>3 DEF RemoveSession, MaintenanceInv, ServiceOK, CommandOK, FilesOK, Exclusive, bounds
<1>5. \A c \in Live' : c \in Live
  BY DEF RemoveSession, Live, MaintenanceInv, TypeOK
<1>6. KeptOK'
  BY <1>5, KeptUnchanged DEF RemoveSession, MaintenanceInv, KeptOK
<1> QED BY <1>2, <1>4, <1>6 DEF MaintenanceInv

LEMMA ServiceSteps == ASSUME MaintenanceInv, ~StartsBeside, ServiceNext PROVE MaintenanceInv'
<1>1. CASE StartService
  BY <1>1, ServiceStep DEF StartService, Exclusive
<1>2. CASE StopService
  BY <1>2, ServiceStep DEF StopService
<1> QED BY <1>1, <1>2, WriteRowStep, SaveSessionStep, RemoveSessionStep DEF ServiceNext


-----------------------------------------------------------------------------
(* The steps of a command.                                                 *)

CmdSet == [op: Op, at: Step, source: 0..MaxCommands, owner: Owner, key: Key, loaded: File]

LEMMA GoToIs ==
    ASSUME TypeOK, NEW s \in Step, GoTo(s)
    PROVE  /\ cmd' \in CmdSet /\ cmd'.at = s
           /\ cmd'.op = cmd.op /\ cmd'.source = cmd.source /\ cmd'.owner = cmd.owner
           /\ cmd'.key = cmd.key /\ cmd'.loaded = cmd.loaded
BY DEF TypeOK, GoTo, CmdSet

LEMMA IdleIs == Idle \in CmdSet /\ Idle.op = "none" /\ Idle.at = "idle"
BY Bounds DEF Idle, CmdSet, Op, Step, Key, File

LEMMA AtCommand ==
    ASSUME MaintenanceInv
    PROVE  /\ TypeOK /\ ServiceOK /\ CommandOK /\ FilesOK /\ KeptOK
           /\ cmd \in CmdSet
           /\ cmd.at # "idle" => cmd.op # "none" /\ commands \in Command /\ commands \in Key
           /\ cmd.at # "idle" /\ cmd.at \notin Making =>
                 commands \in Recovery /\ bundle[commands].key = {cmd.key} /\ Exclusive
           /\ cmd.at # "idle" /\ cmd.at \notin {"undoDb", "undoSession"} => cmd.key = secret
           /\ session[Primary] \in File /\ stateDb \in File
           /\ bundle \in [Command -> Bundle]
<1>1. /\ TypeOK /\ ServiceOK /\ CommandOK /\ FilesOK /\ KeptOK /\ cmd \in CmdSet
      /\ session[Primary] \in File /\ stateDb \in File /\ bundle \in [Command -> Bundle]
  BY Bounds DEF MaintenanceInv, TypeOK, CmdSet
<1>2. cmd.at # "idle" => cmd.op # "none" /\ commands \in Command /\ commands \in Key
  BY <1>1, Bounds DEF CommandOK, TypeOK, Command, Key
<1>3. cmd.at # "idle" /\ cmd.at \notin Making =>
         commands \in Recovery /\ bundle[commands].key = {cmd.key} /\ Exclusive
  BY <1>1, <1>2 DEF CommandOK, Recovery
<1> QED BY <1>1, <1>2, <1>3 DEF CommandOK

\* A command that has ended asks nothing of the files.
LEMMA EndedCommand ==
    ASSUME MaintenanceInv, cmd' = Idle, UNCHANGED <<service, commands>>,
           service # Down => secret' = secret,
           \A n \in Command : n > commands => bundle'[n] = bundle[n]
    PROVE  ServiceOK' /\ CommandOK' /\ FilesOK'
<1>1. ServiceOK /\ CommandOK
  BY AtCommand
<1>2. ServiceOK' /\ FilesOK'
  BY <1>1, IdleIs DEF ServiceOK, FilesOK, Exclusive
<1>3. CommandOK'
  BY <1>1, IdleIs DEF CommandOK, Making
<1> QED BY <1>2, <1>3

LEMMA BeginCommandStep ==
    ASSUME MaintenanceInv, NEW op \in {"backup", "restore", "rotate"}, NEW o \in Owner,
           NEW source \in 0..MaxCommands, Begin(op, o, source),
           op = "restore" => source \in Command /\ bundle[source].sealed
    PROVE  MaintenanceInv'
<1>1. /\ TypeOK /\ ServiceOK /\ CommandOK /\ KeptOK
  BY AtCommand
<1>2. commands + 1 \in Command /\ commands \in Nat /\ commands' = commands + 1
  BY <1>1, Bounds DEF Begin, TypeOK, Command
<1>3. /\ cmd' \in CmdSet /\ cmd'.op = op /\ cmd'.at = "copyDb" /\ cmd'.source = source
      /\ cmd'.key = secret
  BY <1>1, IdleIs DEF Begin, TypeOK, CmdSet, Op, Step
<1>4. /\ before' = [db |-> stateDb, session |-> session[Primary]]
      /\ UNCHANGED <<files, bundle, service, writes, faults, last>>
      /\ op # "backup" => service = Down
  BY DEF Begin
<1>5. TypeOK'
  <2>1. before' \in [db: File, session: File]
    BY <1>1, <1>4, Bounds DEF TypeOK
  <2>2. commands' \in 0..MaxCommands
    BY <1>2, Bounds DEF Command
  <2> QED BY <1>1, <1>3, <1>4, <2>1, <2>2 DEF TypeOK, files, CmdSet
<1>6. ServiceOK'
  BY <1>1, <1>3, <1>4 DEF ServiceOK, Exclusive, files
<1>7. CommandOK'
  <2>1. ~bundle[commands + 1].sealed
    BY <1>1, <1>2 DEF CommandOK, NoBundle
  <2>2. \A n \in Command : n > commands + 1 => bundle[n] = NoBundle
    BY <1>1, <1>2 DEF CommandOK, Command
  <2>3. op = "restore" => source < commands + 1
    BY <1>1, <1>2 DEF CommandOK, NoBundle, Command
  <2> QED BY <1>2, <1>3, <1>4, <2>1, <2>2, <2>3 DEF CommandOK, Making, files
<1>8. FilesOK'
  BY <1>3, <1>4 DEF FilesOK, Making, files
<1>9. KeptOK'
  BY <1>1, <1>4, KeptUnchanged DEF KeptOK, Live, files
<1> QED BY <1>5, <1>6, <1>7, <1>8, <1>9 DEF MaintenanceInv

LEMMA CopyDbStep == ASSUME MaintenanceInv, CopyDb PROVE MaintenanceInv'
<1>1. /\ TypeOK /\ ServiceOK /\ CommandOK /\ FilesOK /\ KeptOK /\ commands \in Command
      /\ cmd.at = "copyDb" /\ cmd.op # "none" /\ cmd \in CmdSet
      /\ UNCHANGED <<files, service, bounds, last, before>>
  BY AtCommand DEF CopyDb
<1>2. /\ cmd' \in CmdSet /\ cmd'.at = "copySession" /\ cmd'.op = cmd.op
      /\ cmd'.source = cmd.source /\ cmd'.key = cmd.key
  BY <1>1, GoToIs DEF CopyDb, Step
<1> DEFINE copied == IF cmd.op = "backup" THEN tenantDb[cmd.owner] ELSE stateDb
<1>3. copied \in File /\ \A c \in copied : c \in Live
  BY <1>1 DEF TypeOK, CmdSet, Live
<1>4. bundle' = [bundle EXCEPT ![commands].db = copied]
  BY DEF CopyDb
<1> HIDE DEF copied
<1>5. /\ bundle' \in [Command -> Bundle]
      /\ bundle'[commands].db = copied /\ bundle'[commands].session = bundle[commands].session
      /\ \A n \in Command : bundle'[n].sealed = bundle[n].sealed /\ bundle'[n].key = bundle[n].key
      /\ \A n \in Command \ {commands} : bundle'[n] = bundle[n]
  BY <1>1, <1>3, <1>4 DEF TypeOK, Bundle
<1>6. TypeOK'
  BY <1>1, <1>2, <1>5 DEF TypeOK, CmdSet, files, bounds
<1>7. ServiceOK'
  BY <1>1, <1>2 DEF ServiceOK, Exclusive, files
<1>8. CommandOK'
  BY <1>1, <1>2, <1>5 DEF CommandOK, Making, files, bounds, Exclusive, Command
<1>9. FilesOK'
  <2>1. cmd.op \in {"restore", "rotate"} => copied = stateDb
    BY DEF copied
  <2> QED BY <1>1, <1>2, <1>5, <2>1 DEF FilesOK, Making, files, bounds, Exclusive
<1>10. KeptOK'
  <2>1. KnownKeys' = KnownKeys /\ Recovery' = Recovery
    BY <1>1, <1>5 DEF KnownKeys, Recovery, files
  <2>2. commands \notin Recovery
    BY <1>1 DEF Recovery, CommandOK, Making
  <2>3. \A c : Kept(c) => Kept(c)'
    BY <1>5, <2>1, <2>2, KeptStays DEF Recovery
  <2> QED BY <1>1, <1>3, <1>5, <2>3 DEF KeptOK, Live, files
<1> QED BY <1>6, <1>7, <1>8, <1>9, <1>10 DEF MaintenanceInv

LEMMA CopySessionStep == ASSUME MaintenanceInv, CopySession PROVE MaintenanceInv'
<1>1. /\ TypeOK /\ ServiceOK /\ CommandOK /\ FilesOK /\ KeptOK /\ commands \in Command
      /\ cmd.at = "copySession" /\ cmd.op # "none" /\ cmd \in CmdSet
      /\ UNCHANGED <<files, service, bounds, last, before>>
  BY AtCommand DEF CopySession
<1>2. /\ cmd' \in CmdSet /\ cmd'.at = "seal" /\ cmd'.op = cmd.op
      /\ cmd'.source = cmd.source /\ cmd'.key = cmd.key
  BY <1>1, GoToIs DEF CopySession, Step
<1>3. session[Primary] \in File /\ \A c \in session[Primary] : c \in Live
  BY <1>1, Bounds DEF TypeOK, Live
<1>5. /\ bundle' \in [Command -> Bundle]
      /\ bundle'[commands].db = bundle[commands].db /\ bundle'[commands].session = session[Primary]
      /\ \A n \in Command : bundle'[n].sealed = bundle[n].sealed /\ bundle'[n].key = bundle[n].key
      /\ \A n \in Command \ {commands} : bundle'[n] = bundle[n]
  BY <1>1, <1>3 DEF TypeOK, Bundle, CopySession
<1>6. TypeOK'
  BY <1>1, <1>2, <1>5 DEF TypeOK, CmdSet, files, bounds
<1>7. ServiceOK'
  BY <1>1, <1>2 DEF ServiceOK, Exclusive, files
<1>8. CommandOK'
  BY <1>1, <1>2, <1>5 DEF CommandOK, Making, files, bounds, Exclusive, Command
<1>9. FilesOK'
  BY <1>1, <1>2, <1>5 DEF FilesOK, Making, files, bounds, Exclusive
<1>10. KeptOK'
  <2>1. KnownKeys' = KnownKeys /\ Recovery' = Recovery
    BY <1>1, <1>5 DEF KnownKeys, Recovery, files
  <2>2. commands \notin Recovery
    BY <1>1 DEF Recovery, CommandOK, Making
  <2>3. \A c : Kept(c) => Kept(c)'
    BY <1>5, <2>1, <2>2, KeptStays DEF Recovery
  <2> QED BY <1>1, <1>3, <1>5, <2>3 DEF KeptOK, Live, files
<1> QED BY <1>6, <1>7, <1>8, <1>9, <1>10 DEF MaintenanceInv

LEMMA SealStep == ASSUME MaintenanceInv, Seal PROVE MaintenanceInv'
<1>1. /\ TypeOK /\ ServiceOK /\ CommandOK /\ FilesOK /\ KeptOK /\ commands \in Command
      /\ cmd.at = "seal" /\ cmd.op # "none" /\ cmd \in CmdSet /\ cmd.key = secret
      /\ UNCHANGED <<files, service, bounds, before>>
  BY AtCommand DEF Seal
<1>2. BundledKey \in SUBSET Key /\ (cmd.op # "backup" => BundledKey = {cmd.key})
  BY <1>1 DEF BundledKey, CmdSet
<1>3. /\ bundle' \in [Command -> Bundle]
      /\ bundle'[commands].sealed /\ bundle'[commands].key = BundledKey
      /\ \A n \in Command : bundle'[n].db = bundle[n].db /\ bundle'[n].session = bundle[n].session
      /\ \A n \in Command \ {commands} : bundle'[n] = bundle[n]
  BY <1>1, <1>2 DEF TypeOK, Bundle, Seal
<1>4. KeptOK'
  <2>1. commands \notin Recovery
    BY <1>1 DEF Recovery, CommandOK, Making
  <2>2. Recovery \subseteq Recovery' /\ KnownKeys \subseteq KnownKeys'
    BY <1>1, <1>3, <2>1 DEF Recovery, KnownKeys, files
  <2>3. \A c : Kept(c) => Kept(c)'
    BY <1>3, <2>2, KeptStays DEF Recovery
  <2> QED BY <1>1, <1>3, <2>3 DEF KeptOK, Live, files
<1>5. CASE cmd.op = "backup" /\ End("backed_up")
  <2>1. TypeOK'
    BY <1>1, <1>3, <1>5, IdleIs DEF TypeOK, files, bounds, End, CmdSet, Ended
  <2>2. ServiceOK' /\ CommandOK' /\ FilesOK'
    BY <1>1, <1>3, <1>5, EndedCommand DEF End, files, bounds, TypeOK
  <2> QED BY <1>4, <2>1, <2>2 DEF MaintenanceInv
<1>6. ASSUME NEW s \in {"installDb", "load"}, GoTo(s), UNCHANGED last,
             s = "installDb" => cmd.op = "restore", s = "load" => cmd.op = "rotate"
      PROVE  MaintenanceInv'
  <2>1. /\ cmd' \in CmdSet /\ cmd'.at = s /\ cmd'.op = cmd.op
        /\ cmd'.source = cmd.source /\ cmd'.key = cmd.key
    BY <1>1, <1>6, GoToIs DEF Step
  <2>2. TypeOK'
    BY <1>1, <1>3, <1>6, <2>1 DEF TypeOK, files, bounds, CmdSet
  <2>3. ServiceOK'
    BY <1>1, <2>1 DEF ServiceOK, Exclusive, files
  <2>4. CommandOK'
    BY <1>1, <1>2, <1>3, <1>6, <2>1 DEF CommandOK, Making, files, bounds, Exclusive, Command
  <2>5. FilesOK'
    BY <1>1, <1>3, <1>6, <2>1 DEF FilesOK, Making, files, bounds, Exclusive
  <2> QED BY <1>4, <2>2, <2>3, <2>4, <2>5 DEF MaintenanceInv
<1> QED BY <1>5, <1>6 DEF Seal


\* On its way to put the files back, a command has its bundle as it was.
LEMMA ToUndo ==
    ASSUME MaintenanceInv, cmd.at \in InTry, GoTo("undoDb"),
           UNCHANGED <<bundle, service, commands, before>>
    PROVE  cmd' \in CmdSet /\ ServiceOK' /\ CommandOK' /\ FilesOK'
<1>1. /\ TypeOK /\ ServiceOK /\ CommandOK /\ FilesOK /\ commands \in Command /\ cmd.op # "none"
      /\ cmd.at # "idle" /\ cmd.at \notin Making /\ Exclusive
  BY AtCommand DEF InTry, Making
<1>2. /\ cmd' \in CmdSet /\ cmd'.at = "undoDb" /\ cmd'.op = cmd.op
      /\ cmd'.source = cmd.source /\ cmd'.key = cmd.key
  BY <1>1, GoToIs DEF Step
<1>3. ServiceOK'
  BY <1>1, <1>2 DEF ServiceOK, Exclusive
<1>4. CommandOK'
  BY <1>1, <1>2 DEF CommandOK, Making, Exclusive
<1>5. FilesOK'
  BY <1>1, <1>2 DEF FilesOK, Making, Exclusive, InTry
<1> QED BY <1>2, <1>3, <1>4, <1>5

LEMMA InstallDbStep == ASSUME MaintenanceInv, InstallDb PROVE MaintenanceInv'
<1>1. /\ TypeOK /\ ServiceOK /\ CommandOK /\ FilesOK /\ KeptOK /\ commands \in Command
      /\ cmd.at = "installDb" /\ cmd.op = "restore" /\ cmd \in CmdSet
      /\ cmd.source \in Command /\ stateDb' = bundle[cmd.source].db
      /\ UNCHANGED <<secret, tenantDb, session, bundle, service, bounds, last, before>>
  BY AtCommand DEF InstallDb, CommandOK
<1>2. /\ cmd' \in CmdSet /\ cmd'.at = "installSession" /\ cmd'.op = cmd.op
      /\ cmd'.source = cmd.source /\ cmd'.key = cmd.key
  BY <1>1, GoToIs DEF InstallDb, Step
<1>3. TypeOK'
  BY <1>1, <1>2 DEF TypeOK, CmdSet, bounds, Bundle
<1>4. ServiceOK' /\ CommandOK' /\ FilesOK'
  BY <1>1, <1>2 DEF ServiceOK, CommandOK, FilesOK, Exclusive, Making, bounds
<1>5. KeptOK'
  BY <1>1, KeptUnchanged DEF KeptOK, Live
<1> QED BY <1>3, <1>4, <1>5 DEF MaintenanceInv

\* A bundle's session put in the place of the primary's.
LEMMA SessionPut ==
    ASSUME MaintenanceInv, NEW n \in Command, UNCHANGED <<secret, stateDb, tenantDb, bundle>>,
           session' = [session EXCEPT ![Primary] = bundle[n].session]
    PROVE  session' \in [Owner -> File] /\ session'[Primary] = bundle[n].session /\ KeptOK'
<1>1. TypeOK /\ KeptOK /\ bundle[n].session \in File
  BY AtCommand DEF Bundle
<1>2. session' \in [Owner -> File] /\ session'[Primary] = bundle[n].session
  BY <1>1, Bounds DEF TypeOK
<1>3. \A c \in Live' : c \in Live \cup bundle[n].session
  BY <1>1 DEF Live, TypeOK
<1>4. KeptOK'
  BY <1>1, <1>3, KeptUnchanged DEF KeptOK
<1> QED BY <1>2, <1>4

LEMMA InstallSessionStep == ASSUME MaintenanceInv, InstallSession PROVE MaintenanceInv'
<1>1. /\ TypeOK /\ ServiceOK /\ CommandOK /\ FilesOK /\ KeptOK /\ commands \in Command
      /\ cmd.at = "installSession" /\ cmd.op = "restore" /\ cmd \in CmdSet
      /\ cmd.source \in Command
      /\ UNCHANGED <<secret, stateDb, tenantDb, bundle, service, bounds, before>>
  BY AtCommand DEF InstallSession, CommandOK
<1>2. session' \in [Owner -> File] /\ KeptOK'
  BY <1>1, SessionPut DEF InstallSession
<1>3. CASE End("restored")
  <2>1. TypeOK'
    BY <1>1, <1>2, <1>3, IdleIs DEF TypeOK, bounds, End, CmdSet, Ended
  <2>2. ServiceOK' /\ CommandOK' /\ FilesOK'
    BY <1>1, <1>3, EndedCommand DEF End, bounds
  <2> QED BY <1>2, <2>1, <2>2 DEF MaintenanceInv
<1>4. CASE GoTo("installKey") /\ UNCHANGED last
  <2>1. /\ cmd' \in CmdSet /\ cmd'.at = "installKey" /\ cmd'.op = cmd.op
        /\ cmd'.source = cmd.source /\ cmd'.key = cmd.key
    BY <1>1, <1>4, GoToIs DEF Step
  <2>2. TypeOK'
    BY <1>1, <1>2, <1>4, <2>1 DEF TypeOK, CmdSet, bounds
  <2>3. ServiceOK' /\ CommandOK' /\ FilesOK'
    BY <1>1, <2>1 DEF ServiceOK, CommandOK, FilesOK, Exclusive, Making, bounds
  <2> QED BY <1>2, <2>2, <2>3 DEF MaintenanceInv
<1> QED BY <1>3, <1>4 DEF InstallSession

LEMMA UndoDbStep == ASSUME MaintenanceInv, UndoDb PROVE MaintenanceInv'
<1>1. /\ TypeOK /\ ServiceOK /\ CommandOK /\ FilesOK /\ KeptOK /\ commands \in Command
      /\ cmd.at = "undoDb" /\ cmd.op # "none" /\ cmd \in CmdSet /\ Exclusive
      /\ stateDb' = bundle[commands].db
      /\ UNCHANGED <<secret, tenantDb, session, bundle, service, bounds, last, before>>
  BY AtCommand DEF UndoDb, Making
<1>2. /\ cmd' \in CmdSet /\ cmd'.at = "undoSession" /\ cmd'.op = cmd.op
      /\ cmd'.source = cmd.source /\ cmd'.key = cmd.key
  BY <1>1, GoToIs DEF UndoDb, Step
<1>3. TypeOK'
  BY <1>1, <1>2 DEF TypeOK, CmdSet, bounds, Bundle
<1>4. ServiceOK' /\ CommandOK'
  BY <1>1, <1>2 DEF ServiceOK, CommandOK, Exclusive, Making, bounds
<1>5. FilesOK'
  BY <1>1, <1>2 DEF FilesOK, Exclusive, Making, bounds
<1>6. KeptOK'
  BY <1>1, KeptUnchanged DEF KeptOK, Live
<1> QED BY <1>3, <1>4, <1>5, <1>6 DEF MaintenanceInv

LEMMA UndoSessionStep == ASSUME MaintenanceInv, UndoSession PROVE MaintenanceInv'
<1>1. /\ TypeOK /\ commands \in Command /\ End("error")
      /\ UNCHANGED <<secret, stateDb, tenantDb, bundle, service, bounds, before>>
  BY AtCommand DEF UndoSession
<1>2. session' \in [Owner -> File] /\ KeptOK'
  BY <1>1, SessionPut DEF UndoSession
<1>3. TypeOK'
  BY <1>1, <1>2, IdleIs DEF TypeOK, bounds, End, CmdSet, Ended
<1>4. ServiceOK' /\ CommandOK' /\ FilesOK'
  BY <1>1, EndedCommand DEF End, bounds
<1> QED BY <1>2, <1>3, <1>4 DEF MaintenanceInv

\* The key that is given up is in the bundle of the command that changes it.
LEMMA KeyPut ==
    ASSUME MaintenanceInv, cmd.at \in {"installKey", "writeKey"},
           UNCHANGED <<stateDb, tenantDb, session, bundle>>
    PROVE  KeptOK'
<1>1. KeptOK /\ commands \in Recovery /\ bundle[commands].key = {secret}
  BY AtCommand DEF Making
<1>2. Recovery' = Recovery /\ KnownKeys \subseteq KnownKeys'
  BY <1>1 DEF Recovery, KnownKeys
<1>3. \A c : Kept(c) => Kept(c)'
  BY <1>2, KeptStays
<1> QED BY <1>1, <1>3 DEF KeptOK, Live

LEMMA FaultCounted ==
    ASSUME TypeOK, faults < MaxFaults PROVE faults + 1 \in 0..MaxFaults
BY Bounds DEF TypeOK

LEMMA KeyStep ==
    ASSUME MaintenanceInv, NEW how \in {"restored", "key_rotated"}, Done(End(how)),
           cmd.at \in {"installKey", "writeKey"}, secret' \in Key,
           UNCHANGED <<stateDb, tenantDb, session, bundle, service, commands, writes, before>>
    PROVE  MaintenanceInv'
<1>1. TypeOK /\ KeptOK' /\ ServiceOK /\ Exclusive
  BY AtCommand, KeyPut DEF Making
<1>2. CASE End(how) /\ UNCHANGED faults
  <2>1. TypeOK'
    BY <1>1, <1>2, IdleIs DEF TypeOK, End, CmdSet, Ended
  <2>2. ServiceOK' /\ CommandOK' /\ FilesOK'
    BY <1>1, <1>2, EndedCommand DEF End, ServiceOK
  <2> QED BY <1>1, <2>1, <2>2 DEF MaintenanceInv
<1>3. CASE faults < MaxFaults /\ faults' = faults + 1 /\ GoTo("undoDb") /\ UNCHANGED last
  <2>1. cmd' \in CmdSet /\ ServiceOK' /\ CommandOK' /\ FilesOK'
    BY <1>3, ToUndo DEF InTry
  <2>2. TypeOK'
    BY <1>1, <1>3, <2>1, FaultCounted DEF TypeOK, CmdSet
  <2> QED BY <1>1, <2>1, <2>2 DEF MaintenanceInv
<1> QED BY <1>2, <1>3 DEF Done

LEMMA InstallKeyStep == ASSUME MaintenanceInv, InstallKey PROVE MaintenanceInv'
<1>1. cmd.at = "installKey" /\ secret' \in Key
  BY AtCommand DEF InstallKey, CommandOK, Bundle
<1> QED BY <1>1, KeyStep DEF InstallKey

LEMMA WriteKeyStep == ASSUME MaintenanceInv, WriteKey PROVE MaintenanceInv'
<1>1. cmd.at = "writeKey" /\ secret' \in Key
  BY AtCommand DEF WriteKey
<1> QED BY <1>1, KeyStep DEF WriteKey

LEMMA LoadStep == ASSUME MaintenanceInv, Load PROVE MaintenanceInv'
<1>1. /\ TypeOK /\ ServiceOK /\ CommandOK /\ FilesOK /\ KeptOK
      /\ cmd.at = "load" /\ cmd.op = "rotate" /\ cmd \in CmdSet /\ session[Primary] \in File
      /\ UNCHANGED <<files, bundle, service, bounds, before>>
  BY AtCommand DEF Load, CommandOK
<1>2. KeptOK'
  BY <1>1, KeptUnchanged DEF KeptOK, Live, files
<1>3. CASE End("error")
  <2>1. TypeOK'
    BY <1>1, <1>3, IdleIs DEF TypeOK, files, bounds, End, CmdSet, Ended
  <2>2. ServiceOK' /\ CommandOK' /\ FilesOK'
    BY <1>1, <1>3, EndedCommand DEF End, bounds, files
  <2> QED BY <1>2, <2>1, <2>2 DEF MaintenanceInv
<1>4. CASE /\ Opens(cmd.key, Primary, session[Primary])
           /\ cmd' = [cmd EXCEPT !.at = "rows", !.loaded = session[Primary]] /\ UNCHANGED last
  <2>1. /\ cmd' \in CmdSet /\ cmd'.at = "rows" /\ cmd'.op = cmd.op /\ cmd'.source = cmd.source
        /\ cmd'.key = cmd.key /\ cmd'.loaded = session[Primary]
    BY <1>1, <1>4 DEF CmdSet, Step
  <2>2. TypeOK'
    BY <1>1, <1>4, <2>1 DEF TypeOK, CmdSet, files, bounds
  <2>3. ServiceOK' /\ CommandOK'
    BY <1>1, <2>1 DEF ServiceOK, CommandOK, Exclusive, Making, files, bounds
  <2>4. FilesOK'
    BY <1>1, <1>4, <2>1 DEF FilesOK, Exclusive, Making, files, bounds, Opens
  <2> QED BY <1>2, <2>2, <2>3, <2>4 DEF MaintenanceInv
<1> QED BY <1>3, <1>4 DEF Load

LEMMA RowsStep == ASSUME MaintenanceInv, Rows PROVE MaintenanceInv'
<1>1. /\ TypeOK /\ ServiceOK /\ CommandOK /\ FilesOK /\ KeptOK
      /\ cmd.at = "rows" /\ cmd.op = "rotate" /\ cmd \in CmdSet /\ stateDb \in File
      /\ commands \in Key /\ commands \in Recovery /\ commands \in Command /\ cmd.key = secret
      /\ UNCHANGED <<secret, tenantDb, session, bundle, service, bounds, last, before>>
  BY AtCommand DEF Rows, CommandOK, Making
<1>2. CASE Opens(cmd.key, Primary, stateDb) /\ stateDb' = Under(commands, stateDb) /\ GoTo("save")
  <2>1. /\ cmd' \in CmdSet /\ cmd'.at = "save" /\ cmd'.op = cmd.op /\ cmd'.source = cmd.source
        /\ cmd'.key = cmd.key /\ cmd'.loaded = cmd.loaded
    BY <1>1, <1>2, GoToIs DEF Step
  <2>2. /\ stateDb' \in File
        /\ \A c \in stateDb' : c.key = commands /\ \E d \in stateDb : d.of = c.of /\ d.owner = c.owner
    BY <1>1, <1>2, UnderParts
  <2>3. TypeOK'
    BY <1>1, <2>1, <2>2 DEF TypeOK, CmdSet, bounds
  <2>4. ServiceOK' /\ CommandOK'
    BY <1>1, <2>1 DEF ServiceOK, CommandOK, Exclusive, Making, bounds
  <2>5. FilesOK'
    <3>1. Opens(commands, Primary, stateDb')
      BY <1>2, <2>2 DEF Opens
    <3> QED BY <1>1, <2>1, <3>1 DEF FilesOK, Exclusive, Making, bounds, Opens
  <2>6. stateDb = bundle[commands].db
    BY <1>1 DEF FilesOK, Exclusive
  <2>7. \A c \in stateDb' : Kept(c)
    BY <1>1, <1>2, <2>2, <2>6 DEF Kept, Opens, KnownKeys
  <2>8. KeptOK'
    <3>1. \A c \in Live' : c \in Live \cup stateDb'
      BY <1>1 DEF Live
    <3> QED BY <1>1, <2>7, <3>1, KeptUnchanged DEF KeptOK
  <2> QED BY <2>3, <2>4, <2>5, <2>8 DEF MaintenanceInv
<1>3. CASE UNCHANGED stateDb /\ GoTo("undoDb")
  <2>1. cmd' \in CmdSet /\ ServiceOK' /\ CommandOK' /\ FilesOK'
    BY <1>1, <1>3, ToUndo DEF InTry, bounds
  <2>2. TypeOK'
    BY <1>1, <1>3, <2>1 DEF TypeOK, CmdSet, bounds
  <2>3. KeptOK'
    BY <1>1, <1>3, KeptUnchanged DEF KeptOK, Live
  <2> QED BY <2>1, <2>2, <2>3 DEF MaintenanceInv
<1> QED BY <1>2, <1>3 DEF Rows

LEMMA SaveStep == ASSUME MaintenanceInv, Save PROVE MaintenanceInv'
<1>1. /\ TypeOK /\ ServiceOK /\ CommandOK /\ FilesOK /\ KeptOK
      /\ cmd.at = "save" /\ cmd.op = "rotate" /\ cmd \in CmdSet
      /\ commands \in Key /\ commands \in Recovery /\ commands \in Command /\ cmd.key = secret
      /\ UNCHANGED <<secret, stateDb, tenantDb, bundle, service, commands, writes, before>>
  BY AtCommand DEF Save, CommandOK, Making
<1>2. /\ cmd.loaded = before.session /\ Opens(cmd.key, Primary, cmd.loaded)
      /\ session[Primary] = before.session /\ bundle[commands].session = before.session
      /\ cmd.loaded \in File
  BY <1>1 DEF FilesOK, Exclusive, Making, CmdSet
<1>3. /\ Under(commands, cmd.loaded) \in File
      /\ \A c \in Under(commands, cmd.loaded) :
            c.key = commands /\ \E d \in cmd.loaded : d.of = c.of /\ d.owner = c.owner
  BY <1>1, <1>2, UnderParts
<1>4. Opens(commands, Primary, Under(commands, cmd.loaded))
  BY <1>2, <1>3 DEF Opens
<1>5. session' \in [Owner -> File] /\ Opens(commands, Primary, session'[Primary])
  <2>1. CASE cmd.loaded = {}
    BY <1>1, <1>2, <2>1 DEF Save, Opens, TypeOK
  <2>2. CASE cmd.loaded # {}
    BY <1>1, <1>3, <1>4, <2>2, Bounds DEF Save, TypeOK
  <2> QED BY <2>1, <2>2
<1>6. KeptOK'
  <2>1. \A c \in Live' : c \in Live \cup Under(commands, cmd.loaded)
    BY <1>1 DEF Save, Live, TypeOK
  <2>2. \A c \in Under(commands, cmd.loaded) : Kept(c)
    BY <1>1, <1>2, <1>3 DEF Kept, Opens, KnownKeys
  <2> QED BY <1>1, <2>1, <2>2, KeptUnchanged DEF KeptOK
<1>7. CASE GoTo("writeKey") /\ UNCHANGED last /\ UNCHANGED faults
  <2>1. /\ cmd' \in CmdSet /\ cmd'.at = "writeKey" /\ cmd'.op = cmd.op /\ cmd'.source = cmd.source
        /\ cmd'.key = cmd.key
    BY <1>1, <1>7, GoToIs DEF Step
  <2>2. TypeOK'
    BY <1>1, <1>5, <1>7, <2>1 DEF TypeOK, CmdSet
  <2>3. ServiceOK' /\ CommandOK'
    BY <1>1, <2>1 DEF ServiceOK, CommandOK, Exclusive, Making
  <2>4. FilesOK'
    BY <1>1, <1>5, <2>1 DEF FilesOK, Exclusive, Making, Opens
  <2> QED BY <1>6, <2>2, <2>3, <2>4 DEF MaintenanceInv
<1>8. CASE faults < MaxFaults /\ faults' = faults + 1 /\ GoTo("undoDb") /\ UNCHANGED last
  <2>1. cmd' \in CmdSet /\ ServiceOK' /\ CommandOK' /\ FilesOK'
    BY <1>1, <1>8, ToUndo DEF InTry
  <2>2. TypeOK'
    BY <1>1, <1>5, <1>8, <2>1, FaultCounted DEF TypeOK, CmdSet
  <2> QED BY <1>6, <2>1, <2>2 DEF MaintenanceInv
<1> QED BY <1>7, <1>8 DEF Save, Done

LEMMA CrashCommandStep == ASSUME MaintenanceInv, Crash PROVE MaintenanceInv'
<1>1. TypeOK /\ KeptOK /\ End("crashed") /\ UNCHANGED <<files, bundle, service, bounds, before>>
  BY AtCommand DEF Crash
<1>2. TypeOK'
  BY <1>1, IdleIs DEF TypeOK, files, bounds, End, CmdSet, Ended
<1>3. ServiceOK' /\ CommandOK' /\ FilesOK'
  BY <1>1, EndedCommand DEF End, bounds, files
<1>4. KeptOK'
  BY <1>1, KeptUnchanged DEF KeptOK, Live, files
<1> QED BY <1>2, <1>3, <1>4 DEF MaintenanceInv

LEMMA FaultStep == ASSUME MaintenanceInv, Fault PROVE MaintenanceInv'
<1>1. /\ TypeOK /\ KeptOK /\ CommandOK /\ commands \in Command
      /\ faults' \in 0..MaxFaults /\ UNCHANGED <<files, service, commands, writes, before>>
  BY AtCommand, FaultCounted DEF Fault
<1>2. CASE UNCHANGED bundle /\ \E how \in {"error", "torn"} : End(how)
  <2>1. TypeOK'
    BY <1>1, <1>2, IdleIs DEF TypeOK, files, End, CmdSet, Ended
  <2>2. ServiceOK' /\ CommandOK' /\ FilesOK'
    BY <1>1, <1>2, EndedCommand DEF End, files
  <2>3. KeptOK'
    BY <1>1, <1>2, KeptUnchanged DEF KeptOK, Live, files
  <2> QED BY <2>1, <2>2, <2>3 DEF MaintenanceInv
<1>3. CASE cmd.at \in Making /\ bundle' = [bundle EXCEPT ![commands] = NoBundle] /\ End("error")
  <2>1. NoBundle \in Bundle
    BY DEF NoBundle, Bundle, File
  <2>2. bundle' \in [Command -> Bundle] /\ bundle'[commands] = NoBundle
        /\ \A n \in Command \ {commands} : bundle'[n] = bundle[n]
    BY <1>1, <1>3, <2>1 DEF TypeOK
  <2>3. TypeOK'
    BY <1>1, <1>3, <2>2, IdleIs DEF TypeOK, files, End, CmdSet, Ended
  <2>4. ServiceOK' /\ CommandOK' /\ FilesOK'
    BY <1>1, <1>3, <2>2, EndedCommand DEF End, files, TypeOK, Command
  <2>5. commands \notin Recovery
    BY <1>1, <1>3 DEF Recovery, CommandOK
  <2>6. Recovery' = Recovery /\ KnownKeys' = KnownKeys
    BY <1>1, <2>2, <2>5 DEF Recovery, KnownKeys, NoBundle, files
  <2>7. \A c : Kept(c) => Kept(c)'
    BY <2>2, <2>5, <2>6, KeptStays DEF Recovery
  <2>8. KeptOK'
    BY <1>1, <2>2, <2>7 DEF KeptOK, Live, files, NoBundle
  <2> QED BY <2>3, <2>4, <2>8 DEF MaintenanceInv
<1>4. CASE cmd.at \in InTry /\ GoTo("undoDb") /\ UNCHANGED <<bundle, last>>
  <2>1. cmd' \in CmdSet /\ ServiceOK' /\ CommandOK' /\ FilesOK'
    BY <1>1, <1>4, ToUndo
  <2>2. TypeOK'
    BY <1>1, <1>4, <2>1 DEF TypeOK, CmdSet, files
  <2>3. KeptOK'
    BY <1>1, <1>4, KeptUnchanged DEF KeptOK, Live, files
  <2> QED BY <2>1, <2>2, <2>3 DEF MaintenanceInv
<1> QED BY <1>2, <1>3, <1>4 DEF Fault, Making


LEMMA MaintenanceStep == ASSUME MaintenanceInv, ~StartsBeside, Next PROVE MaintenanceInv'
<1>1. ASSUME NEW o \in Owner, BeginBackup(o) PROVE MaintenanceInv'
  BY <1>1, BeginCommandStep, Bounds DEF BeginBackup
<1>2. ASSUME NEW n \in Command, BeginRestore(n) PROVE MaintenanceInv'
  BY <1>2, BeginCommandStep, Bounds DEF BeginRestore, Command
<1>3. CASE BeginRotation
  BY <1>3, BeginCommandStep, Bounds DEF BeginRotation
<1> QED BY <1>1, <1>2, <1>3, ServiceSteps, CopyDbStep, CopySessionStep, SealStep, InstallDbStep,
           InstallSessionStep, InstallKeyStep, LoadStep, RowsStep, SaveStep, WriteKeyStep, UndoDbStep,
           UndoSessionStep, FaultStep, CrashCommandStep
        DEF Next, CommandNext

\* As long as no restore or rotation runs, nothing is written but with the configured key.
LEMMA OfflineKeeps ==
    ASSUME MaintenanceInv, ~StartsBeside, Next, ~Exclusive
    PROVE  /\ secret' = secret
           /\ \A c \in Live' : c \in Live \/ c.key = secret
           /\ Exclusive' => commands' # commands
<1>1. /\ TypeOK /\ ServiceOK /\ CommandOK
      /\ cmd.at \in Making \cup {"idle"} /\ (cmd.at = "idle" => cmd.op = "none")
      /\ commands \in Nat
  BY AtCommand DEF CommandOK, TypeOK
<1>2. CASE \/ StartService \/ StopService \/ CopyDb \/ CopySession \/ Seal \/ Fault \/ Crash
  <2>1. UNCHANGED files
    BY <1>2 DEF StartService, StopService, CopyDb, CopySession, Seal, Fault, Crash
  <2>2. cmd'.op \in {cmd.op, "none"}
    BY <1>1, <1>2, GoToIs, IdleIs DEF StartService, StopService, CopyDb, CopySession, Seal, Fault, Crash,
                                      End, Making, InTry, Step
  <2> QED BY <2>1, <2>2 DEF files, Live, Exclusive
<1>3. ASSUME NEW o \in Owner, WriteRow(o)
      PROVE  secret' = secret /\ cmd' = cmd /\ \A c \in Live' : c \in Live \/ c.key = secret
  <2>1. Sealed(o).key = secret
    BY <1>3, SealedIs DEF WriteRow
  <2> QED BY <1>1, <1>3, <2>1 DEF WriteRow, Live, TypeOK
<1>4. ASSUME NEW o \in Owner, SaveSession(o)
      PROVE  secret' = secret /\ cmd' = cmd /\ \A c \in Live' : c \in Live \/ c.key = secret
  <2>1. Sealed(o).key = secret
    BY <1>4, SealedIs DEF SaveSession
  <2> QED BY <1>1, <1>4, <2>1 DEF SaveSession, Live, TypeOK
<1>5. ASSUME NEW o \in Owner, RemoveSession(o)
      PROVE  secret' = secret /\ cmd' = cmd /\ \A c \in Live' : c \in Live \/ c.key = secret
  BY <1>1, <1>5 DEF RemoveSession, Live, TypeOK
<1>6. ASSUME NEW op, NEW o, NEW source, Begin(op, o, source)
      PROVE  UNCHANGED files /\ commands' # commands
  BY <1>1, <1>6 DEF Begin
<1>7. ~(InstallDb \/ InstallSession \/ InstallKey \/ Load \/ Rows \/ Save \/ WriteKey \/ UndoDb \/ UndoSession)
  BY <1>1 DEF Making, InstallDb, InstallSession, InstallKey, Load, Rows, Save, WriteKey, UndoDb, UndoSession
<1>8. ASSUME UNCHANGED files PROVE secret' = secret /\ \A c \in Live' : c \in Live
  BY <1>8 DEF files, Live
<1>9. CASE ServiceNext
  BY <1>2, <1>3, <1>4, <1>5, <1>9 DEF ServiceNext, Exclusive
<1>10. CASE CommandNext
  BY <1>2, <1>6, <1>7, <1>8, <1>10 DEF CommandNext, BeginBackup, BeginRestore, BeginRotation
<1> QED BY <1>9, <1>10 DEF Next

\* What a command reports when it ends is so.
LEMMA Reports == ASSUME MaintenanceInv, Next PROVE FailedKeepsFiles /\ RotatedIsReadable
<1>1. /\ TypeOK /\ ServiceOK /\ CommandOK /\ FilesOK /\ commands \in Nat /\ session[Primary] \in File
      /\ session \in [Owner -> File] /\ bundle \in [Command -> Bundle] /\ Primary \in Owner
      /\ cmd.at # "idle" => commands \in Command
  BY AtCommand, Bounds DEF TypeOK
<1> SUFFICES ASSUME Ends PROVE FailedKeepsFiles /\ RotatedIsReadable
  BY DEF FailedKeepsFiles, RotatedIsReadable
<1>2. cmd.op # "none" /\ cmd'.op = "none" /\ cmd.at # "idle" /\ commands \in Command
      /\ (cmd.op # "backup" => Exclusive)
  BY <1>1 DEF Ends, CommandOK, TypeOK, Op, Exclusive
<1>3. ASSUME NEW s \in Step, GoTo(s) PROVE FALSE
  BY <1>1, <1>2, <1>3, GoToIs
<1>4. ~ServiceNext
  BY <1>2 DEF ServiceNext, StartService, StopService, WriteRow, SaveSession, RemoveSession
<1>5. ~(CopyDb \/ CopySession \/ InstallDb \/ Rows \/ UndoDb)
  BY <1>3 DEF CopyDb, CopySession, InstallDb, Rows, UndoDb, Step
<1>6. ASSUME NEW op, NEW o, NEW source
      PROVE  ~Begin(op, o, source)
  BY <1>2 DEF Begin
<1>7. CASE Seal \/ InstallSession \/ Crash \/ InstallKey \/ Save
  <2>1. last' \in {"backed_up", "restored", "crashed"}
    BY <1>3, <1>7 DEF Seal, InstallSession, Crash, InstallKey, Save, Done, End, Step
  <2> QED BY <2>1 DEF FailedKeepsFiles, RotatedIsReadable
<1>8. CASE WriteKey
  <2>1. last' = "key_rotated" /\ secret' = commands /\ UNCHANGED <<stateDb, session>>
    BY <1>3, <1>8 DEF WriteKey, Done, End, Step
  <2>2. Opens(commands, Primary, stateDb) /\ Opens(commands, Primary, session[Primary])
    BY <1>1, <1>2, <1>8 DEF WriteKey, FilesOK, CommandOK, Exclusive
  <2> QED BY <2>1, <2>2 DEF FailedKeepsFiles, RotatedIsReadable, Opens
<1>9. CASE Load
  <2>1. last' = "error" /\ UNCHANGED files
    BY <1>1, <1>2, <1>9 DEF Load, End, TypeOK
  <2>2. stateDb = before.db /\ session[Primary] = before.session
    BY <1>1, <1>2, <1>9 DEF Load, FilesOK, CommandOK, Exclusive
  <2> QED BY <2>1, <2>2 DEF FailedKeepsFiles, RotatedIsReadable, files
<1>10. CASE UndoSession
  <2>1. last' = "error" /\ stateDb' = stateDb /\ session'[Primary] = bundle[commands].session
    BY <1>1, <1>2, <1>10 DEF UndoSession, End
  <2>2. Exclusive
    BY <1>1, <1>10, <1>2 DEF CommandOK, UndoSession, Making
  <2>3. stateDb = before.db /\ bundle[commands].session = before.session
    BY <1>1, <1>10, <2>2 DEF UndoSession, FilesOK
  <2> QED BY <2>1, <2>3 DEF FailedKeepsFiles, RotatedIsReadable
<1>11. CASE Fault
  <2>1. UNCHANGED files /\ (last' = "torn" \/ (last' = "error" /\ cmd.at \in Making \cup {"load"}))
    BY <1>3, <1>11 DEF Fault, End, Making, Step
  <2>2. cmd.op # "backup" /\ cmd.at \in Making \cup {"load"} =>
           stateDb = before.db /\ session[Primary] = before.session
    BY <1>1, <1>2 DEF FilesOK
  <2> QED BY <2>1, <2>2 DEF FailedKeepsFiles, RotatedIsReadable, files
<1>12. ~(\E o \in Owner : BeginBackup(o)) /\ ~(\E n \in Command : BeginRestore(n)) /\ ~BeginRotation
  BY <1>6 DEF BeginBackup, BeginRestore, BeginRotation
<1> QED BY <1>4, <1>5, <1>7, <1>8, <1>9, <1>10, <1>11, <1>12 DEF Next, CommandNext


-----------------------------------------------------------------------------
(* Both together.                                                          *)

\* The job that takes a step is under way, and it comes to the copy of a
\* directory only by the copies.
LEMMA JobMoves ==
    ASSUME InstanceInv, NEW j \in I!Job,
           \/ I!Plain(j)
           \/ I!Ups(j)
           \/ I!CopyFiles(j)
           \/ I!CopyTree(j)
           \/ I!CopyDatabase(j)
    PROVE  /\ \A k \in I!Job \ {j} : job'[k] = job[k]
           /\ job'[j].op = job[j].op /\ job[j].at \notin I!Ended \cup {"none"}
           /\ UNCHANGED <<jobs>>
           /\ I!Plain(j) \/ I!Ups(j) => job'[j].at \notin {"copyTree", "copyDatabase"}
<1>1. I!TypeOK /\ KindOK(j)
  BY AtStep
<1> DEFINE Goal ==
           /\ \A k \in I!Job \ {j} : job'[k] = job[k]
           /\ job'[j].op = job[j].op /\ job[j].at \notin I!Ended \cup {"none"}
           /\ UNCHANGED <<jobs>>
           /\ job'[j].at \notin {"copyTree", "copyDatabase"}
<1>2. ASSUME NEW s \in I!Step, I!Goto(j, s), s \notin {"copyTree", "copyDatabase"},
             job[j].at \notin I!Ended \cup {"none"}, jobs' = jobs
      PROVE  Goal
  BY <1>1, <1>2, GotoMoves DEF Moves
<1>3. ASSUME NEW h \in I!Ended, I!Leave(j, h), job[j].at \notin I!Ended \cup {"none"}, jobs' = jobs
      PROVE  Goal
  BY <1>1, <1>3, LeaveMoves DEF Moves
<1>4. ASSUME NEW h \in I!Ended, I!End(j, h), job[j].at \notin I!Ended \cup {"none"}, jobs' = jobs
      PROVE  Goal
  BY <1>1, <1>4, EndMoves DEF Moves, I!Ended
<1> USE DEF I!Ended, I!Step, I!Locked
<1>5. CASE I!Resolve(j)
  <2>1. \/ I!End(j, "error")
        \/ \E r : job' = [job EXCEPT ![j].at = IF job[j].op = "start" THEN "start" ELSE "copyFiles",
                                     ![j].rec = [r EXCEPT !.image = job[j].rec.image]]
    BY <1>5 DEF I!Resolve
  <2>2. jobs' = jobs /\ job[j].at = "resolve"
    BY <1>5 DEF I!Resolve
  <2> QED BY <1>1, <1>4, <2>1, <2>2 DEF I!TypeOK
<1>6. CASE I!LoadIndex(j)
  <2>1. \/ I!Leave(j, "error")
        \/ job' = [job EXCEPT ![j].at = "make", ![j].read = index]
        \/ \E r : job' = [job EXCEPT ![j].at = "compose", ![j].read = index,
                                     ![j].rec = [r EXCEPT !.image = job[j].rec.image]]
    BY <1>6 DEF I!LoadIndex
  <2>2. jobs' = jobs /\ job[j].at = "load"
    BY <1>6 DEF I!LoadIndex
  <2> QED BY <1>1, <1>3, <2>1, <2>2 DEF I!TypeOK
<1>7. CASE I!WriteCompose(j)
  BY <1>1, <1>3, <1>7 DEF I!WriteCompose, I!TypeOK
<1>8. CASE I!Unlock(j)
  BY <1>1, <1>4, <1>8 DEF I!Unlock, KindOK
<1>9. CASE I!Publish(j) \/ I!Acquire(j) \/ I!MakeDir(j) \/ I!Place(j) \/ I!Clean(j)
  BY <1>2, <1>3, <1>4, <1>9 DEF I!Publish, I!Acquire, I!MakeDir, I!Place, I!Clean
<1>10. CASE I!WriteIndex(j) \/ I!Pull(j) \/ I!Restore(j) \/ I!WriteMeta(j)
  BY <1>2, <1>3, <1>10 DEF I!WriteIndex, I!Ending, I!Pull, I!Restore, I!WriteMeta
<1>11. CASE I!Fail(j)
  BY <1>2, <1>3, <1>4, <1>11 DEF I!Fail
<1>12. CASE I!Crash(j)
  BY <1>4, <1>12 DEF I!Crash
<1>13. CASE I!Ups(j)
  BY <1>2, <1>3, <1>4, <1>13 DEF I!Ups, I!StartUp, I!Up, I!UpPrevious
<1>14. ASSUME I!CopyFiles(j) \/ I!CopyTree(j) \/ I!CopyDatabase(j), ~I!Plain(j), ~I!Ups(j)
       PROVE  /\ \A k \in I!Job \ {j} : job'[k] = job[k]
              /\ job'[j].op = job[j].op /\ job[j].at \notin I!Ended \cup {"none"}
              /\ UNCHANGED <<jobs>>
  <2>1. PICK s \in {"copyTree", "copyDatabase", "publish"} : I!Goto(j, s)
    BY <1>14 DEF I!CopyFiles, I!CopyTree, I!CopyDatabase, I!Copies
  <2> QED BY <1>1, <1>14, <2>1, GotoMoves DEF Moves, I!CopyFiles, I!CopyTree, I!CopyDatabase, I!Copies
<1>15. CASE I!Plain(j)
  BY <1>5, <1>6, <1>7, <1>8, <1>9, <1>10, <1>11, <1>12, <1>15 DEF I!Plain
<1> QED BY <1>13, <1>14, <1>15

LEMMA StartingShrinks ==
    ASSUME InstanceInv, NEW j \in I!Job, job[j].at \notin I!Ended \cup {"none"},
           \A k \in I!Job \ {j} : job'[k] = job[k], job'[j].op = job[j].op
    PROVE  Starting' \subseteq Starting
BY DEF Starting

LEMMA BeginJobIs ==
    ASSUME InstanceInv, I!BeginAny
    PROVE  \E n \in I!Job :
              /\ jobs' = n /\ n > jobs /\ \A k \in I!Job : k > n => k > jobs
              /\ \A k \in I!Job \ {n} : job'[k] = job[k]
              /\ job'[n].at \in {"lock", "resolve"} /\ UNCHANGED <<kept>>
<1>1. PICK op \in {"create", "start", "backup", "upgrade"}, alias \in Alias, port \in Port, image \in Image :
         I!Begin(op, alias, port, image)
  BY DEF I!BeginAny
<1>2. I!TypeOK /\ jobs + 1 \in I!Job /\ jobs \in Nat
  BY <1>1, Constants DEF I!Begin, InstanceInv, I!TypeOK, I!Job
<1>3. PICK n \in I!Job : n = jobs + 1
  BY <1>2
<1>4. jobs' = n /\ n > jobs /\ \A k \in I!Job : k > n => k > jobs
  BY <1>1, <1>2, <1>3 DEF I!Begin, I!Job
<1>5. (\A k \in I!Job \ {n} : job'[k] = job[k]) /\ job'[n].at \in {"lock", "resolve"} /\ UNCHANGED <<kept>>
  BY <1>1, <1>2, <1>3 DEF I!Begin, I!TypeOK
<1> QED BY <1>4, <1>5

LEMMA StartsStep ==
    ASSUME IInv, ~StartsBeside, Maintain \/ Manage
    PROVE  StartsOK'
<1>1. InstanceInv /\ MaintenanceInv /\ StartsOK
  BY DEF IInv
<1>2. CASE Maintain
  <2>1. Starting' = Starting /\ Next /\ (commands' # commands /\ cmd'.op # "backup" => Starting = {})
    BY <1>2 DEF Maintain, Starting, instanceVars
  <2>2. CASE Exclusive
    BY <1>1, <2>1, <2>2 DEF StartsOK
  <2>3. CASE ~Exclusive
    BY <1>1, <2>1, <2>3, OfflineKeeps DEF StartsOK, Exclusive
  <2> QED BY <2>2, <2>3
<1>3. CASE BeginJob
  <2>1. PICK n \in I!Job : /\ jobs' = n
                           /\ \A k \in I!Job \ {n} : job'[k] = job[k]
    BY <1>1, <1>3, BeginJobIs DEF BeginJob
  <2>2. cmd' = cmd /\ (Offline \/ job'[n].op \notin {"start", "upgrade"})
    BY <1>3, <2>1 DEF BeginJob, maintenanceVars, vars
  <2>3. Exclusive => Starting' \subseteq Starting
    BY <2>1, <2>2 DEF Exclusive, Offline, Starting
  <2> QED BY <1>1, <2>2, <2>3 DEF StartsOK, Exclusive
<1>4. CASE I!RemoveLeftLock /\ UNCHANGED <<maintenanceVars, copy, sound>>
  BY <1>1, <1>4 DEF I!RemoveLeftLock, maintenanceVars, vars, StartsOK, Exclusive, Starting
<1>5. ASSUME NEW j \in I!Job, cmd' = cmd,
             \/ I!Plain(j)
             \/ I!Ups(j)
             \/ I!CopyFiles(j)
             \/ I!CopyTree(j)
             \/ I!CopyDatabase(j)
      PROVE  StartsOK'
  <2>1. Starting' \subseteq Starting
    BY <1>1, <1>5, JobMoves, StartingShrinks
  <2> QED BY <1>1, <1>5, <2>1 DEF StartsOK, Exclusive
<1>6. ASSUME NEW j \in I!Job, I!Plain(j), UNCHANGED maintenanceVars PROVE StartsOK'
  BY <1>5, <1>6 DEF maintenanceVars, vars
<1>7. ASSUME NEW j \in I!Job, Compose(j) PROVE StartsOK'
  <2>1. cmd' = cmd /\ I!Ups(j)
    BY <1>7 DEF Compose, Restarted, maintenanceVars, vars
  <2> QED BY <1>5, <2>1
<1>8. ASSUME NEW j \in I!Job, CopyEnv(j) \/ CopyDirectories(j) \/ CopyStateDb(j) PROVE StartsOK'
  <2>1. cmd' = cmd
    BY <1>8 DEF CopyEnv, CopyDirectories, CopyStateDb, maintenanceVars, vars
  <2> QED BY <1>5, <1>8, <2>1 DEF CopyEnv, CopyDirectories, CopyStateDb
<1> QED BY <1>2, <1>3, <1>4, <1>6, <1>7, <1>8 DEF Manage


\* What CopyOK asks of one sound job.
SoundCopy(j) ==
    /\ job[j].at \in {"copyTree", "copyDatabase"} => copy[j].key = secret
    /\ \A c \in copy[j].data : c.key = secret /\ copy[j].key = secret

LEMMA CopyParts ==
    ASSUME IInv, NEW j \in I!Job
    PROVE  /\ copy[j].key \in Key /\ copy[j].data \in SUBSET Cipher
           /\ NoCopy \in Copy
           /\ TypeOK
<1>1. copy[j].key \in Key /\ copy[j].data \in SUBSET Cipher
  BY DEF IInv, CopyOK, Copy
<1>2. NoCopy \in Copy
  BY Bounds DEF NoCopy, Copy, Key
<1> QED BY <1>1, <1>2 DEF IInv, MaintenanceInv

\* The copies of one job change, of those that are not begun none does.
LEMMA OneCopyStep ==
    ASSUME IInv, NEW j \in I!Job, UNCHANGED <<secret, stateDb, tenantDb, session, cmd, jobs>>,
           job[j].at # "none", \A k \in I!Job \ {j} : job'[k] = job[k],
           copy' \in [I!Job -> Copy], \A k \in I!Job \ {j} : copy'[k] = copy[k],
           sound' \subseteq sound, j \in sound' => SoundCopy(j)'
    PROVE  CopyOK'
<1>1. CopyOK /\ Numbered
  BY DEF IInv, InstanceInv
<1>2. \A k \in I!Job : k > jobs => copy'[k].data = {}
  BY <1>1 DEF CopyOK, Numbered
<1>3. Offline' = Offline /\ Readable' = Readable
  BY DEF Offline, Readable, Live
<1>4. ASSUME NEW k \in sound' PROVE SoundCopy(k)'
  BY <1>1, <1>4 DEF CopyOK, SoundCopy
<1> QED BY <1>1, <1>2, <1>3, <1>4 DEF CopyOK, SoundCopy

LEMMA CopyStays ==
    ASSUME IInv, NEW j \in I!Job, UNCHANGED <<secret, stateDb, tenantDb, session, cmd, jobs, copy, sound>>,
           job[j].at # "none", \A k \in I!Job \ {j} : job'[k] = job[k],
           job'[j].at \notin {"copyTree", "copyDatabase"}
    PROVE  CopyOK'
<1>1. CopyOK
  BY DEF IInv
<1>2. j \in sound' => SoundCopy(j)'
  BY <1>1 DEF CopyOK, SoundCopy
<1> QED BY <1>1, <1>2, OneCopyStep DEF CopyOK

LEMMA CopyNext ==
    ASSUME IInv, ~StartsBeside, Maintain \/ Manage
    PROVE  CopyOK'
<1>1. InstanceInv /\ MaintenanceInv /\ CopyOK
  BY DEF IInv
<1>2. CASE Maintain
  <2>1. /\ Next /\ UNCHANGED <<instanceVars, copy>>
        /\ sound' = IF cmd'.op \in {"restore", "rotate"} THEN {} ELSE sound
    BY <1>2 DEF Maintain
  <2>2. CASE sound' = {}
    BY <1>1, <2>1, <2>2 DEF CopyOK, instanceVars
  <2>3. CASE sound' # {}
    <3>1. sound' = sound /\ Offline /\ Readable /\ ~Exclusive /\ ~Exclusive'
      BY <1>1, <2>1, <2>3 DEF CopyOK, Offline, Exclusive
    <3>2. secret' = secret /\ \A c \in Live' : c \in Live \/ c.key = secret
      BY <1>1, <2>1, <3>1, OfflineKeeps
    <3>3. Readable'
      BY <3>1, <3>2, Bounds DEF Readable
    <3>4. MaintenanceInv'
      BY <1>1, <2>1, MaintenanceStep
    <3>5. Offline'
      BY <3>1, <3>4 DEF MaintenanceInv, TypeOK, Op, Exclusive, Offline
    <3> QED BY <1>1, <2>1, <3>1, <3>2, <3>3, <3>5 DEF CopyOK, instanceVars
  <2> QED BY <2>2, <2>3
<1>3. CASE BeginJob
  <2>1. PICK n \in I!Job : /\ jobs' = n /\ n > jobs /\ \A k \in I!Job : k > n => k > jobs
                           /\ \A k \in I!Job \ {n} : job'[k] = job[k]
                           /\ job'[n].at \in {"lock", "resolve"}
    BY <1>1, <1>3, BeginJobIs DEF BeginJob
  <2>2. /\ UNCHANGED <<secret, stateDb, tenantDb, session, cmd, copy>>
        /\ sound' = IF Offline /\ Readable THEN sound \cup {n} ELSE sound
    BY <1>3, <2>1 DEF BeginJob, maintenanceVars, vars, files
  <2>3. Offline' = Offline /\ Readable' = Readable
    BY <2>2 DEF Offline, Readable, Live
  <2>4. copy[n].data = {}
    BY <1>1, <2>1 DEF CopyOK
  <2>5. ASSUME NEW k \in sound'
        PROVE  /\ job'[k].at \in {"copyTree", "copyDatabase"} => copy'[k].key = secret'
               /\ \A c \in copy'[k].data : c.key = secret' /\ copy'[k].key = secret'
    BY <1>1, <2>1, <2>2, <2>4, <2>5 DEF CopyOK
  <2>6. sound' \in SUBSET I!Job /\ (sound' # {} => Offline /\ Readable)
    BY <1>1, <2>1, <2>2 DEF CopyOK
  <2> QED BY <1>1, <2>1, <2>2, <2>3, <2>5, <2>6 DEF CopyOK
<1>4. CASE I!RemoveLeftLock /\ UNCHANGED <<maintenanceVars, copy, sound>>
  BY <1>1, <1>4 DEF I!RemoveLeftLock, maintenanceVars, vars, files, CopyOK, Offline, Readable, Live
<1>5. ASSUME NEW j \in I!Job, I!Plain(j), UNCHANGED maintenanceVars,
             IF Dropped(j) THEN copy' = [copy EXCEPT ![j] = NoCopy] /\ sound' = sound \ {j}
             ELSE UNCHANGED <<copy, sound>>
      PROVE  CopyOK'
  <2>1. /\ \A k \in I!Job \ {j} : job'[k] = job[k]
        /\ job[j].at # "none" /\ UNCHANGED jobs /\ job'[j].at \notin {"copyTree", "copyDatabase"}
    BY <1>1, <1>5, JobMoves
  <2>2. UNCHANGED <<secret, stateDb, tenantDb, session, cmd>>
    BY <1>5 DEF maintenanceVars, vars, files
  <2>3. CASE UNCHANGED <<copy, sound>>
    BY <2>1, <2>2, <2>3, CopyStays
  <2>4. CASE copy' = [copy EXCEPT ![j] = NoCopy] /\ sound' = sound \ {j}
    <3>1. copy' \in [I!Job -> Copy] /\ \A k \in I!Job \ {j} : copy'[k] = copy[k]
      BY <1>1, <2>4, CopyParts DEF CopyOK
    <3> QED BY <2>1, <2>2, <2>4, <3>1, OneCopyStep
  <2> QED BY <1>5, <2>3, <2>4
<1>6. ASSUME NEW j \in I!Job, Compose(j) PROVE CopyOK'
  <2>1. /\ \A k \in I!Job \ {j} : job'[k] = job[k]
        /\ job[j].at # "none" /\ UNCHANGED jobs /\ job'[j].at \notin {"copyTree", "copyDatabase"}
    BY <1>1, <1>6, JobMoves DEF Compose
  <2>2. UNCHANGED <<secret, stateDb, tenantDb, session, cmd, copy, sound>>
    BY <1>6 DEF Compose, Restarted, maintenanceVars, vars, files
  <2> QED BY <2>1, <2>2, CopyStays
<1>7. ASSUME NEW j \in I!Job, CopyEnv(j) PROVE CopyOK'
  <2>1. /\ \A k \in I!Job \ {j} : job'[k] = job[k]
        /\ job[j].at # "none" /\ UNCHANGED jobs
    BY <1>1, <1>7, JobMoves DEF CopyEnv
  <2>2. /\ UNCHANGED <<secret, stateDb, tenantDb, session, cmd, sound>>
        /\ copy' = [copy EXCEPT ![j].key = secret]
    BY <1>7 DEF CopyEnv, maintenanceVars, vars, files
  <2>3. secret \in Key
    BY CopyParts DEF TypeOK
  <2>4. /\ copy' \in [I!Job -> Copy] /\ \A k \in I!Job \ {j} : copy'[k] = copy[k]
        /\ copy'[j].key = secret /\ copy'[j].data = copy[j].data
    BY <1>1, <2>2, <2>3 DEF CopyOK, Copy
  <2>5. j \in sound' => SoundCopy(j)'
    BY <1>1, <2>2, <2>4 DEF CopyOK, SoundCopy
  <2> QED BY <2>1, <2>2, <2>4, <2>5, OneCopyStep
<1>8. ASSUME NEW j \in I!Job, CopyDirectories(j) \/ CopyStateDb(j) PROVE CopyOK'
  <2>1. /\ \A k \in I!Job \ {j} : job'[k] = job[k]
        /\ job[j].at # "none" /\ UNCHANGED jobs
    BY <1>1, <1>8, JobMoves DEF CopyDirectories, CopyStateDb
  <2>2. job[j].at \in {"copyTree", "copyDatabase"}
    BY <1>8 DEF CopyDirectories, CopyStateDb, I!CopyTree, I!CopyDatabase, I!Copies
  <2>3. UNCHANGED <<secret, stateDb, tenantDb, session, cmd, sound>>
    BY <1>8 DEF CopyDirectories, CopyStateDb, maintenanceVars, vars, files
  <2>4. PICK f \in SUBSET Live :
           copy' = copy \/ copy' = [copy EXCEPT ![j].data = f] \/ copy' = [copy EXCEPT ![j].data = @ \cup f]
    <3>1. UNION {tenantDb[o] \cup session[o] : o \in Owner} \in SUBSET Live /\ stateDb \in SUBSET Live
      BY DEF Live
    <3> QED BY <1>8, <3>1 DEF CopyDirectories, CopyStateDb
  <2>5. Live \subseteq Cipher
    BY CopyParts DEF Live, TypeOK, File
  <2>6. /\ copy' \in [I!Job -> Copy] /\ \A k \in I!Job \ {j} : copy'[k] = copy[k]
        /\ copy'[j].key = copy[j].key /\ \A c \in copy'[j].data : c \in copy[j].data \cup f
    BY <1>1, <2>4, <2>5, CopyParts DEF CopyOK, Copy
  <2>7. ASSUME j \in sound' PROVE SoundCopy(j)'
    <3>1. Readable /\ copy[j].key = secret /\ \A c \in copy[j].data : c.key = secret
      BY <1>1, <2>2, <2>3, <2>7 DEF CopyOK
    <3>2. \A c \in f : c.key = secret
      BY <2>4, <3>1, Bounds DEF Readable
    <3> QED BY <2>3, <2>6, <3>1, <3>2 DEF SoundCopy
  <2> QED BY <2>1, <2>3, <2>6, <2>7, OneCopyStep
<1> QED BY <1>2, <1>3, <1>4, <1>5, <1>6, <1>7, <1>8 DEF Manage

-----------------------------------------------------------------------------
(* The theorems.                                                           *)

LEMMA Beginning == AllInit => IInv
<1> SUFFICES ASSUME AllInit PROVE IInv
  OBVIOUS
<1>1. InstanceInv /\ MaintenanceInv
  BY InstanceBegin, InitMaintenance DEF AllInit
<1>2. StartsOK
  BY DEF AllInit, Init, Idle, StartsOK, Exclusive
<1>3. CopyOK
  BY <1>1 DEF AllInit, CopyOK, NoCopy, Copy, MaintenanceInv, TypeOK, Key, Init
<1> QED BY <1>1, <1>2, <1>3 DEF IInv

\* What a step of either side is for the variables of the other.
LEMMA Sides ==
    ASSUME Maintain \/ Manage
    PROVE  /\ [I!Next]_instanceVars
           /\ \/ Next
              \/ UNCHANGED maintenanceVars
              \/ /\ UNCHANGED <<files, bundle, cmd, bounds, last, before>>
                 /\ service' \in {secret, service} /\ \E j \in I!Job : I!Ups(j)
<1>1. CASE Maintain
  BY <1>1 DEF Maintain
<1>2. CASE BeginJob
  BY <1>2 DEF BeginJob, I!Next
<1>3. CASE I!RemoveLeftLock /\ UNCHANGED <<maintenanceVars, copy, sound>>
  BY <1>3 DEF I!Next
<1>4. ASSUME NEW j \in I!Job, I!Plain(j), UNCHANGED maintenanceVars PROVE I!Next
  BY <1>4 DEF I!Next
<1>5. ASSUME NEW j \in I!Job, CopyEnv(j) \/ CopyDirectories(j) \/ CopyStateDb(j)
      PROVE  I!Next /\ UNCHANGED maintenanceVars
  BY <1>5 DEF I!Next, CopyEnv, CopyDirectories, CopyStateDb
<1>6. ASSUME NEW j \in I!Job, Compose(j)
      PROVE  /\ I!Next /\ I!Ups(j)
             /\ \/ UNCHANGED maintenanceVars
                \/ /\ UNCHANGED <<files, bundle, cmd, bounds, last, before>>
                   /\ service' \in {secret, service}
  BY <1>6 DEF I!Next, Compose, Restarted
<1> QED BY <1>1, <1>2, <1>3, <1>4, <1>5, <1>6 DEF Manage

\* Who calls Docker has started and not ended.
LEMMA UpsStart == ASSUME InstanceInv, NEW j \in I!Job, I!Ups(j) PROVE Starting # {}
<1>1. KindOK(j) /\ job[j].at \in {"start", "up", "upPrevious"}
  BY AtStep DEF I!Ups, I!StartUp, I!Up, I!UpPrevious
<1> QED BY <1>1 DEF KindOK, Starting, I!Ended

LEMMA Preservation == ASSUME ~StartsBeside, IInv, [Maintain \/ Manage]_allVars PROVE IInv'
<1>1. InstanceInv /\ MaintenanceInv /\ StartsOK /\ CopyOK
  BY DEF IInv
<1>2. ASSUME UNCHANGED maintenanceVars PROVE MaintenanceInv'
  <2>1. UNCHANGED <<files, bundle, cmd, bounds, last, before, service>>
    BY <1>2 DEF maintenanceVars, vars
  <2>2. service' = Down \/ ~Exclusive
    BY <1>1, <2>1 DEF MaintenanceInv, ServiceOK
  <2> QED BY <1>1, <2>1, <2>2, ServiceStep
<1>3. CASE UNCHANGED allVars
  <2>1. UNCHANGED <<maintenanceVars, instanceVars, copy, sound>>
    BY <1>3 DEF allVars
  <2>2. InstanceInv' /\ MaintenanceInv'
    BY <1>1, <1>2, <2>1, InstanceStep
  <2>3. StartsOK' /\ CopyOK'
    BY <1>1, <2>1 DEF StartsOK, CopyOK, Exclusive, Starting, Offline, Readable, Live, maintenanceVars,
                      instanceVars, vars, files
  <2> QED BY <2>2, <2>3 DEF IInv
<1>4. CASE Maintain \/ Manage
  <2>1. InstanceInv'
    BY <1>1, <1>4, Sides, InstanceStep
  <2>2. MaintenanceInv'
    <3>1. CASE Next
      BY <1>1, <3>1, MaintenanceStep
    <3>2. CASE UNCHANGED maintenanceVars
      BY <1>2, <3>2
    <3>3. CASE /\ UNCHANGED <<files, bundle, cmd, bounds, last, before>>
               /\ service' \in {secret, service} /\ \E j \in I!Job : I!Ups(j)
      <4>1. ~Exclusive
        BY <1>1, <3>3, UpsStart DEF StartsOK
      <4> QED BY <1>1, <3>3, <4>1, ServiceStep
    <3> QED BY <1>4, <3>1, <3>2, <3>3, Sides
  <2>3. StartsOK' /\ CopyOK'
    BY <1>4, StartsStep, CopyNext
  <2> QED BY <2>1, <2>2, <2>3 DEF IInv
<1> QED BY <1>3, <1>4

LEMMA Invariance == ASSUME ~StartsBeside PROVE OperationsSpec => []IInv
<1>1. AllInit => IInv
  BY Beginning
<1>2. IInv /\ [Maintain \/ Manage]_allVars => IInv'
  BY Preservation
<1> QED BY <1>1, <1>2, PTL DEF OperationsSpec

\* Of the instance manager alone: it does not matter who starts the service.
LEMMA InstanceInvariance == OperationsSpec => []InstanceInv
<1>1. AllInit => InstanceInv
  BY InstanceBegin DEF AllInit
<1>2. InstanceInv /\ [Maintain \/ Manage]_allVars => InstanceInv'
  <2> SUFFICES ASSUME InstanceInv, [Maintain \/ Manage]_allVars PROVE InstanceInv'
    OBVIOUS
  <2>1. [I!Next]_instanceVars
    BY Sides DEF allVars
  <2> QED BY <2>1, InstanceStep
<1> QED BY <1>1, <1>2, PTL DEF OperationsSpec

-----------------------------------------------------------------------------
(* The types, also when the service is started under a restore.            *)

\* A command is numbered, and one that installs has a bundle to install.
Placed ==
    /\ cmd.op = "none" <=> cmd.at = "idle"
    /\ cmd.op # "none" => commands > 0
    /\ cmd.at \in {"installDb", "installSession", "installKey"} => cmd.op = "restore"
    /\ cmd.op = "restore" => cmd.source \in Command

CopyTyped == copy \in [I!Job -> Copy] /\ sound \in SUBSET I!Job

TypeInv == TypeOK /\ Placed

LEMMA TypeParts ==
    ASSUME TypeInv
    PROVE  /\ cmd \in CmdSet /\ bundle \in [Command -> Bundle] /\ stateDb \in File
           /\ secret \in Key /\ session \in [Owner -> File] /\ tenantDb \in [Owner -> File]
           /\ session[Primary] \in File
           /\ cmd.op # "none" => commands \in Command /\ commands \in Key
           /\ cmd.at \in {"installDb", "installSession", "installKey"} =>
                 bundle[cmd.source] \in Bundle /\ bundle[cmd.source].db \in File
                 /\ bundle[cmd.source].session \in File /\ bundle[cmd.source].key \subseteq Key
           /\ cmd.op # "none" => bundle[commands] \in Bundle /\ bundle[commands].db \in File
                                 /\ bundle[commands].session \in File
<1>1. cmd \in CmdSet /\ bundle \in [Command -> Bundle] /\ stateDb \in File
  BY DEF TypeInv, TypeOK, CmdSet
<1>2. /\ session \in [Owner -> File] /\ tenantDb \in [Owner -> File] /\ session[Primary] \in File
      /\ secret \in Key
  BY Bounds DEF TypeInv, TypeOK
<1>3. cmd.op # "none" => commands \in Command /\ commands \in Key
  BY Bounds DEF TypeInv, TypeOK, Placed, Command, Key
<1>4. cmd.at \in {"installDb", "installSession", "installKey"} => cmd.source \in Command
  BY DEF TypeInv, Placed
<1> QED BY <1>1, <1>2, <1>3, <1>4 DEF Bundle

\* What a row or a session is sealed with.
LEMMA SealedTyped ==
    ASSUME TypeInv, service # Down, writes < MaxWrites, NEW o \in Owner
    PROVE  Sealed(o) \in Cipher /\ writes + 1 \in 0..MaxWrites
BY Bounds DEF TypeInv, TypeOK, Sealed, Cipher, Down

LEMMA TypeService == ASSUME TypeInv, ServiceNext PROVE TypeInv'
<1>1. CASE StartService \/ StopService
  BY <1>1 DEF StartService, StopService, TypeInv, TypeOK, Placed, files, bounds
<1>2. ASSUME NEW o \in Owner, WriteRow(o) PROVE TypeInv'
  <2>1. Sealed(o) \in Cipher /\ writes + 1 \in 0..MaxWrites
    BY <1>2, SealedTyped DEF WriteRow
  <2>2. tenantDb' \in [Owner -> File]
    BY <1>2, <2>1, TypeParts DEF WriteRow, File
  <2> QED BY <1>2, <2>1, <2>2 DEF WriteRow, TypeInv, TypeOK, Placed
<1>3. ASSUME NEW o \in Owner, SaveSession(o) PROVE TypeInv'
  <2>1. Sealed(o) \in Cipher /\ writes + 1 \in 0..MaxWrites
    BY <1>3, SealedTyped DEF SaveSession
  <2>2. session' \in [Owner -> File]
    BY <1>3, <2>1, TypeParts DEF SaveSession, File
  <2> QED BY <1>3, <2>1, <2>2 DEF SaveSession, TypeInv, TypeOK, Placed
<1>4. ASSUME NEW o \in Owner, RemoveSession(o) PROVE TypeInv'
  <2>1. session' \in [Owner -> File]
    BY <1>4, TypeParts DEF RemoveSession, File
  <2> QED BY <1>4, <2>1 DEF RemoveSession, TypeInv, TypeOK, Placed, bounds
<1> QED BY <1>1, <1>2, <1>3, <1>4 DEF ServiceNext

\* What the command, the files and the bundles have to be for the types to be kept.
LEMMA TypeStays ==
    ASSUME TypeInv, UNCHANGED <<tenantDb, service, commands, writes, before>>,
           cmd' \in CmdSet, last' \in Ended, faults' \in 0..MaxFaults,
           secret' \in Key, stateDb' \in File, session' \in [Owner -> File],
           bundle' \in [Command -> Bundle],
           cmd' = Idle
           \/ /\ cmd'.op = cmd.op /\ cmd'.source = cmd.source /\ cmd'.at # "idle"
              /\ cmd.at # "idle"
              /\ cmd'.at \in {"installDb", "installSession", "installKey"} => cmd.op = "restore"
    PROVE  TypeInv'
<1>1. TypeOK'
  BY DEF TypeInv, TypeOK, CmdSet
<1>2. Placed'
  BY IdleIs DEF TypeInv, Placed
<1> QED BY <1>1, <1>2 DEF TypeInv

LEMMA TypeBegin ==
    ASSUME TypeInv, NEW op \in {"backup", "restore", "rotate"}, NEW o \in Owner,
           NEW source \in 0..MaxCommands, Begin(op, o, source),
           op = "restore" => source \in Command
    PROVE  TypeInv'
<1>1. TypeOK /\ secret \in Key /\ stateDb \in File /\ session[Primary] \in File
  BY TypeParts DEF TypeInv
<1>2. commands' > 0 /\ commands' \in 0..MaxCommands
  BY <1>1, Bounds DEF Begin, TypeOK
<1>3. /\ cmd' \in CmdSet /\ cmd'.op = op /\ cmd'.at = "copyDb" /\ cmd'.source = source
      /\ before' \in [db: File, session: File]
  BY <1>1, IdleIs DEF Begin, CmdSet, Op, Step
<1>4. UNCHANGED <<files, bundle, service, writes, faults, last>>
  BY DEF Begin
<1>5. TypeOK'
  BY <1>1, <1>2, <1>3, <1>4 DEF TypeOK, files, CmdSet
<1> QED BY <1>2, <1>3, <1>5 DEF TypeInv, Placed

LEMMA TypeCommand == ASSUME TypeInv, CommandNext PROVE TypeInv'
<1> USE DEF files, bounds
<1>0. /\ cmd \in CmdSet /\ bundle \in [Command -> Bundle] /\ stateDb \in File
      /\ secret \in Key /\ session \in [Owner -> File] /\ last \in Ended
      /\ faults \in 0..MaxFaults /\ TypeOK
  BY TypeParts DEF TypeInv, TypeOK
<1>1. \A s \in Step : GoTo(s) =>
        /\ cmd' \in CmdSet /\ cmd'.at = s /\ cmd'.op = cmd.op /\ cmd'.source = cmd.source
  BY <1>0, GoToIs
<1>2. \A how \in Ended : End(how) => cmd' = Idle /\ cmd' \in CmdSet /\ last' \in Ended
  BY IdleIs DEF End
<1>4. cmd.at # "idle" => cmd.op # "none" /\ commands \in Command /\ commands \in Key
                         /\ bundle[commands] \in Bundle
  BY TypeParts DEF TypeInv, Placed
<1>5. faults < MaxFaults => faults + 1 \in 0..MaxFaults
  BY <1>0, Bounds
<1>6. CASE \/ \E o \in Owner : BeginBackup(o)
           \/ \E n \in Command : BeginRestore(n)
           \/ BeginRotation
  <2>1. 0 \in 0..MaxCommands /\ Primary \in Owner /\ Command \subseteq 0..MaxCommands
    BY Bounds DEF Command
  <2> QED BY <1>6, <2>1, TypeBegin DEF BeginBackup, BeginRestore, BeginRotation
<1>7. CASE CopyDb
  <2>1. tenantDb[cmd.owner] \in File
    BY <1>0, TypeParts DEF CmdSet
  <2>2. bundle' \in [Command -> Bundle]
    BY <1>0, <1>4, <1>7, <2>1 DEF CopyDb, Bundle
  <2> QED BY <1>0, <1>1, <1>7, <2>2, TypeStays DEF CopyDb, Step
<1>8. CASE CopySession
  <2>1. bundle' \in [Command -> Bundle]
    BY <1>0, <1>4, <1>8, TypeParts DEF CopySession, Bundle
  <2> QED BY <1>0, <1>1, <1>8, <2>1, TypeStays DEF CopySession, Step
<1>9. CASE Seal
  <2>1. BundledKey \in SUBSET Key
    BY <1>0 DEF BundledKey, CmdSet
  <2>2. bundle' \in [Command -> Bundle]
    BY <1>0, <1>4, <1>9, <2>1 DEF Seal, Bundle
  <2>3. CASE cmd.op = "backup" /\ End("backed_up")
    BY <1>0, <1>2, <1>9, <2>2, <2>3, TypeStays DEF Seal, Ended
  <2>4. CASE cmd.op = "restore" /\ GoTo("installDb") /\ UNCHANGED last
    BY <1>0, <1>1, <1>9, <2>2, <2>4, TypeStays DEF Seal, Step
  <2>5. CASE cmd.op = "rotate" /\ GoTo("load") /\ UNCHANGED last
    BY <1>0, <1>1, <1>9, <2>2, <2>5, TypeStays DEF Seal, Step
  <2> QED BY <1>9, <2>3, <2>4, <2>5 DEF Seal
<1>10. CASE InstallDb
  BY <1>0, <1>1, <1>10, TypeParts, TypeStays DEF InstallDb, Step, TypeInv, Placed
<1>11. CASE InstallSession
  <2>1. session' \in [Owner -> File]
    BY <1>0, <1>11, TypeParts DEF InstallSession
  <2>2. CASE End("restored")
    BY <1>0, <1>2, <1>11, <2>1, <2>2, TypeStays DEF InstallSession, Ended
  <2>3. CASE GoTo("installKey") /\ UNCHANGED last
    BY <1>0, <1>1, <1>11, <2>1, <2>3, TypeStays DEF InstallSession, Step, TypeInv, Placed
  <2> QED BY <1>11, <2>2, <2>3 DEF InstallSession
<1>12. CASE InstallKey
  <2>1. secret' \in Key
    BY <1>12, TypeParts DEF InstallKey
  <2>2. CASE End("restored") /\ UNCHANGED faults
    BY <1>0, <1>2, <1>12, <2>1, <2>2, TypeStays DEF InstallKey, Ended
  <2>3. CASE faults < MaxFaults /\ faults' = faults + 1 /\ GoTo("undoDb") /\ UNCHANGED last
    BY <1>0, <1>1, <1>5, <1>12, <2>1, <2>3, TypeStays DEF InstallKey, Step
  <2> QED BY <1>12, <2>2, <2>3 DEF InstallKey, Done
<1>13. CASE Load
  <2>1. CASE cmd' = [cmd EXCEPT !.at = "rows", !.loaded = session[Primary]] /\ UNCHANGED last
    <3>1. /\ cmd' \in CmdSet /\ cmd'.at = "rows" /\ cmd'.op = cmd.op /\ cmd'.source = cmd.source
      BY <1>0, <2>1, TypeParts DEF CmdSet, Step
    <3> QED BY <1>0, <1>13, <2>1, <3>1, TypeStays DEF Load
  <2>2. CASE End("error")
    BY <1>0, <1>2, <1>13, <2>2, TypeStays DEF Load, Ended
  <2> QED BY <1>13, <2>1, <2>2 DEF Load
<1>14. CASE Rows
  <2>1. Under(commands, stateDb) \in File
    BY <1>0, <1>4, <1>14, UnderParts DEF Rows
  <2> QED BY <1>0, <1>1, <1>14, <2>1, TypeStays DEF Rows, Step
<1>15. CASE Save
  <2>1. session' \in [Owner -> File]
    <3>1. Under(commands, cmd.loaded) \in File
      BY <1>0, <1>4, <1>15, UnderParts DEF Save, CmdSet
    <3> QED BY <1>0, <1>15, <3>1 DEF Save
  <2>2. CASE GoTo("writeKey") /\ UNCHANGED <<last, faults>>
    BY <1>0, <1>1, <1>15, <2>1, <2>2, TypeStays DEF Save, Step
  <2>3. CASE faults < MaxFaults /\ faults' = faults + 1 /\ GoTo("undoDb") /\ UNCHANGED last
    BY <1>0, <1>1, <1>5, <1>15, <2>1, <2>3, TypeStays DEF Save, Step
  <2> QED BY <1>15, <2>2, <2>3 DEF Save, Done
<1>16. CASE WriteKey
  <2>1. secret' \in Key
    BY <1>4, <1>16 DEF WriteKey
  <2>2. CASE End("key_rotated") /\ UNCHANGED faults
    BY <1>0, <1>2, <1>16, <2>1, <2>2, TypeStays DEF WriteKey, Ended
  <2>3. CASE faults < MaxFaults /\ faults' = faults + 1 /\ GoTo("undoDb") /\ UNCHANGED last
    BY <1>0, <1>1, <1>5, <1>16, <2>1, <2>3, TypeStays DEF WriteKey, Step
  <2> QED BY <1>16, <2>2, <2>3 DEF WriteKey, Done
<1>17. CASE UndoDb
  BY <1>0, <1>1, <1>4, <1>17, TypeStays DEF UndoDb, Step, Bundle
<1>18. CASE UndoSession
  <2>1. session' \in [Owner -> File]
    BY <1>0, <1>4, <1>18 DEF UndoSession, Bundle
  <2> QED BY <1>0, <1>2, <1>18, <2>1, TypeStays DEF UndoSession, Ended
<1>19. CASE Fault
  <2>1. /\ faults' \in 0..MaxFaults /\ cmd.at # "idle"
        /\ UNCHANGED <<files, service, commands, writes, before>>
    BY <1>5, <1>19 DEF Fault
  <2>0. secret' \in Key /\ stateDb' \in File /\ session' \in [Owner -> File]
        /\ UNCHANGED <<tenantDb, service, commands, writes, before>>
    BY <1>0, <2>1
  <2>2. CASE bundle' = [bundle EXCEPT ![commands] = NoBundle] /\ End("error")
    <3>1. NoBundle \in Bundle
      BY DEF NoBundle, Bundle, File
    <3>2. bundle' \in [Command -> Bundle]
      BY <1>0, <2>2, <3>1
    <3> QED BY <1>0, <1>2, <2>0, <2>1, <2>2, <3>2, TypeStays DEF Ended
  <2>3. CASE (End("error") \/ End("torn")) /\ UNCHANGED bundle
    BY <1>0, <1>2, <2>0, <2>1, <2>3, TypeStays DEF Ended
  <2>4. CASE GoTo("undoDb") /\ UNCHANGED <<bundle, last>>
    BY <1>0, <1>1, <2>0, <2>1, <2>4, TypeStays DEF Step
  <2> QED BY <1>19, <2>2, <2>3, <2>4 DEF Fault
<1>20. CASE Crash
  BY <1>0, <1>2, <1>20, TypeStays DEF Crash, Ended
<1> QED BY <1>6, <1>7, <1>8, <1>9, <1>10, <1>11, <1>12, <1>13, <1>14, <1>15, <1>16, <1>17, <1>18,
           <1>19, <1>20 DEF CommandNext

\* What a job has of the files is what they are.
LEMMA CopyTypes ==
    ASSUME InstanceInv, InstanceInv', TypeInv, CopyTyped, Maintain \/ Manage
    PROVE  CopyTyped'
<1>1. NoCopy \in Copy /\ copy \in [I!Job -> Copy] /\ sound \in SUBSET I!Job
  BY Bounds DEF NoCopy, Copy, Key, CopyTyped
<1>2. CASE Maintain
  BY <1>1, <1>2 DEF Maintain, CopyTyped
<1>3. CASE BeginJob
  <2>1. jobs' \in I!Job
    BY <1>3, BeginStep DEF BeginJob
  <2> QED BY <1>1, <1>3, <2>1 DEF BeginJob, CopyTyped
<1>4. CASE I!RemoveLeftLock /\ UNCHANGED <<maintenanceVars, copy, sound>>
  BY <1>1, <1>4 DEF CopyTyped
<1>5. ASSUME NEW j \in I!Job,
             IF Dropped(j) THEN copy' = [copy EXCEPT ![j] = NoCopy] /\ sound' = sound \ {j}
             ELSE UNCHANGED <<copy, sound>>
      PROVE  CopyTyped'
  BY <1>1, <1>5 DEF CopyTyped
<1>6. ASSUME NEW j \in I!Job, Compose(j) PROVE CopyTyped'
  BY <1>1, <1>6 DEF Compose, CopyTyped
<1>7. ASSUME NEW j \in I!Job, CopyEnv(j) PROVE CopyTyped'
  BY <1>1, <1>7, TypeParts DEF CopyEnv, CopyTyped, Copy
<1>8. ASSUME NEW j \in I!Job, CopyDirectories(j) PROVE CopyTyped'
  <2>1. UNION {tenantDb[o] \cup session[o] : o \in Owner} \in SUBSET Cipher
    BY TypeParts DEF File
  <2> QED BY <1>1, <1>8, <2>1 DEF CopyDirectories, CopyTyped, Copy
<1>9. ASSUME NEW j \in I!Job, CopyStateDb(j) PROVE CopyTyped'
  <2>1. stateDb \in SUBSET Cipher
    BY TypeParts DEF File
  <2> QED BY <1>1, <1>9, <2>1 DEF CopyStateDb, CopyTyped, Copy
<1> QED BY <1>2, <1>3, <1>4, <1>5, <1>6, <1>7, <1>8, <1>9 DEF Manage

LEMMA TypesBegin == AllInit => TypeInv /\ CopyTyped
<1> SUFFICES ASSUME AllInit PROVE TypeInv /\ CopyTyped
  OBVIOUS
<1>1. TypeOK
  BY InitMaintenance DEF AllInit, MaintenanceInv
<1>2. Placed
  BY DEF AllInit, Init, Placed, Idle
<1>3. NoCopy \in Copy
  BY Bounds DEF NoCopy, Copy, Key
<1> QED BY <1>1, <1>2, <1>3 DEF AllInit, TypeInv, CopyTyped

LEMMA TypesStep ==
    ASSUME InstanceInv, InstanceInv', TypeInv, CopyTyped, [Maintain \/ Manage]_allVars
    PROVE  TypeInv' /\ CopyTyped'
<1>1. CASE UNCHANGED allVars
  BY <1>1 DEF allVars, maintenanceVars, vars, files, bounds, TypeInv, TypeOK, Placed, CopyTyped
<1>2. CASE Maintain \/ Manage
  <2>1. ASSUME Next PROVE TypeInv'
    BY <2>1, TypeService, TypeCommand DEF Next
  <2>2. ASSUME UNCHANGED maintenanceVars PROVE TypeInv'
    BY <2>2 DEF maintenanceVars, vars, files, bounds, TypeInv, TypeOK, Placed
  <2>3. ASSUME UNCHANGED <<files, bundle, cmd, bounds, last, before>>, service' \in {secret, service}
        PROVE  TypeInv'
    BY <2>3 DEF files, bounds, TypeInv, TypeOK, Placed
  <2> QED BY <1>2, <2>1, <2>2, <2>3, Sides, CopyTypes
<1> QED BY <1>1, <1>2

LEMMA TypeInvariance == OperationsSpec => [](InstanceInv /\ TypeInv /\ CopyTyped)
<1>1. AllInit => InstanceInv /\ TypeInv /\ CopyTyped
  BY InstanceBegin, TypesBegin DEF AllInit
<1>2. InstanceInv /\ TypeInv /\ CopyTyped /\ [Maintain \/ Manage]_allVars
        => (InstanceInv /\ TypeInv /\ CopyTyped)'
  <2> SUFFICES ASSUME InstanceInv, TypeInv, CopyTyped, [Maintain \/ Manage]_allVars
               PROVE  (InstanceInv /\ TypeInv /\ CopyTyped)'
    OBVIOUS
  <2>1. [I!Next]_instanceVars
    BY Sides DEF allVars
  <2>2. InstanceInv'
    BY <2>1, InstanceStep
  <2> QED BY <2>2, TypesStep
<1> QED BY <1>1, <1>2, PTL DEF OperationsSpec

-----------------------------------------------------------------------------
(* The properties.                                                         *)

\* An upgrade that was not broken off leaves the Compose file, the metadata and
\* the index with one image, whatever Docker and the other commands do (upgrade).
THEOREM ImagesAgreeHolds == OperationsSpec => []ImagesAgree
<1>1. InstanceInv => ImagesAgree
  <2> SUFFICES ASSUME InstanceInv, NEW r \in index, dir[r.id].at = "final",
                      ~\E j \in I!Upgrades(r) :
                          job[j].at \in (I!Locked \ {"load"}) \cup {"torn", "crashed"}
               PROVE  dir[r.id].compose = r.image /\ dir[r.id].meta = r.image
    BY DEF ImagesAgree, I!ImagesAgree
  <2>1. \A j \in I!Upgrades(r) : ~Broken(j) /\ ~Midway(j)
    BY DEF Broken, Midway, I!Locked
  <2> QED BY <2>1 DEF InstanceInv, EvenOK, Even
<1> QED BY <1>1, InstanceInvariance, PTL

\* Whatever the commands and the service do, the keys, files, bundles and copies keep
\* their types, and so do the index, the jobs and the directories.
THEOREM TypesCorrect == OperationsSpec => []AllTypesOK
<1>1. InstanceInv /\ TypeInv /\ CopyTyped => AllTypesOK
  BY DEF InstanceInv, TypeInv, CopyTyped, AllTypesOK
<1> QED BY <1>1, TypeInvariance, PTL

\* Whatever overlaps, fails or dies, no identifier, alias and port is given twice,
\* and a creation that was reported stays in the index (withIndexLock, create).
THEOREM CreatedStaysHolds == OperationsSpec => []CreatedStays
<1>1. InstanceInv => I!IndexSound /\ I!CreatedStays
  <2> SUFFICES ASSUME InstanceInv PROVE I!IndexSound /\ I!CreatedStays
    OBVIOUS
  <2>1. I!IndexSound
    BY DEF InstanceInv
  <2>2. \A j \in I!Job : job[j].at = "created" => \E r \in index : r.id = j
    BY DEF InstanceInv, DirOK
  <2>3. \A r \in index : \/ dir[r.id].at = "final"
                         \/ r.id # 0 /\ errors > 0 /\ job[r.id].at \in {"unlock", "error", "crashed"}
    BY DEF InstanceInv, IndexOK
  <2> QED BY <2>1, <2>2, <2>3 DEF I!CreatedStays
<1> QED BY <1>1, TypesCorrect, InstanceInvariance, PTL DEF CreatedStays

\* Nothing is sealed under a key nobody has, at whatever step a restore or a
\* rotation fails or dies, and a backup made beside none of them opens with the
\* key in it: while the operator does not start the service under a restore or a
\* rotation (restoreRuntimeBackup, rotateEncryptionKey, backup).
THEOREM KeysKeptHolds == ASSUME ~StartsBeside PROVE OperationsSpec => []KeysKept
<1>1. IInv => KeysKept
  <2> SUFFICES ASSUME IInv PROVE KeysKept
    OBVIOUS
  <2>1. Recoverable
    BY DEF IInv, MaintenanceInv, KeptOK, Kept, Recoverable
  <2>2. BackupOpens
    BY DEF IInv, CopyOK, BackupOpens
  <2> QED BY <2>1, <2>2 DEF KeysKept
<1> QED BY <1>1, Invariance, PTL

\* A restore or a rotation that reports an error has left the primary's files as
\* they were, and one that reports success has left them readable with the new
\* key (the catch blocks of restoreRuntimeBackup and rotateEncryptionKey).
THEOREM ReportIsTrueHolds == ASSUME ~StartsBeside PROVE OperationsSpec => ReportIsTrue
<1>1. IInv /\ [Maintain \/ Manage]_allVars => [FailedKeepsFiles /\ RotatedIsReadable]_vars
  <2> SUFFICES ASSUME IInv, [Maintain \/ Manage]_allVars
               PROVE  (FailedKeepsFiles /\ RotatedIsReadable) \/ UNCHANGED vars
    OBVIOUS
  <2>1. CASE UNCHANGED allVars
    BY <2>1 DEF allVars, maintenanceVars
  <2>2. CASE Next
    BY <2>2, Reports DEF IInv
  <2>3. CASE UNCHANGED maintenanceVars
    BY <2>3 DEF maintenanceVars
  <2>4. CASE cmd' = cmd
    BY <2>4 DEF FailedKeepsFiles, RotatedIsReadable, Ends
  <2> QED BY <2>1, <2>2, <2>3, <2>4, Sides
<1> QED BY <1>1, Invariance, PTL DEF OperationsSpec, ReportIsTrue
=============================================================================
