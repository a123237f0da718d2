----------------------------- MODULE Operations -----------------------------
(***************************************************************************)
(* What an operator does to one root of instances: the commands of the     *)
(* instance manager (InstanceManager) and, on the data directory and the   *)
(* service.env of instance 0, the service and the offline commands         *)
(* (Maintenance).                                                          *)
(*                                                                         *)
(* "docker compose up" starts the service of an instance; the backup of an *)
(* instance copies service.env, the directories and state.db, one after    *)
(* the other, and asks for no lock.                                        *)
(***************************************************************************)
EXTENDS Maintenance

CONSTANTS
    Alias, Port, Image, First, MaxJobs, MaxErrors,
    Mixes        \* bound: how many commands of either kind, and writes, together

VARIABLES
    index, lock, dir, container, kept, job, jobs, errors,   \* InstanceManager's
    copy,        \* what the backup of each job has of instance 0
    sound        \* history: jobs that began with all files of instance 0 readable,
                 \* and beside which no restore or rotation has run

I == INSTANCE InstanceManager

ASSUME FirstAssumption == First \in I!Record /\ First.id = 0
ASSUME MaxAssumption == {MaxJobs, MaxErrors} \subseteq Nat
ASSUME MixesAssumption == Mixes \subseteq Nat \X Nat \X Nat

maintenanceVars == vars
instanceVars    == <<index, lock, dir, container, kept, job, jobs, errors>>
allVars         == <<maintenanceVars, instanceVars, copy, sound>>

Copy   == [key: Key, data: SUBSET Cipher]
NoCopy == [key |-> 0, data |-> {}]

AllTypesOK ==
    /\ TypeOK /\ I!TypeOK
    /\ copy \in [I!Job -> Copy]
    /\ sound \in SUBSET I!Job

AllInit ==
    /\ Init /\ I!Init
    /\ copy = [j \in I!Job |-> NoCopy]
    /\ sound = {}

-----------------------------------------------------------------------------
\* The bounds, together.
Within(c, j, w) == \E m \in Mixes : c <= m[1] /\ j <= m[2] /\ w <= m[3]

Offline == cmd.op \in {"none", "backup"}

\* Commands that start containers.
Starting == {j \in I!Job : job[j].op \in {"start", "upgrade"} /\ job[j].at \notin I!Ended}

Readable == \A o \in Owner : \A c \in Live : c.key = secret

\* The maintenance commands, with the operator's part of keeping the service
\* of instance 0 stopped under a restore or a rotation.
Maintain ==
    /\ Next
    /\ Within(commands', jobs, writes')
    /\ commands' # commands /\ cmd'.op # "backup" => Starting = {}
    /\ sound' = IF cmd'.op \in {"restore", "rotate"} THEN {} ELSE sound
    /\ UNCHANGED <<instanceVars, copy>>

BeginJob ==
    /\ I!BeginAny
    /\ Within(commands, jobs', writes)
    /\ Offline \/ job'[jobs'].op \notin {"start", "upgrade"}
    /\ sound' = IF Offline /\ Readable THEN sound \cup {jobs'} ELSE sound
    /\ UNCHANGED <<maintenanceVars, copy>>

\* "up -d": a container that runs as it should is left alone, any other is
\* made anew with the service.env of the moment.
Restarted(j) ==
    /\ service' = IF container' # container \/ service = Down THEN secret ELSE service
    /\ UNCHANGED <<files, bundle, cmd, bounds, last, before>>

Compose(j) ==
    /\ I!Ups(j)
    /\ \/ job[j].rec.id = 0 /\ job'[j].at # "restore" /\ Restarted(j)
       \/ UNCHANGED maintenanceVars
    /\ UNCHANGED <<copy, sound>>

\* copyPrivateFile of service.env.
CopyEnv(j) ==
    /\ I!CopyFiles(j)
    /\ copy' = [copy EXCEPT ![j].key = secret]
    /\ UNCHANGED <<maintenanceVars, sound>>

\* copyDataDirectory: the directories db and sessions by cp ...
CopyDirectories(j) ==
    /\ I!CopyTree(j)
    /\ copy' = IF job[j].rec.id # 0 THEN copy
               ELSE [copy EXCEPT ![j].data = UNION {tenantDb[o] \cup session[o] : o \in Owner}]
    /\ UNCHANGED <<maintenanceVars, sound>>

\* ... and state.db by the backup of SQLite.
CopyStateDb(j) ==
    /\ I!CopyDatabase(j)
    /\ copy' = IF job[j].rec.id # 0 THEN copy ELSE [copy EXCEPT ![j].data = @ \cup stateDb]
    /\ UNCHANGED <<maintenanceVars, sound>>

\* A partial directory is of no use to anybody.
Dropped(j) == job'[j].at \in I!Ended /\ j \notin kept'

Manage ==
    \/ BeginJob
    \/ I!RemoveLeftLock /\ UNCHANGED <<maintenanceVars, copy, sound>>
    \/ \E j \in I!Job :
        \/ /\ I!Plain(j)
           /\ IF Dropped(j) THEN copy' = [copy EXCEPT ![j] = NoCopy] /\ sound' = sound \ {j}
              ELSE UNCHANGED <<copy, sound>>
           /\ UNCHANGED maintenanceVars
        \/ Compose(j) \/ CopyEnv(j) \/ CopyDirectories(j) \/ CopyStateDb(j)

OperationsSpec == AllInit /\ [][Maintain \/ Manage]_allVars

-----------------------------------------------------------------------------
(* Properties                                                              *)

\* The index is sound and what was reported as created stays in it.
CreatedStays == AllTypesOK /\ I!IndexSound /\ I!CreatedStays

\* The Compose file, the metadata and the index name one image.
ImagesAgree == I!ImagesAgree

BackupOpens ==
    \A j \in kept \cap sound : job[j].rec.id = 0 =>
        \A c \in copy[j].data : c.key = copy[j].key

\* Nothing stays sealed under a key nobody has, in the data directory (Recoverable
\* of Maintenance) or in a backup: a backup of the instance that is in place can be
\* read with the key in it, if the files could be when it began and nobody
\* restored or rotated beside it, the service running or not (backup,
\* copyDataDirectory).
KeysKept == Recoverable /\ BackupOpens
=============================================================================
