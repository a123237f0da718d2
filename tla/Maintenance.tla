---------------------------- MODULE Maintenance ----------------------------
(***************************************************************************)
(* The offline commands on a data directory: backup, restore and key       *)
(* rotation, file operation by file operation, beside the service, with    *)
(* I/O errors and the death of the command between any two operations.     *)
(*                                                                         *)
(* A file is the set of ciphertexts in it; a missing file is the empty     *)
(* set.  A ciphertext is what it holds, the owner in its associated data   *)
(* and the key it was sealed with.  Every command makes one bundle, named  *)
(* after the command; the key a rotation draws has the command's number.   *)
(***************************************************************************)
EXTENDS Integers, FiniteSets

CONSTANTS
    Owner,          \* the configured users
    Primary,        \* config.ownerId
    MaxCommands,    \* bound: maintenance commands
    MaxWrites,      \* bound: rows and sessions the service writes
    MaxFaults,      \* bound: I/O errors
    StartsBeside    \* TRUE: the service may be started under a restore or rotation

VARIABLES
    secret,         \* SESSION_ENCRYPTION_KEY as configured
    stateDb,        \* DATA_DIR/state.db, config.databasePath
    tenantDb,       \* DATA_DIR/db: one database per owner
    session,        \* DATA_DIR/sessions: one file per owner
    bundle,         \* the backup and recovery directories
    service,        \* the key the running service holds, or Down
    cmd,            \* the command under way
    commands,       \* commands so far
    writes,         \* what the service has written so far
    faults,         \* I/O errors so far
    last,           \* how the last command ended
    before          \* history: the primary's files when the command began

files == <<secret, stateDb, tenantDb, session>>
bounds == <<commands, writes, faults>>
vars == <<files, bundle, service, cmd, bounds, last, before>>

-----------------------------------------------------------------------------
Command  == 1..MaxCommands
Key      == 0..MaxCommands
Down     == -1
Cipher   == [of: 1..MaxWrites, owner: Owner, key: Key]
File     == SUBSET Cipher
Bundle   == [db: File, session: File, key: SUBSET Key, sealed: BOOLEAN]
NoBundle == [db |-> {}, session |-> {}, key |-> {}, sealed |-> FALSE]

Op    == {"none", "backup", "restore", "rotate"}
Step  == {"idle", "copyDb", "copySession", "seal", "installDb", "installSession",
          "installKey", "load", "rows", "save", "writeKey", "undoDb", "undoSession"}
Ended == {"none", "backed_up", "restored", "key_rotated", "error", "torn", "crashed"}

Idle == [op |-> "none", at |-> "idle", source |-> 0, owner |-> Primary,
         key |-> 0, loaded |-> {}]

ASSUME OwnerAssumption == Primary \in Owner
ASSUME BoundAssumption == MaxCommands \in Nat /\ MaxWrites \in Nat /\ MaxFaults \in Nat
ASSUME StartsAssumption == StartsBeside \in BOOLEAN

TypeOK ==
    /\ secret \in Key
    /\ stateDb \in File
    /\ tenantDb \in [Owner -> File]
    /\ session \in [Owner -> File]
    /\ bundle \in [Command -> Bundle]
    /\ service \in Key \cup {Down}
    /\ cmd \in [op: Op, at: Step, source: 0..MaxCommands, owner: Owner,
                key: Key, loaded: File]
    /\ commands \in 0..MaxCommands
    /\ writes \in 0..MaxWrites
    /\ faults \in 0..MaxFaults
    /\ last \in Ended
    /\ before \in [db: File, session: File]

Init ==
    /\ secret = 0
    /\ stateDb = {}
    /\ tenantDb = [o \in Owner |-> {}]
    /\ session = [o \in Owner |-> {}]
    /\ bundle = [n \in Command |-> NoBundle]
    /\ service = Down
    /\ cmd = Idle
    /\ commands = 0 /\ writes = 0 /\ faults = 0
    /\ last = "none"
    /\ before = [db |-> {}, session |-> {}]

-----------------------------------------------------------------------------
(* The service.                                                            *)

\* No command holds the runtime lock: a start beside one is up to the operator.
StartService ==
    /\ service = Down
    /\ StartsBeside \/ cmd.op \in {"none", "backup"}
    /\ service' = secret
    /\ UNCHANGED <<files, bundle, cmd, bounds, last, before>>

StopService ==
    /\ service # Down
    /\ service' = Down
    /\ UNCHANGED <<files, bundle, cmd, bounds, last, before>>

Sealed(o) == [of |-> writes + 1, owner |-> o, key |-> service]

\* A pending change or a snapshot.
WriteRow(o) ==
    /\ service # Down
    /\ writes < MaxWrites
    /\ tenantDb' = [tenantDb EXCEPT ![o] = @ \cup {Sealed(o)}]
    /\ writes' = writes + 1
    /\ UNCHANGED <<secret, stateDb, session, bundle, service, cmd, commands, faults, last, before>>

\* SessionStore.save
SaveSession(o) ==
    /\ service # Down
    /\ writes < MaxWrites
    /\ session' = [session EXCEPT ![o] = {Sealed(o)}]
    /\ writes' = writes + 1
    /\ UNCHANGED <<secret, stateDb, tenantDb, bundle, service, cmd, commands, faults, last, before>>

\* SessionStore.remove
RemoveSession(o) ==
    /\ service # Down
    /\ session' = [session EXCEPT ![o] = {}]
    /\ UNCHANGED <<secret, stateDb, tenantDb, bundle, service, cmd, bounds, last, before>>

-----------------------------------------------------------------------------
(* A command: its start, createRuntimeBackup, and its end.                 *)

\* A process that loads the configuration; only restore and rotate-key look
\* for a running service (assertRuntimeStopped), once.
Begin(op, o, source) ==
    /\ cmd.op = "none"
    /\ commands < MaxCommands
    /\ op # "backup" => service = Down
    /\ commands' = commands + 1
    /\ cmd' = [Idle EXCEPT !.op = op, !.at = "copyDb", !.owner = o, !.source = source,
                           !.key = secret]
    /\ before' = [db |-> stateDb, session |-> session[Primary]]
    /\ UNCHANGED <<files, bundle, service, writes, faults, last>>

\* "admin backup --owner o" opens the database of that tenant.
BeginBackup(o) == Begin("backup", o, 0)

\* verifyBackup: a bundle with its manifest.
BeginRestore(n) == bundle[n].sealed /\ Begin("restore", Primary, n)

BeginRotation == Begin("rotate", Primary, 0)

GoTo(step) == cmd' = [cmd EXCEPT !.at = step]

End(how) == cmd' = Idle /\ last' = how

CopyDb ==
    /\ cmd.at = "copyDb"
    /\ bundle' = [bundle EXCEPT ![commands].db =
                    IF cmd.op = "backup" THEN tenantDb[cmd.owner] ELSE stateDb]
    /\ GoTo("copySession")
    /\ UNCHANGED <<files, service, bounds, last, before>>

CopySession ==
    /\ cmd.at = "copySession"
    /\ bundle' = [bundle EXCEPT ![commands].session = session[Primary]]
    /\ GoTo("seal")
    /\ UNCHANGED <<files, service, bounds, last, before>>

\* Mutant: the recovery bundle is made like a regular one.
MutantNoKey == {}

\* includeEncryptionKey
BundledKey == IF cmd.op = "backup" THEN {} ELSE {cmd.key}

\* The recovery key, the digests, and backup.json last.
Seal ==
    /\ cmd.at = "seal"
    /\ bundle' = [bundle EXCEPT ![commands].key = BundledKey, ![commands].sealed = TRUE]
    /\ \/ cmd.op = "backup"  /\ End("backed_up")
       \/ cmd.op = "restore" /\ GoTo("installDb") /\ UNCHANGED last
       \/ cmd.op = "rotate"  /\ GoTo("load") /\ UNCHANGED last
    /\ UNCHANGED <<files, service, bounds, before>>

-----------------------------------------------------------------------------
(* installBackupFiles, of the source of a restore or of the bundle a       *)
(* failing command made: the database is renamed into place, then the      *)
(* session file is, or is removed when the bundle has none.                *)

InstallDb ==
    /\ cmd.at = "installDb"
    /\ stateDb' = bundle[cmd.source].db
    /\ GoTo("installSession")
    /\ UNCHANGED <<secret, tenantDb, session, bundle, service, bounds, last, before>>

InstallSession ==
    /\ cmd.at = "installSession"
    /\ session' = [session EXCEPT ![Primary] = bundle[cmd.source].session]
    /\ IF bundle[cmd.source].key = {} THEN End("restored") ELSE GoTo("installKey") /\ UNCHANGED last
    /\ UNCHANGED <<secret, stateDb, tenantDb, bundle, service, bounds, before>>

UndoDb ==
    /\ cmd.at = "undoDb"
    /\ stateDb' = bundle[commands].db
    /\ GoTo("undoSession")
    /\ UNCHANGED <<secret, tenantDb, session, bundle, service, bounds, last, before>>

\* Mutant: a bundle without a session leaves the present one in place.
MutantUndoSession ==
    /\ cmd.at = "undoSession"
    /\ session' = IF bundle[commands].session = {} THEN session
                  ELSE [session EXCEPT ![Primary] = bundle[commands].session]
    /\ End("error")
    /\ UNCHANGED <<secret, stateDb, tenantDb, bundle, service, bounds, before>>

UndoSession ==
    /\ cmd.at = "undoSession"
    /\ session' = [session EXCEPT ![Primary] = bundle[commands].session]
    /\ End("error")
    /\ UNCHANGED <<secret, stateDb, tenantDb, bundle, service, bounds, before>>

-----------------------------------------------------------------------------
(* What changes a key.  atomicPrivateWrite and SessionStore.save rename a  *)
(* file into place and then set its mode: an error after the rename is an  *)
(* error with the file replaced.                                           *)

\* The step is done; an I/O error in its last call sends the command to its catch.
Done(next) ==
    \/ next /\ UNCHANGED faults
    \/ faults < MaxFaults /\ faults' = faults + 1 /\ GoTo("undoDb") /\ UNCHANGED last

InstallKey ==
    /\ cmd.at = "installKey"
    /\ secret' \in bundle[cmd.source].key
    /\ Done(End("restored"))
    /\ UNCHANGED <<stateDb, tenantDb, session, bundle, service, commands, writes, before>>

Under(k, f) == {[c EXCEPT !.key = k] : c \in f}

\* AES-GCM with the owner in the associated data.
Opens(k, o, f) == \A c \in f : c.key = k /\ c.owner = o

\* The session is decrypted before the try: an error ends the command.
Load ==
    /\ cmd.at = "load"
    /\ IF Opens(cmd.key, Primary, session[Primary])
       THEN cmd' = [cmd EXCEPT !.at = "rows", !.loaded = session[Primary]] /\ UNCHANGED last
       ELSE End("error")
    /\ UNCHANGED <<files, bundle, service, bounds, before>>

\* AppDatabase.rotateEncryptionKey: decrypts everything, then one transaction.
Rows ==
    /\ cmd.at = "rows"
    /\ IF Opens(cmd.key, Primary, stateDb)
       THEN stateDb' = Under(commands, stateDb) /\ GoTo("save")
       ELSE UNCHANGED stateDb /\ GoTo("undoDb")
    /\ UNCHANGED <<secret, tenantDb, session, bundle, service, bounds, last, before>>

Save ==
    /\ cmd.at = "save"
    /\ session' = IF cmd.loaded = {} THEN session
                  ELSE [session EXCEPT ![Primary] = Under(commands, cmd.loaded)]
    /\ Done(GoTo("writeKey") /\ UNCHANGED last)
    /\ UNCHANGED <<secret, stateDb, tenantDb, bundle, service, commands, writes, before>>

\* writeConfiguredSecret
WriteKey ==
    /\ cmd.at = "writeKey"
    /\ secret' = commands
    /\ Done(End("key_rotated"))
    /\ UNCHANGED <<stateDb, tenantDb, session, bundle, service, commands, writes, before>>

-----------------------------------------------------------------------------
(* What goes wrong.                                                        *)

\* The steps inside the try blocks.
InTry == {"installDb", "installSession", "installKey", "rows", "save", "writeKey"}

\* An I/O error before the step's effect: createRuntimeBackup removes its
\* directory, the try blocks put the files back, the rest just ends.
Fault ==
    /\ cmd.at # "idle"
    /\ faults < MaxFaults
    /\ faults' = faults + 1
    /\ \/ /\ cmd.at \in {"copyDb", "copySession", "seal"}
          /\ bundle' = [bundle EXCEPT ![commands] = NoBundle] /\ End("error")
       \/ cmd.at = "load" /\ End("error") /\ UNCHANGED bundle
       \/ cmd.at \in {"undoDb", "undoSession"} /\ End("torn") /\ UNCHANGED bundle
       \/ cmd.at \in InTry /\ GoTo("undoDb") /\ UNCHANGED <<bundle, last>>
    /\ UNCHANGED <<files, service, commands, writes, before>>

\* The command's process dies.
Crash ==
    /\ cmd.at # "idle"
    /\ End("crashed")
    /\ UNCHANGED <<files, bundle, service, bounds, before>>

-----------------------------------------------------------------------------
ServiceNext ==
    \/ StartService \/ StopService
    \/ \E o \in Owner : WriteRow(o) \/ SaveSession(o) \/ RemoveSession(o)

CommandNext ==
    \/ \E o \in Owner : BeginBackup(o)
    \/ \E n \in Command : BeginRestore(n)
    \/ BeginRotation
    \/ CopyDb \/ CopySession \/ Seal
    \/ InstallDb \/ InstallSession \/ InstallKey
    \/ Load \/ Rows \/ Save \/ WriteKey
    \/ UndoDb \/ UndoSession
    \/ Fault \/ Crash

Next == ServiceNext \/ CommandNext

Spec == Init /\ [][Next]_vars

-----------------------------------------------------------------------------
(* Properties                                                              *)

Live == stateDb \cup UNION {tenantDb[o] \cup session[o] : o \in Owner}

Recovery == {n \in Command : bundle[n].sealed /\ bundle[n].key # {}}

\* The keys somebody still has: the configured one, those in bundles, and
\* the one the service works with.
KnownKeys == {secret} \cup UNION {bundle[n].key : n \in Recovery}

\* Whatever fails or dies at whatever moment, nothing in the data directory is
\* sealed for ever: its key is configured or in a sealed bundle, or such a
\* bundle holds the same thing under its own key (rotateEncryptionKey draws a
\* key that lives in memory until its last step; restoreRuntimeBackup replaces
\* the configured one).
Recoverable ==
    \A c \in Live :
        \/ c.key \in KnownKeys
        \/ \E n \in Recovery : \E d \in bundle[n].db \cup bundle[n].session :
              d.of = c.of /\ d.key \in KnownKeys

Ends == cmd.op # "none" /\ cmd'.op = "none"

FailedKeepsFiles ==
    Ends /\ cmd.op # "backup" /\ last' = "error" =>
        stateDb' = before.db /\ session'[Primary] = before.session

RotatedIsReadable ==
    Ends /\ last' = "key_rotated" =>
        Opens(secret', Primary, stateDb' \cup session'[Primary])

\* A restore or a rotation that reports an error, undone without a further one,
\* has changed neither file of the primary owner; a rotation that reports success
\* leaves both readable with the key that is then configured (the catch blocks
\* of restoreRuntimeBackup and rotateEncryptionKey).
ReportIsTrue == [][FailedKeepsFiles /\ RotatedIsReadable]_vars

\* "Key rotation re-encrypts the session, pending changes, and snapshots": when
\* it succeeded, those of every owner can be read with the new key.
RotationReaches ==
    [][Ends /\ last' = "key_rotated" =>
          \A o \in Owner : Opens(secret', o, tenantDb'[o] \cup session'[o])]_vars
=============================================================================
