---------------------------- MODULE ConfirmStore ----------------------------
(***************************************************************************)
(* The change store of one owner: the pending_changes rows and the audit   *)
(* trail in SQLite, which outlive a process, and the ChangeStore object of *)
(* each process that serves the owner, with its local target locks, its    *)
(* count of active confirms and its part in a graceful shutdown.           *)
(*                                                                         *)
(* JavaScript runs each synchronous stretch of a handler to the end, so an *)
(* action is one stretch between two awaits.  What breaks such a stretch   *)
(* is a failing audit INSERT (`logged' FALSE) or the death of the process  *)
(* (Crash); a crash between a row's UPDATE and its audit INSERT leaves     *)
(* what a failed INSERT followed by a crash leaves.                        *)
(*                                                                         *)
(* A request whose digest, deletion flag, confirmation text, schema or     *)
(* owner is wrong throws before it changes anything: it is a stuttering    *)
(* step.  Confirm is a request that passed them.                           *)
(***************************************************************************)
EXTENDS Integers, Sequences, FiniteSets

CONSTANTS
    Change,         \* change tokens (random UUIDs)
    Target,         \* lock keys, numbered in the order of Array.sort
    Process,        \* lives of the service on one data directory
    TargetsOf,      \* the lock keys of each change
    EnabledProcess, \* processes configured best_effort, kill switch off
    Results,        \* how an execution may come back (a subset of AnyResult)
    AuditFaults,    \* TRUE: an INSERT into audit_events may fail or be lost
    OnlineBackup    \* TRUE: an operator may run "admin backup" beside the service

VARIABLES
    state,          \* durable: pending_changes.state
    expired,        \* durable: tokens past expires_at
    trail,          \* durable: states of a token's audit_events, in order
    phase,          \* the life of each process
    store,          \* its ChangeStore for this owner: "none", "open", "closed"
    accepting,      \* its acceptingConfirms
    active,         \* its activeConfirms
    queue,          \* its targetLocks: per key the confirms waiting or inside
    watched,        \* its waitForIdle found this store in the tenant map
    drained,        \* its writesDrained
    server,         \* the process a confirm runs in
    pc,             \* where the confirm of a token is
    held,           \* the local target locks it has entered
    result,         \* what its execution came back with
    ran             \* history: tokens whose execute() was called

rowVars  == <<state, expired, trail>>
procVars == <<phase, store, accepting, watched, drained>>
lockVars == <<queue, held>>
callVars == <<server, pc, result, ran>>
vars == <<rowVars, procVars, active, lockVars, callVars>>

-----------------------------------------------------------------------------
Outcome  == {"succeeded", "unknown", "failed", "conflict", "partial"}
Terminal == Outcome \cup {"cancelled"}
State    == {"absent", "previewed", "executing"} \cup Terminal

\* execute() returns a state of its own or throws; the class of the error
\* decides the state.
AnyResult ==
    [thrown: {FALSE}, as: Outcome \ {"failed"}]
        \cup [thrown: {TRUE}, as: Outcome \ {"succeeded"}]

NoProcess == "none"
NoResult  == [thrown |-> FALSE, as |-> "failed"]

Phase == {"down", "running", "draining", "waiting", "stopping", "closed", "crashed"}
Step  == {"idle", "waiting", "executing", "unwinding", "finishing"}

ASSUME TargetAssumption == Target \subseteq Nat
ASSUME TargetsOfAssumption == TargetsOf \in [Change -> (SUBSET Target) \ {{}}]
ASSUME ProcessAssumption == EnabledProcess \subseteq Process /\ NoProcess \notin Process
ASSUME ResultsAssumption == Results \subseteq AnyResult
ASSUME AuditAssumption == AuditFaults \in BOOLEAN
ASSUME BackupAssumption == OnlineBackup \in BOOLEAN

TypeOK ==
    /\ state \in [Change -> State]
    /\ expired \in SUBSET Change
    /\ trail \in [Change -> Seq(State)]
    /\ phase \in [Process -> Phase]
    /\ store \in [Process -> {"none", "open", "closed"}]
    /\ accepting \in [Process -> BOOLEAN]
    /\ active \in [Process -> Int]
    /\ queue \in [Process -> [Target -> Seq(Change)]]
    /\ watched \in [Process -> BOOLEAN]
    /\ drained \in [Process -> BOOLEAN]
    /\ server \in [Change -> Process \cup {NoProcess}]
    /\ pc \in [Change -> Step]
    /\ held \in [Change -> SUBSET Target]
    /\ result \in [Change -> Results \cup {NoResult}]
    /\ ran \in SUBSET Change

Init ==
    /\ state = [c \in Change |-> "absent"]
    /\ expired = {}
    /\ trail = [c \in Change |-> <<>>]
    /\ phase = [p \in Process |-> "down"]
    /\ store = [p \in Process |-> "none"]
    /\ accepting = [p \in Process |-> FALSE]
    /\ active = [p \in Process |-> 0]
    /\ queue = [p \in Process |-> [t \in Target |-> <<>>]]
    /\ watched = [p \in Process |-> FALSE]
    /\ drained = [p \in Process |-> FALSE]
    /\ server = [c \in Change |-> NoProcess]
    /\ pc = [c \in Change |-> "idle"]
    /\ held = [c \in Change |-> {}]
    /\ result = [c \in Change |-> NoResult]
    /\ ran = {}

-----------------------------------------------------------------------------
(* The life of a process: runtime lock, tenant, shutdown.                  *)

\* service.lock is held from main() to the end of stop(); a dead holder's
\* lock is taken over.
HoldsRuntimeLock(p) == phase[p] \in {"running", "draining", "waiting", "stopping"}

Start(p) ==
    /\ phase[p] = "down"
    /\ \A q \in Process : ~HoldsRuntimeLock(q)
    /\ phase' = [phase EXCEPT ![p] = "running"]
    /\ UNCHANGED <<rowVars, store, accepting, watched, drained, active, lockVars, callVars>>

\* What the INSERT that ends a stretch may do.
Logged == {TRUE} \cup {~AuditFaults}

Append1(c, s, logged) ==
    trail' = IF logged THEN [trail EXCEPT ![c] = Append(@, s)] ELSE trail

Interrupted == {c \in Change : state[c] = "executing"}

\* Mutants: the rows are left alone or made confirmable again.
MutantRecoverNothing == UNCHANGED state
MutantRecoverPreview ==
    state' = [c \in Change |-> IF c \in Interrupted THEN "previewed" ELSE state[c]]

\* markInterruptedChangesUnknown.
WriteOffInterrupted ==
    state' = [c \in Change |-> IF c \in Interrupted THEN "unknown" ELSE state[c]]

\* The constructor of ChangeStore: the rows, then one audit event for each.
WriteOff(audited) ==
    /\ WriteOffInterrupted
    /\ audited \in SUBSET Interrupted
    /\ AuditFaults \/ audited = Interrupted
    /\ trail' = [c \in Change |->
                    IF c \in audited THEN Append(trail[c], "unknown") ELSE trail[c]]

(* The first request of the owner builds the store, which writes off what  *)
(* an earlier process left executing.  A request that passed the draining  *)
(* check before the shutdown may do so during it.  When an audit INSERT    *)
(* fails the constructor throws and a later request builds the store anew. *)
OpenTenant(p) ==
    /\ HoldsRuntimeLock(p)
    /\ store[p] = "none"
    /\ \E audited \in SUBSET Interrupted :
        /\ WriteOff(audited)
        /\ IF audited = Interrupted
           THEN /\ store' = [store EXCEPT ![p] = "open"]
                /\ accepting' = [accepting EXCEPT ![p] = TRUE]
           ELSE UNCHANGED <<store, accepting>>
    /\ UNCHANGED <<expired, phase, watched, drained, active, lockVars, callVars>>

(* "admin backup" is a process of its own that does not ask for the        *)
(* runtime lock: its getTenant builds a ChangeStore on the same file.      *)
Backup ==
    /\ OnlineBackup \/ \A p \in Process : ~HoldsRuntimeLock(p)
    /\ \E audited \in SUBSET Interrupted : WriteOff(audited)
    /\ UNCHANGED <<expired, procVars, active, lockVars, callVars>>

\* Only the stores in the tenant map stop accepting.
BeginShutdown(p) ==
    /\ phase[p] = "running"
    /\ phase' = [phase EXCEPT ![p] = "draining"]
    /\ accepting' = [accepting EXCEPT ![p] = FALSE]
    /\ UNCHANGED <<rowVars, store, watched, drained, active, lockVars, callVars>>

\* After login.shutdown(): waitForIdle looks at the tenant map once.
WaitForIdle(p) ==
    /\ phase[p] = "draining"
    /\ phase' = [phase EXCEPT ![p] = "waiting"]
    /\ watched' = [watched EXCEPT ![p] = store[p] = "open"]
    /\ UNCHANGED <<rowVars, store, accepting, drained, active, lockVars, callVars>>

\* Idle, or past the deadline; the answer is whether activeConfirms is 0.
StopWaiting(p) ==
    /\ phase[p] = "waiting"
    /\ phase' = [phase EXCEPT ![p] = "stopping"]
    /\ drained' = [drained EXCEPT ![p] = watched[p] => active[p] = 0]
    /\ UNCHANGED <<rowVars, store, accepting, watched, active, lockVars, callVars>>

\* app.close() closes the database under whatever still runs, then the
\* runtime lock goes; the event loop keeps running until its work is done.
Close(p) ==
    /\ phase[p] = "stopping"
    /\ phase' = [phase EXCEPT ![p] = "closed"]
    /\ store' = [store EXCEPT ![p] = "closed"]
    /\ UNCHANGED <<rowVars, accepting, watched, drained, active, lockVars, callVars>>

Confirms(p) == {c \in Change : server[c] = p}

\* The process dies; a "closed" one may also just exit.
Crash(p) ==
    /\ phase[p] \notin {"down", "crashed"}
    /\ phase' = [phase EXCEPT ![p] = "crashed"]
    /\ store' = [store EXCEPT ![p] = "closed"]
    /\ accepting' = [accepting EXCEPT ![p] = FALSE]
    /\ active' = [active EXCEPT ![p] = 0]
    /\ queue' = [queue EXCEPT ![p] = [t \in Target |-> <<>>]]
    /\ held' = [c \in Change |-> IF c \in Confirms(p) THEN {} ELSE held[c]]
    /\ pc' = [c \in Change |-> IF c \in Confirms(p) THEN "idle" ELSE pc[c]]
    /\ result' = [c \in Change |-> IF c \in Confirms(p) THEN NoResult ELSE result[c]]
    /\ server' = [c \in Change |-> IF c \in Confirms(p) THEN NoProcess ELSE server[c]]
    /\ UNCHANGED <<rowVars, watched, drained, ran>>

-----------------------------------------------------------------------------
(* The tools on a token.                                                   *)

\* savePreview: the row, then its audit event.
Preview(p, c) ==
    /\ store[p] = "open"
    /\ state[c] = "absent"
    /\ state' = [state EXCEPT ![c] = "previewed"]
    /\ \E logged \in Logged : Append1(c, "previewed", logged)
    /\ UNCHANGED <<expired, procVars, active, lockVars, callVars>>

\* changeTtlSeconds pass.
Expire(c) ==
    /\ state[c] = "previewed"
    /\ c \notin expired
    /\ expired' = expired \cup {c}
    /\ UNCHANGED <<state, trail, procVars, active, lockVars, callVars>>

\* cancel: UPDATE ... WHERE state = 'previewed', audited when it hit the row.
Cancel(p, c) ==
    /\ store[p] = "open"
    /\ state[c] = "previewed"
    /\ state' = [state EXCEPT ![c] = "cancelled"]
    /\ \E logged \in Logged : Append1(c, "cancelled", logged)
    /\ UNCHANGED <<expired, procVars, active, lockVars, callVars>>

\* The keys are taken in sorted order, one inside the other.
MutantAnyNext(t, S) == t \in S  \* mutant: in the order of the payload
IsNext(t, S) == t \in S /\ \A u \in S : t <= u
IsLast(t, S) == t \in S /\ \A u \in S : u <= t

Enqueue(p, t, c) == queue' = [queue EXCEPT ![p][t] = Append(@, c)]

\* Mutant: the shutdown is not looked at.
MutantAlwaysAccepts(p, c) ==
    /\ store[p] = "open"
    /\ p \in EnabledProcess
    /\ state[c] = "previewed"
    /\ c \notin expired

\* Mutant: the row is looked up but its state is not checked.
MutantAnyState(p, c) ==
    /\ store[p] = "open"
    /\ accepting[p]
    /\ p \in EnabledProcess
    /\ state[c] # "absent"
    /\ pc[c] = "idle"
    /\ Len(trail[c]) < 4
    /\ c \notin expired

\* The checks of confirmChange on the service and the token.
Accepts(p, c) ==
    /\ store[p] = "open"
    /\ accepting[p]
    /\ p \in EnabledProcess
    /\ state[c] = "previewed"
    /\ c \notin expired

(* confirmChange up to its first await: claim the row, audit it, count it, *)
(* queue up for the first key.  The audit call stands before the counter   *)
(* and outside the try: when it fails the request is over and the row      *)
(* stays "executing".                                                      *)
Confirm(p, c) ==
    /\ Accepts(p, c)
    /\ state' = [state EXCEPT ![c] = "executing"]
    /\ \E logged \in Logged :
        /\ Append1(c, "executing", logged)
        /\ IF logged
           THEN /\ active' = [active EXCEPT ![p] = @ + 1]
                /\ pc' = [pc EXCEPT ![c] = "waiting"]
                /\ server' = [server EXCEPT ![c] = p]
                /\ \E t \in Target : IsNext(t, TargetsOf[c]) /\ Enqueue(p, t, c)
           ELSE UNCHANGED <<active, pc, server, queue>>
    /\ UNCHANGED <<expired, procVars, held, result, ran>>

-----------------------------------------------------------------------------
(* A confirm under way.  It needs no open store until it records its end.  *)

\* The keys a confirm has yet to enter.
Wanted(c) == TargetsOf[c] \ held[c]

\* await previous
MutantNoWait(p, t, c) == c \in {queue[p][t][i] : i \in DOMAIN queue[p][t]}
Granted(p, t, c) == queue[p][t] # <<>> /\ Head(queue[p][t]) = c

\* withTargetLock: the predecessor's promise resolved; go in, then queue up
\* for the next key, or call execute() under the last one.
Enter(c) ==
    /\ pc[c] = "waiting"
    /\ LET p == server[c]
           wanted == Wanted(c)
       IN  \E t \in wanted :
            /\ Granted(p, t, c)
            /\ held' = [held EXCEPT ![c] = @ \cup {t}]
            /\ IF wanted = {t}
               THEN /\ pc' = [pc EXCEPT ![c] = "executing"]
                    /\ ran' = ran \cup {c}
                    /\ UNCHANGED queue
               ELSE /\ \E u \in wanted : IsNext(u, wanted \ {t}) /\ Enqueue(p, u, c)
                    /\ UNCHANGED <<pc, ran>>
    /\ UNCHANGED <<rowVars, procVars, active, server, result>>

\* execute() comes back; its remote steps are in the modules of its kinds.
Return(c) ==
    /\ pc[c] = "executing"
    /\ \E r \in Results : result' = [result EXCEPT ![c] = r]
    /\ pc' = [pc EXCEPT ![c] = "unwinding"]
    /\ UNCHANGED <<rowVars, procVars, active, lockVars, server, ran>>

\* release(), and the map entry goes with the last waiter.
Release(p, t, c) == queue' = [queue EXCEPT ![p][t] = Tail(@)]

\* The finally blocks release the keys from the inside out, each its own
\* microtask, all of them before the row is updated.
Unwind(c) ==
    /\ pc[c] = "unwinding"
    /\ \E t \in held[c] :
        /\ IsLast(t, held[c])
        /\ Release(server[c], t, c)
        /\ held' = [held EXCEPT ![c] = @ \ {t}]
        /\ pc' = [pc EXCEPT ![c] = IF held[c] = {t} THEN "finishing" ELSE @]
    /\ UNCHANGED <<rowVars, procVars, active, server, result, ran>>

\* Mutant: an UPDATE without the states it may start from.
MutantConcludeAny(st, c, s) == [st EXCEPT ![c] = s]

\* transitionPendingChange(token, ["executing"], s), on the rows st.
Conclude(st, c, s) == IF st[c] = "executing" THEN [st EXCEPT ![c] = s] ELSE st

(* The end of the try block, or its catch.  When the audit INSERT of a     *)
(* returned state fails, the catch takes the INSERT's error for a failure  *)
(* of the change: its UPDATE finds the row no longer "executing", its      *)
(* audit call succeeds or fails on its own.  A closed database throws at   *)
(* each of these calls.                                                    *)
Record(c, r) ==
    \E logged \in Logged :
        IF r.thrown \/ logged
        THEN /\ state' = Conclude(state, c, r.as)
             /\ Append1(c, r.as, logged)
        ELSE /\ state' = Conclude(Conclude(state, c, r.as), c, "failed")
             /\ \E again \in Logged : Append1(c, "failed", again)

Finish(c) ==
    /\ pc[c] = "finishing"
    /\ LET p == server[c]
       IN  /\ IF store[p] = "open" THEN Record(c, result[c]) ELSE UNCHANGED <<state, trail>>
           /\ active' = [active EXCEPT ![p] = @ - 1]
    /\ pc' = [pc EXCEPT ![c] = "idle"]
    /\ server' = [server EXCEPT ![c] = NoProcess]
    /\ result' = [result EXCEPT ![c] = NoResult]
    /\ UNCHANGED <<expired, procVars, lockVars, ran>>

-----------------------------------------------------------------------------
ProcessNext(p) ==
    \/ Start(p) \/ OpenTenant(p) \/ Crash(p)
    \/ BeginShutdown(p) \/ WaitForIdle(p) \/ StopWaiting(p) \/ Close(p)

RequestNext(c) ==
    \/ Expire(c)
    \/ \E p \in Process : Preview(p, c) \/ Cancel(p, c) \/ Confirm(p, c)

CallNext(c) == Enter(c) \/ Return(c) \/ Unwind(c) \/ Finish(c)

Next ==
    \/ Backup
    \/ \E p \in Process : ProcessNext(p)
    \/ \E c \in Change : RequestNext(c) \/ CallNext(c)

Spec == Init /\ [][Next]_vars

(* A promise that can run does run, and every remote call comes back: the  *)
(* its headers are timed by the client, its body by the HTTP library.      *)
(* Nothing obliges a client to confirm, a process to start, stop or die.   *)
Fairness == \A c \in Change : WF_vars(CallNext(c))

FairSpec == Spec /\ Fairness

-----------------------------------------------------------------------------
(* Properties                                                              *)

Begun == {"executing"} \cup Outcome

\* A change is begun only when its token is confirmed, and a change that runs
\* was begun: neither a cancelled nor an unconfirmed token ever reaches
\* execute(), whatever races with the confirm (confirmChange, cancel).
OnlyConfirmedRun == \A c \in ran : state[c] \in Begun

\* execute() is called at most once per token over all processes and
\* restarts: a call starts only for a token that never ran (the one-shot
\* token of confirmChange and markInterruptedChangesUnknown).
RunsOnce == [][\A c \in Change : pc[c] # "executing" /\ pc'[c] = "executing" => c \notin ran]_vars

\* A change that is over stays as it ended: a late completion, the catch
\* after a failed audit, a cancel or a restart cannot rewrite the row.
TerminalStays == [][\A c \in Change : state[c] \in Terminal => state'[c] = state[c]]_vars

\* What execute() came back with is what the row of a token that is still
\* executing records, also when its audit INSERT fails (confirmChange).
OutcomeKept ==
    [][\A c \in Change :
          /\ pc[c] = "finishing" /\ pc'[c] = "idle"
          /\ store[server[c]] = "open" /\ store'[server[c]] = "open"
          /\ state[c] = "executing"
          => state'[c] = result[c].as]_vars

Inside(p, t) == {c \in Confirms(p) : t \in held[c]}

TargetExclusion ==
    \A p \in Process, t \in Target : \A c, d \in Inside(p, t) : c = d

RunsUnderAllLocks == \A c \in Change : pc[c] = "executing" => held[c] = TargetsOf[c]

\* c waits for d: d is ahead of it in the queue of the key it wants next.
WaitsFor(c, d) ==
    /\ pc[c] = "waiting"
    /\ \E t \in Wanted(c) :
        /\ IsNext(t, Wanted(c))
        /\ LET q == queue[server[c]][t]
           IN  \E i, j \in DOMAIN q : i < j /\ q[i] = d /\ q[j] = c

\* No circle of waiting, and no waiting but for another confirm.
NoDeadlock ==
    /\ \A S \in SUBSET Change : S # {} /\ IsFiniteSet(S) =>
          \E c \in S : \A d \in S : ~WaitsFor(c, d)
    /\ \A c, d \in Change : WaitsFor(c, d) => pc[d] # "idle" /\ server[d] = server[c]
    /\ \A c \in Change : pc[c] = "waiting" =>
          \/ \E d \in Change : WaitsFor(c, d)
          \/ \E t \in Wanted(c) : Granted(server[c], t, c)

\* The local locks serialize without a deadlock (withTargetLocks, withTargetLock).
\* Two confirms of one process that share a lock key are never inside it
\* together, and execute() runs under every key of its change, so a multi-target
\* change excludes each change of one of its tables and books.  No circle of
\* confirms wait for each other: of any confirms one waits for none of the
\* others, whatever keys they share; and who is waited for is a confirm under
\* way in the same process, so the waiting ends with it; and who waits for
\* nobody is let in.
LocksSound == TargetExclusion /\ RunsUnderAllLocks /\ NoDeadlock

ActiveCounts == \A p \in Process : active[p] = Cardinality(Confirms(p))

\* A shutdown that reported writesDrained for a store it had told to stop
\* accepting closes the database under no confirm (beginShutdown, waitForIdle).
DrainedMeansIdle ==
    \A p \in Process :
        phase[p] = "closed" /\ watched[p] /\ drained[p] /\ ~accepting[p] =>
            Confirms(p) = {}

ExecutingIsOwned ==
    \A p \in Process : HoldsRuntimeLock(p) /\ store[p] = "open" =>
        \A c \in Change :
            state[c] = "executing" /\ "executing" \in {trail[c][i] : i \in DOMAIN trail[c]} =>
                server[c] = p

TrailSound ==
    \A c \in Change : \A i \in DOMAIN trail[c] :
        /\ trail[c][i] \in Terminal \ {"failed"} => state[c] = trail[c][i]
        /\ trail[c][i] \in Outcome => state[c] \in Outcome

\* What the service goes by and shows is true on every path, failing audit
\* INSERTs included: activeConfirms counts the confirms under way (waitForIdle,
\* metrics); an "executing" row whose claim was audited is being executed by the
\* process that serves the owner, so a restart leaves none behind and readiness
\* recovers (markInterruptedChangesUnknown); an audited end other than "failed"
\* is the one the row records, and only a confirmed change has one.
RecordsAreTrue == ActiveCounts /\ ExecutingIsOwned /\ TrailSound

\* A confirm under way comes to its end: sorted acquisition leaves no circle
\* of confirms waiting for each other's keys, and the chain of promises on a
\* key wakes every waiter (withTargetLocks, withTargetLock).
ConfirmsEnd == \A c \in Change : pc[c] # "idle" ~> pc[c] = "idle"

\* Every token keeps the promise of ChangeLifecycle.
Life == INSTANCE ChangeLifecycle WITH Change <- Change, state <- state, ran <- ran
LifeSpec == Life!LifeSpec
=============================================================================
