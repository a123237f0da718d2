------------------------- MODULE ConfirmStoreProofs -------------------------
(***************************************************************************)
(* Proofs about ConfirmStore, for any set of changes, lock keys and lives  *)
(* of the service, with and without failing audit INSERTs.                 *)
(*                                                                         *)
(* The inductive invariant says where a confirm may be: it has a process   *)
(* exactly while it is under way, its row was claimed before, it holds a   *)
(* part of its keys and heads the queue of each key it holds, and it has   *)
(* not run as long as it waits.                                            *)
(***************************************************************************)
EXTENDS ConfirmStore, FiniteSetTheorems, WellFoundedInduction, TLAPS

\* The rows of the confirms under way: a later process may have written one off.
Claimed == {"executing", "unknown"}

\* A confirm under way runs in one process and its row was claimed.
CallOK ==
    \A c \in Change :
        /\ pc[c] = "idle" <=> server[c] = NoProcess
        /\ pc[c] # "idle" => state[c] \in Claimed

\* The keys a confirm has entered, by the step it is at.
HeldOK ==
    \A c \in Change :
        /\ held[c] \subseteq TargetsOf[c]
        /\ pc[c] \in {"idle", "finishing"} => held[c] = {}
        /\ pc[c] = "executing" => held[c] = TargetsOf[c]

\* Who has entered a key is at the head of its queue.
HolderFirst ==
    \A c \in Change : \A t \in held[c] :
        /\ server[c] \in Process
        /\ queue[server[c]][t] # <<>>
        /\ Head(queue[server[c]][t]) = c

\* Only a claimed row has run, and a waiting confirm has not run yet.
RanOK ==
    /\ \A c \in ran : state[c] \in Begun
    /\ \A c \in Change : pc[c] = "waiting" => c \notin ran

IInv == TypeOK /\ CallOK /\ HeldOK /\ HolderFirst /\ RanOK

USE DEF Outcome, Terminal, State, Begun, Claimed, Step, Phase

\* An empty database without processes satisfies the invariant.
LEMMA InitInv == Init => IInv
  BY TargetsOfAssumption, ProcessAssumption
  DEF Init, IInv, TypeOK, CallOK, HeldOK, HolderFirst, RanOK, NoProcess

\* What a call to the store may record is a state.
LEMMA ResultState ==
  ASSUME NEW r \in Results \cup {NoResult}
  PROVE  r.as \in Outcome
<1>1. CASE r = NoResult
  BY <1>1 DEF NoResult
<1>2. CASE r \in Results
  <2>1. r \in AnyResult
    BY <1>2, ResultsAssumption
  <2> QED BY <2>1 DEF AnyResult
<1> QED BY <1>1, <1>2

\* A process that starts takes no call, key or row with it.
LEMMA StartStep ==
  ASSUME IInv, NEW p \in Process, Start(p)
  PROVE  IInv'
  BY DEF Start, IInv, TypeOK, CallOK, HeldOK, HolderFirst, RanOK, rowVars, lockVars, callVars

\* Writing off ends every executing row as unknown.
LEMMA WriteOffFacts ==
  ASSUME IInv, NEW audited \in SUBSET Interrupted, WriteOff(audited)
  PROVE  /\ state' \in [Change -> State]
         /\ \A c \in Change : /\ state[c] \in Begun => state'[c] \in Begun
                              /\ state[c] \in Claimed => state'[c] \in Claimed
         /\ trail' \in [Change -> Seq(State)]
<1> USE DEF WriteOff, WriteOffInterrupted
<1>1. state' \in [Change -> State] /\ \A c \in Change : (state[c] \in Begun => state'[c] \in Begun)
                                         /\ (state[c] \in Claimed => state'[c] \in Claimed)
  BY DEF IInv, TypeOK, Interrupted
<1>2. trail' \in [Change -> Seq(State)]
  BY DEF IInv, TypeOK
<1> QED BY <1>1, <1>2

\* A store that opens writes off and begins to accept.
LEMMA OpenStep ==
  ASSUME IInv, NEW p \in Process, OpenTenant(p)
  PROVE  IInv'
<1> USE DEF OpenTenant, rowVars, procVars, lockVars, callVars
<1>1. store' \in [Process -> {"none", "open", "closed"}] /\ accepting' \in [Process -> BOOLEAN]
  BY DEF IInv, TypeOK
<1>2. PICK audited \in SUBSET Interrupted : WriteOff(audited)
  OBVIOUS
<1>3. /\ state' \in [Change -> State]
      /\ \A c \in Change : /\ state[c] \in Begun => state'[c] \in Begun
                           /\ state[c] \in Claimed => state'[c] \in Claimed
      /\ trail' \in [Change -> Seq(State)]
  BY <1>2, WriteOffFacts
<1>4. TypeOK'
  BY <1>1, <1>3 DEF IInv, TypeOK
<1> QED BY <1>3, <1>4 DEF IInv, TypeOK, CallOK, HeldOK, HolderFirst, RanOK

\* A backup writes off, also beside a confirm that goes on.
LEMMA BackupStep ==
  ASSUME IInv, Backup
  PROVE  IInv'
<1> USE DEF Backup, rowVars, procVars, lockVars, callVars
<1>1. PICK audited \in SUBSET Interrupted : WriteOff(audited)
  OBVIOUS
<1>2. /\ state' \in [Change -> State]
      /\ \A c \in Change : /\ state[c] \in Begun => state'[c] \in Begun
                           /\ state[c] \in Claimed => state'[c] \in Claimed
      /\ trail' \in [Change -> Seq(State)]
  BY <1>1, WriteOffFacts
<1>3. TypeOK'
  BY <1>2 DEF IInv, TypeOK
<1> QED BY <1>2, <1>3 DEF IInv, TypeOK, CallOK, HeldOK, HolderFirst, RanOK

\* Shutting down and expiring leave calls, keys and rows alone.
LEMMA QuietStep ==
  ASSUME IInv,
         \/ \E p \in Process : BeginShutdown(p) \/ WaitForIdle(p) \/ StopWaiting(p) \/ Close(p)
         \/ \E c \in Change : Expire(c)
  PROVE  IInv'
<1> USE DEF IInv, TypeOK, CallOK, HeldOK, HolderFirst, RanOK, rowVars, procVars, lockVars, callVars
<1>1. ASSUME NEW p \in Process, BeginShutdown(p) PROVE IInv'
  BY <1>1 DEF BeginShutdown
<1>2. ASSUME NEW p \in Process, WaitForIdle(p) PROVE IInv'
  BY <1>2 DEF WaitForIdle
<1>3. ASSUME NEW p \in Process, StopWaiting(p) PROVE IInv'
  BY <1>3 DEF StopWaiting
<1>4. ASSUME NEW p \in Process, Close(p) PROVE IInv'
  BY <1>4 DEF Close
<1>5. ASSUME NEW c \in Change, Expire(c) PROVE IInv'
  BY <1>5 DEF Expire
<1> QED BY <1>1, <1>2, <1>3, <1>4, <1>5

\* A process that dies leaves its rows as they are and frees its calls and keys.
LEMMA CrashStep ==
  ASSUME IInv, NEW p \in Process, Crash(p)
  PROVE  IInv'
<1> USE DEF Crash, Confirms, rowVars
<1>1. TypeOK'
  BY ProcessAssumption DEF IInv, TypeOK
<1>2. CallOK' /\ HeldOK' /\ RanOK'
  BY ProcessAssumption DEF IInv, TypeOK, CallOK, HeldOK, RanOK
<1>3. HolderFirst'
  BY DEF IInv, TypeOK, HolderFirst
<1> QED BY <1>1, <1>2, <1>3 DEF IInv

\* A token that is still previewed has no confirm under way and has not run.
LEMMA PreviewedIsIdle ==
  ASSUME IInv, NEW c \in Change, state[c] \in {"absent", "previewed"}
  PROVE  pc[c] = "idle" /\ server[c] = NoProcess /\ held[c] = {} /\ c \notin ran
  BY DEF IInv, TypeOK, CallOK, HeldOK, RanOK

\* An audit event is a state.
LEMMA TrailType ==
  ASSUME TypeOK, NEW c \in Change, NEW s \in State, NEW logged \in BOOLEAN, Append1(c, s, logged)
  PROVE  trail' \in [Change -> Seq(State)]
<1>1. trail[c] \in Seq(State) /\ trail \in [Change -> Seq(State)]
  BY DEF TypeOK
<1>2. Append(trail[c], s) \in Seq(State)
  BY <1>1
<1> QED BY <1>1, <1>2 DEF Append1

\* The errors an execution may report are Booleans.
LEMMA LoggedType == Logged \subseteq BOOLEAN
  BY AuditAssumption DEF Logged

\* A preview or a cancel keeps the invariant.
LEMMA TokenStep ==
  ASSUME IInv, NEW p \in Process, NEW c \in Change, Preview(p, c) \/ Cancel(p, c)
  PROVE  IInv'
<1>1. pc[c] = "idle" /\ c \notin ran /\ server[c] = NoProcess /\ held[c] = {}
  BY PreviewedIsIdle DEF Preview, Cancel
<1>2. state' \in [Change -> State] /\ \A d \in Change \ {c} : state'[d] = state[d]
  BY DEF Preview, Cancel, IInv, TypeOK
<1>3. trail' \in [Change -> Seq(State)]
  BY TrailType, LoggedType DEF Preview, Cancel, IInv
<1>4. UNCHANGED <<expired, procVars, active, lockVars, callVars>>
  BY DEF Preview, Cancel
<1>5. TypeOK'
  BY <1>2, <1>3, <1>4 DEF IInv, TypeOK, procVars, lockVars, callVars
<1>6. CallOK' /\ RanOK'
  BY <1>1, <1>2, <1>4 DEF IInv, TypeOK, CallOK, RanOK, callVars
<1>7. HeldOK' /\ HolderFirst'
  BY <1>4 DEF IInv, HeldOK, HolderFirst, lockVars, callVars
<1> QED BY <1>5, <1>6, <1>7 DEF IInv

\* Queueing up behind a key leaves its head where it was.
LEMMA EnqueueFacts ==
  ASSUME TypeOK, NEW p \in Process, NEW t \in Target, NEW c \in Change, Enqueue(p, t, c)
  PROVE  /\ queue' \in [Process -> [Target -> Seq(Change)]]
         /\ \A q \in Process, u \in Target :
              queue[q][u] # <<>> => queue'[q][u] # <<>> /\ Head(queue'[q][u]) = Head(queue[q][u])
<1>1. queue' \in [Process -> [Target -> Seq(Change)]]
  BY DEF Enqueue, TypeOK
<1>2. ASSUME NEW q \in Process, NEW u \in Target, queue[q][u] # <<>>
      PROVE  queue'[q][u] # <<>> /\ Head(queue'[q][u]) = Head(queue[q][u])
  <2>1. queue[q][u] \in Seq(Change)
    BY DEF TypeOK
  <2>2. queue'[q][u] = queue[q][u] \/ queue'[q][u] = Append(queue[q][u], c)
    BY DEF Enqueue, TypeOK
  <2> QED BY <1>2, <2>1, <2>2
<1> QED BY <1>1, <1>2

\* A confirm that claims its row joins the queues of its keys.
LEMMA ConfirmStep ==
  ASSUME IInv, NEW p \in Process, NEW c \in Change, Confirm(p, c)
  PROVE  IInv'
<1>1. pc[c] = "idle" /\ c \notin ran /\ server[c] = NoProcess /\ held[c] = {}
  BY PreviewedIsIdle DEF Confirm, Accepts
<1>2. state' = [state EXCEPT ![c] = "executing"] /\ UNCHANGED <<expired, procVars, held, result, ran>>
  BY DEF Confirm
<1>3. PICK logged \in Logged :
        /\ Append1(c, "executing", logged)
        /\ IF logged
           THEN /\ active' = [active EXCEPT ![p] = @ + 1]
                /\ pc' = [pc EXCEPT ![c] = "waiting"]
                /\ server' = [server EXCEPT ![c] = p]
                /\ \E t \in Target : IsNext(t, TargetsOf[c]) /\ Enqueue(p, t, c)
           ELSE UNCHANGED <<active, pc, server, queue>>
  BY DEF Confirm
<1>4. trail' \in [Change -> Seq(State)]
  BY <1>3, TrailType, LoggedType DEF IInv
<1>5. CASE ~logged
  <2>1. UNCHANGED <<active, pc, server, queue>>
    BY <1>3, <1>5
  <2>2. TypeOK'
    BY <1>2, <1>4, <2>1 DEF IInv, TypeOK, procVars
  <2>3. CallOK' /\ RanOK'
    BY <1>1, <1>2, <2>1 DEF IInv, TypeOK, CallOK, RanOK
  <2>4. HeldOK' /\ HolderFirst'
    BY <1>2, <2>1 DEF IInv, HeldOK, HolderFirst
  <2> QED BY <2>2, <2>3, <2>4 DEF IInv
<1>6. CASE logged
  <2>1. /\ active' = [active EXCEPT ![p] = @ + 1]
        /\ pc' = [pc EXCEPT ![c] = "waiting"]
        /\ server' = [server EXCEPT ![c] = p]
    BY <1>3, <1>6
  <2>2. PICK t \in Target : Enqueue(p, t, c)
    BY <1>3, <1>6
  <2>3. TypeOK'
    BY <1>2, <1>4, <2>1, <2>2, EnqueueFacts DEF IInv, TypeOK, procVars
  <2>4. CallOK' /\ RanOK'
    BY <1>1, <1>2, <2>1, ProcessAssumption DEF IInv, TypeOK, CallOK, RanOK
  <2>5. HeldOK'
    BY <1>1, <1>2, <2>1 DEF IInv, TypeOK, HeldOK
  <2>6. HolderFirst'
    BY <1>1, <1>2, <2>1, <2>2, EnqueueFacts DEF IInv, TypeOK, HolderFirst
  <2> QED BY <2>3, <2>4, <2>5, <2>6 DEF IInv
<1> QED BY <1>5, <1>6

\* A confirm that heads its queues starts to execute.
LEMMA EnterStep ==
  ASSUME IInv, NEW c \in Change, Enter(c)
  PROVE  IInv'
<1> DEFINE p == server[c]
<1>1. /\ pc[c] = "waiting" /\ p \in Process /\ state[c] \in Claimed /\ c \notin ran
      /\ UNCHANGED <<rowVars, procVars, active, server, result>>
  BY DEF Enter, IInv, TypeOK, CallOK, RanOK
<1>2. PICK t \in Wanted(c) :
        /\ Granted(p, t, c)
        /\ held' = [held EXCEPT ![c] = @ \cup {t}]
        /\ IF Wanted(c) = {t}
           THEN /\ pc' = [pc EXCEPT ![c] = "executing"]
                /\ ran' = ran \cup {c}
                /\ UNCHANGED queue
           ELSE /\ \E u \in Wanted(c) : IsNext(u, Wanted(c) \ {t}) /\ Enqueue(p, u, c)
                /\ UNCHANGED <<pc, ran>>
  BY DEF Enter
<1>3. t \in Target /\ t \in TargetsOf[c] /\ Wanted(c) \subseteq Target /\ held[c] \subseteq TargetsOf[c]
  BY <1>2, TargetsOfAssumption DEF Wanted, IInv, TypeOK, HeldOK
<1>4. /\ held' \in [Change -> SUBSET Target]
      /\ held'[c] = held[c] \cup {t} /\ \A d \in Change \ {c} : held'[d] = held[d]
  BY <1>2, <1>3 DEF IInv, TypeOK
<1>5. /\ queue' \in [Process -> [Target -> Seq(Change)]]
      /\ \A q \in Process, u \in Target :
           queue[q][u] # <<>> => queue'[q][u] # <<>> /\ Head(queue'[q][u]) = Head(queue[q][u])
  <2>1. CASE Wanted(c) = {t}
    BY <2>1, <1>2 DEF IInv, TypeOK
  <2>2. CASE Wanted(c) # {t}
    <3>1. PICK u \in Wanted(c) : Enqueue(p, u, c)
      BY <1>2, <2>2
    <3> QED BY <3>1, <1>1, <1>3, EnqueueFacts DEF IInv
  <2> QED BY <2>1, <2>2
<1>6. HolderFirst'
  <2> SUFFICES ASSUME NEW d \in Change, NEW u \in held'[d]
               PROVE  /\ server[d] \in Process
                      /\ queue'[server[d]][u] # <<>>
                      /\ Head(queue'[server[d]][u]) = d
    BY <1>1 DEF HolderFirst
  <2>1. u \in Target /\ (u \in held[d] \/ (d = c /\ u = t))
    BY <1>4 DEF IInv, TypeOK
  <2>2. /\ server[d] \in Process
        /\ queue[server[d]][u] # <<>>
        /\ Head(queue[server[d]][u]) = d
    BY <1>1, <1>2, <2>1 DEF IInv, HolderFirst, Granted
  <2> QED BY <1>5, <2>1, <2>2
<1>7. CASE Wanted(c) = {t}
  <2>1. /\ pc' = [pc EXCEPT ![c] = "executing"]
        /\ ran' = ran \cup {c}
    BY <1>2, <1>7
  <2>2. held'[c] = TargetsOf[c]
    BY <1>3, <1>4, <1>7 DEF Wanted
  <2>3. TypeOK'
    BY <1>1, <1>4, <1>5, <2>1 DEF IInv, TypeOK, rowVars, procVars
  <2>4. CallOK' /\ RanOK'
    BY <1>1, <2>1 DEF IInv, TypeOK, CallOK, RanOK, rowVars
  <2>5. HeldOK'
    BY <1>4, <2>1, <2>2 DEF IInv, TypeOK, HeldOK
  <2> QED BY <1>6, <2>3, <2>4, <2>5 DEF IInv
<1>8. CASE Wanted(c) # {t}
  <2>1. UNCHANGED <<pc, ran>>
    BY <1>2, <1>8
  <2>2. TypeOK'
    BY <1>1, <1>4, <1>5, <2>1 DEF IInv, TypeOK, rowVars, procVars
  <2>3. CallOK' /\ RanOK'
    BY <1>1, <2>1 DEF IInv, CallOK, RanOK, rowVars
  <2>4. HeldOK'
    BY <1>1, <1>3, <1>4, <2>1 DEF IInv, TypeOK, HeldOK
  <2> QED BY <1>6, <2>2, <2>3, <2>4 DEF IInv
<1> QED BY <1>7, <1>8

\* An execution that ends leaves rows and queues alone.
LEMMA ReturnStep ==
  ASSUME IInv, NEW c \in Change, Return(c)
  PROVE  IInv'
<1> USE DEF Return, rowVars, procVars, lockVars
<1>1. TypeOK'
  BY DEF IInv, TypeOK
<1>2. CallOK' /\ HeldOK' /\ RanOK' /\ HolderFirst'
  BY DEF IInv, TypeOK, CallOK, HeldOK, RanOK, HolderFirst
<1> QED BY <1>1, <1>2 DEF IInv

\* Releasing one key lets the next in that queue move up.
LEMMA UnwindStep ==
  ASSUME IInv, NEW c \in Change, Unwind(c)
  PROVE  IInv'
<1> DEFINE p == server[c]
<1>1. /\ pc[c] = "unwinding" /\ p \in Process /\ state[c] \in Claimed
      /\ UNCHANGED <<rowVars, procVars, active, server, result, ran>>
  BY DEF Unwind, IInv, TypeOK, CallOK
<1>2. PICK t \in held[c] :
        /\ queue' = [queue EXCEPT ![p][t] = Tail(@)]
        /\ held' = [held EXCEPT ![c] = @ \ {t}]
        /\ pc' = [pc EXCEPT ![c] = IF held[c] = {t} THEN "finishing" ELSE @]
  BY DEF Unwind, Release
<1>3. t \in Target /\ queue[p][t] # <<>> /\ Head(queue[p][t]) = c
  BY <1>2 DEF IInv, TypeOK, HolderFirst
<1>4. queue[p][t] \in Seq(Change) /\ Tail(queue[p][t]) \in Seq(Change)
  BY <1>1, <1>3 DEF IInv, TypeOK
<1>5. /\ queue' \in [Process -> [Target -> Seq(Change)]]
      /\ \A q \in Process, u \in Target : q # p \/ u # t => queue'[q][u] = queue[q][u]
  BY <1>1, <1>2, <1>3, <1>4 DEF IInv, TypeOK
<1>6. TypeOK'
  BY <1>1, <1>2, <1>5 DEF IInv, TypeOK, rowVars, procVars
<1>7. CallOK' /\ RanOK'
  BY <1>1, <1>2 DEF IInv, TypeOK, CallOK, RanOK, rowVars
<1>8. HeldOK'
  BY <1>1, <1>2 DEF IInv, TypeOK, HeldOK
<1>9. HolderFirst'
  <2> SUFFICES ASSUME NEW d \in Change, NEW u \in held'[d]
               PROVE  /\ server[d] \in Process
                      /\ queue'[server[d]][u] # <<>>
                      /\ Head(queue'[server[d]][u]) = d
    BY <1>1 DEF HolderFirst
  <2>1. u \in held[d] /\ u \in Target /\ (d = c => u # t)
    BY <1>2 DEF IInv, TypeOK
  <2>2. server[d] \in Process /\ queue[server[d]][u] # <<>> /\ Head(queue[server[d]][u]) = d
    BY <2>1 DEF IInv, HolderFirst
  <2>3. server[d] # p \/ u # t
    BY <1>3, <2>1, <2>2
  <2> QED BY <1>5, <2>1, <2>2, <2>3
<1> QED BY <1>6, <1>7, <1>8, <1>9 DEF IInv

\* What the end of a confirm does to the row and the trail.
LEMMA RecordFacts ==
  ASSUME IInv, NEW c \in Change, NEW r \in Results \cup {NoResult}, Record(c, r)
  PROVE  /\ state' = [state EXCEPT ![c] = IF @ = "executing" THEN r.as ELSE @]
         /\ trail' \in [Change -> Seq(State)]
<1>1. r.as \in Outcome
  BY ResultState
<1>2. PICK logged \in Logged :
        IF r.thrown \/ logged
        THEN /\ state' = Conclude(state, c, r.as)
             /\ Append1(c, r.as, logged)
        ELSE /\ state' = Conclude(Conclude(state, c, r.as), c, "failed")
             /\ \E again \in Logged : Append1(c, "failed", again)
  BY DEF Record
<1>3. state' = [state EXCEPT ![c] = IF @ = "executing" THEN r.as ELSE @]
  <2>1. state \in [Change -> State]
    BY DEF IInv, TypeOK
  <2>2. Conclude(state, c, r.as) = [state EXCEPT ![c] = IF @ = "executing" THEN r.as ELSE @]
    BY <2>1 DEF Conclude
  <2>3. Conclude(Conclude(state, c, r.as), c, "failed") = Conclude(state, c, r.as)
    BY <1>1, <2>1, <2>2 DEF Conclude
  <2> QED BY <1>2, <2>2, <2>3
<1>4. trail' \in [Change -> Seq(State)]
  BY <1>1, <1>2, TrailType, LoggedType DEF IInv
<1> QED BY <1>3, <1>4

\* The end of a confirm records its outcome and frees the call.
LEMMA FinishStep ==
  ASSUME IInv, NEW c \in Change, Finish(c)
  PROVE  IInv'
<1>1. /\ pc[c] = "finishing" /\ server[c] \in Process /\ state[c] \in Claimed /\ held[c] = {}
      /\ result[c] \in Results \cup {NoResult}
  BY DEF Finish, IInv, TypeOK, CallOK, HeldOK
<1>2. /\ state' = state \/ state' = [state EXCEPT ![c] = IF @ = "executing" THEN result[c].as ELSE @]
      /\ trail' \in [Change -> Seq(State)]
  BY <1>1, RecordFacts DEF Finish, IInv, TypeOK
<1>3. /\ state' \in [Change -> State]
      /\ state'[c] \in Begun /\ \A d \in Change \ {c} : state'[d] = state[d]
  BY <1>1, <1>2, ResultState DEF IInv, TypeOK
<1>4. /\ active' = [active EXCEPT ![server[c]] = @ - 1]
      /\ pc' = [pc EXCEPT ![c] = "idle"]
      /\ server' = [server EXCEPT ![c] = NoProcess]
      /\ result' = [result EXCEPT ![c] = NoResult]
      /\ UNCHANGED <<expired, procVars, lockVars, ran>>
  BY DEF Finish
<1>5. TypeOK'
  BY <1>1, <1>2, <1>3, <1>4 DEF IInv, TypeOK, procVars, lockVars
<1>6. CallOK' /\ RanOK'
  BY <1>3, <1>4 DEF IInv, TypeOK, CallOK, RanOK
<1>7. HeldOK' /\ HolderFirst'
  BY <1>1, <1>4 DEF IInv, TypeOK, HeldOK, HolderFirst, lockVars
<1> QED BY <1>5, <1>6, <1>7 DEF IInv

\* Every step of the system keeps the invariant.
THEOREM InvStep == IInv /\ [Next]_vars => IInv'
<1> SUFFICES ASSUME IInv, [Next]_vars PROVE IInv'
  OBVIOUS
<1>1. ASSUME NEW p \in Process, ProcessNext(p) PROVE IInv'
  BY <1>1, StartStep, OpenStep, CrashStep, QuietStep DEF ProcessNext
<1>2. ASSUME NEW c \in Change, RequestNext(c) PROVE IInv'
  BY <1>2, TokenStep, ConfirmStep, QuietStep DEF RequestNext
<1>3. ASSUME NEW c \in Change, CallNext(c) PROVE IInv'
  BY <1>3, EnterStep, ReturnStep, UnwindStep, FinishStep DEF CallNext
<1>4. CASE UNCHANGED vars
  BY <1>4 DEF vars, rowVars, procVars, lockVars, callVars,
              IInv, TypeOK, CallOK, HeldOK, HolderFirst, RanOK
<1>5. CASE Backup
  BY <1>5, BackupStep
<1> QED BY <1>1, <1>2, <1>3, <1>4, <1>5 DEF Next

\* The invariant is inductive, hence holds of every reachable state.
THEOREM Invariance == Spec => []IInv
  BY InitInv, InvStep, PTL DEF Spec

(* Type correctness of the store, for every set of changes, keys and       *)
(* processes.                                                              *)
THEOREM TypeCorrect == Spec => []TypeOK
  BY Invariance, PTL DEF IInv

(* No cancelled, expired-unconfirmed or merely previewed token ever runs   *)
(* (confirmChange claims the row before it awaits anything).               *)
THEOREM OnlyConfirmedRunHolds == Spec => []OnlyConfirmedRun
<1>1. IInv => OnlyConfirmedRun
  BY DEF IInv, RanOK, OnlyConfirmedRun
<1> QED BY <1>1, Invariance, PTL

(* execute() is called at most once per token, across crashes, restarts    *)
(* and processes that outlive their shutdown.                              *)
THEOREM RunsOnceHolds == Spec => RunsOnce
<1>1. ASSUME IInv, [Next]_vars
      PROVE  [\A c \in Change : pc[c] # "executing" /\ pc'[c] = "executing" => c \notin ran]_vars
  <2> SUFFICES ASSUME NEW c \in Change, Next, pc[c] # "executing", pc'[c] = "executing"
               PROVE  c \notin ran
    BY <1>1
  <2>1. ASSUME NEW p \in Process, ProcessNext(p) PROVE FALSE
    <3>1. pc'[c] = pc[c] \/ pc'[c] = "idle"
      BY <2>1 DEF ProcessNext, Start, OpenTenant, BeginShutdown, WaitForIdle, StopWaiting, Close,
                  Crash, callVars
    <3> QED BY <3>1
  <2>2. ASSUME NEW d \in Change, RequestNext(d) PROVE FALSE
    <3>1. pc' = pc \/ pc' = [pc EXCEPT ![d] = "waiting"]
      BY <2>2 DEF RequestNext, Expire, Preview, Cancel, Confirm, callVars
    <3> QED BY <1>1, <3>1 DEF IInv, TypeOK
  <2>3. ASSUME NEW d \in Change, Return(d) \/ Unwind(d) \/ Finish(d) PROVE FALSE
    <3>1. pc' = [pc EXCEPT ![d] = pc'[d]] /\ pc'[d] # "executing"
      BY <1>1, <2>3 DEF Return, Unwind, Finish, IInv, TypeOK
    <3> QED BY <1>1, <3>1 DEF IInv, TypeOK
  <2>4. ASSUME NEW d \in Change, Enter(d) PROVE c \notin ran
    <3>1. d = c
      BY <1>1, <2>4 DEF Enter, IInv, TypeOK
    <3> QED BY <1>1, <2>4, <3>1 DEF Enter, IInv, RanOK
  <2>5. CASE Backup
    BY <2>5 DEF Backup, callVars
  <2> QED BY <2>1, <2>2, <2>3, <2>4, <2>5 DEF Next, CallNext
<1> QED BY <1>1, Invariance, PTL DEF Spec, RunsOnce

(* Two confirms of one process never are inside the same lock key.         *)
THEOREM TargetExclusionHolds == Spec => []TargetExclusion
<1>1. IInv => TargetExclusion
  BY DEF IInv, HolderFirst, TargetExclusion, Inside, Confirms
<1> QED BY <1>1, Invariance, PTL

(* execute() runs under every key of its change.                           *)
THEOREM RunsUnderAllLocksHolds == Spec => []RunsUnderAllLocks
<1>1. IInv => RunsUnderAllLocks
  BY DEF IInv, HeldOK, RunsUnderAllLocks
<1> QED BY <1>1, Invariance, PTL

-----------------------------------------------------------------------------
(* The rows, step by step: the last two theorems need only what a step may *)
(* do to `state' and `ran'.                                                *)

ProcessRows == state' = state \/ WriteOffInterrupted

RequestRows(c) ==
    \/ state' = state
    \/ state[c] = "absent" /\ state' = [state EXCEPT ![c] = "previewed"]
    \/ state[c] = "previewed" /\ state' = [state EXCEPT ![c] = "cancelled"]
    \/ state[c] = "previewed" /\ state' = [state EXCEPT ![c] = "executing"]

\* What starting, opening, shutting down and dying do to the rows.
LEMMA ProcessEffect ==
  ASSUME NEW p \in Process, ProcessNext(p)
  PROVE  ProcessRows /\ ran' = ran
  BY DEF ProcessNext, ProcessRows, Start, OpenTenant, WriteOff, BeginShutdown, WaitForIdle,
         StopWaiting, Close, Crash, rowVars, callVars

\* What a backup does to the rows.
LEMMA BackupEffect ==
  ASSUME Backup
  PROVE  ProcessRows /\ ran' = ran
  BY DEF Backup, ProcessRows, WriteOff, callVars

\* What previewing, cancelling and expiring do to the rows.
LEMMA RequestEffect ==
  ASSUME NEW c \in Change, RequestNext(c)
  PROVE  RequestRows(c) /\ ran' = ran
  BY DEF RequestNext, RequestRows, Expire, Preview, Cancel, Confirm, Accepts, callVars

\* What the steps of a confirm do to the rows.
LEMMA CallEffect ==
  ASSUME IInv, NEW c \in Change, CallNext(c)
  PROVE  \/ state' = state /\ ran' = ran
         \/ /\ state' = state /\ ran' = ran \cup {c}
            /\ c \notin ran /\ state[c] \in Claimed
         \/ /\ ran' = ran /\ state[c] = "executing"
            /\ \E o \in Outcome : state' = [state EXCEPT ![c] = o]
<1>1. CASE Enter(c)
  BY <1>1 DEF Enter, IInv, CallOK, RanOK, rowVars
<1>2. CASE Return(c) \/ Unwind(c)
  BY <1>2 DEF Return, Unwind, rowVars
<1>3. CASE Finish(c)
  <2>1. /\ ran' = ran /\ result[c] \in Results \cup {NoResult}
        /\ state' = state \/ Record(c, result[c])
    BY <1>3 DEF Finish, IInv, TypeOK
  <2>2. CASE Record(c, result[c])
    <3>1. /\ state' = [state EXCEPT ![c] = IF @ = "executing" THEN result[c].as ELSE @]
          /\ result[c].as \in Outcome
      BY <2>1, <2>2, RecordFacts, ResultState
    <3> QED BY <2>1, <3>1 DEF IInv, TypeOK
  <2> QED BY <2>1, <2>2
<1> QED BY <1>1, <1>2, <1>3 DEF CallNext

(* A row that has ended is never rewritten.                                *)
THEOREM TerminalStaysHolds == Spec => TerminalStays
<1>1. ASSUME IInv, [Next]_vars
      PROVE  [\A c \in Change : state[c] \in Terminal => state'[c] = state[c]]_vars
  <2> SUFFICES ASSUME NEW c \in Change, Next, state[c] \in Terminal
               PROVE  state'[c] = state[c]
    BY <1>1
  <2>1. ASSUME NEW p \in Process, ProcessNext(p) PROVE state'[c] = state[c]
    BY <2>1, ProcessEffect DEF ProcessRows, WriteOffInterrupted, Interrupted
  <2>2. ASSUME NEW d \in Change, RequestNext(d) PROVE state'[c] = state[c]
    BY <1>1, <2>2, RequestEffect DEF RequestRows, IInv, TypeOK
  <2>3. ASSUME NEW d \in Change, CallNext(d) PROVE state'[c] = state[c]
    BY <1>1, <2>3, CallEffect DEF IInv, TypeOK
  <2>4. CASE Backup
    BY <2>4, BackupEffect DEF ProcessRows, WriteOffInterrupted, Interrupted
  <2> QED BY <2>1, <2>2, <2>3, <2>4 DEF Next
<1> QED BY <1>1, Invariance, PTL DEF Spec, TerminalStays

(* The store implements ChangeLifecycle: at most one run per token, only   *)
(* after its confirm, and one final state.                                 *)
THEOREM LifecycleHolds == Spec => LifeSpec
<1> USE DEF Life!Outcome, Life!Terminal, Life!State
<1>1. Init => Life!LifeInit
  BY DEF Init, Life!LifeInit
<1>2. ASSUME IInv, [Next]_vars PROVE [Life!LifeNext]_(Life!lifeVars)
  <2>1. ASSUME Backup \/ \E p \in Process : ProcessNext(p)
        PROVE  [Life!LifeNext]_(Life!lifeVars)
    <3>1. ran' = ran /\ (state' = state \/ WriteOffInterrupted)
      BY <2>1, ProcessEffect, BackupEffect DEF ProcessRows
    <3>2. CASE Interrupted = {} /\ WriteOffInterrupted
      <4>1. state' = state
        BY <1>2, <3>2 DEF WriteOffInterrupted, IInv, TypeOK
      <4> QED BY <3>1, <4>1 DEF Life!lifeVars
    <3>3. CASE Interrupted # {} /\ WriteOffInterrupted
      BY <3>1, <3>3 DEF WriteOffInterrupted, Interrupted, Life!LifeNext, Life!GiveUp
    <3> QED BY <3>1, <3>2, <3>3 DEF Life!lifeVars
  <2>2. ASSUME NEW c \in Change, RequestNext(c) PROVE [Life!LifeNext]_(Life!lifeVars)
    BY <2>2, RequestEffect
    DEF RequestRows, Life!LifeNext, Life!lifeVars, Life!Issue, Life!Withdraw, Life!Begin
  <2>3. ASSUME NEW c \in Change, CallNext(c) PROVE [Life!LifeNext]_(Life!lifeVars)
    BY <1>2, <2>3, CallEffect
    DEF Life!LifeNext, Life!lifeVars, Life!Run, Life!Conclude
  <2>4. CASE UNCHANGED vars
    BY <2>4 DEF vars, rowVars, callVars, Life!lifeVars
  <2> QED BY <1>2, <2>1, <2>2, <2>3, <2>4 DEF Next
<1> QED BY <1>1, <1>2, Invariance, PTL DEF Spec, LifeSpec, Life!LifeSpec

-----------------------------------------------------------------------------
(***************************************************************************)
(* What the service goes by and shows: its count of confirms, its drained  *)
(* flag, its rows and its audit trail.  Four parts are added to the        *)
(* invariant: the counters are right (CountOK), one process at a time has  *)
(* the lock and an open store (LifeOK), a drain that found nothing stays   *)
(* so (DrainOK), and rows, confirms and trails belong together (OwnOK,     *)
(* TrailOK).                                                               *)
(***************************************************************************)

\* activeConfirms counts the confirms of each process.
CountOK == \A p \in Process : IsFiniteSet(Confirms(p)) /\ active[p] = Cardinality(Confirms(p))

\* One process at a time holds the runtime lock, and only it has an open store;
\* a process without a store has no confirms.
LifeOK ==
    /\ \A p, q \in Process : HoldsRuntimeLock(p) /\ HoldsRuntimeLock(q) => p = q
    /\ \A p \in Process : store[p] = "open" => HoldsRuntimeLock(p)
    /\ \A p \in Process : phase[p] = "down" => store[p] = "none"
    /\ \A p \in Process : store[p] = "none" => Confirms(p) = {}

\* A watched store that was found idle stays idle until it accepts again.
DrainOK ==
    \A p \in Process :
        phase[p] \in {"stopping", "closed"} /\ watched[p] /\ drained[p] /\ ~accepting[p] =>
            Confirms(p) = {}

Audited(c) == {trail[c][i] : i \in DOMAIN trail[c]}

\* An audited executing row is the lock holder's, and no claim was audited of a
\* token that has not been claimed.
OwnOK ==
    /\ \A p \in Process : HoldsRuntimeLock(p) /\ store[p] = "open" =>
          \A c \in Change : state[c] = "executing" /\ "executing" \in Audited(c) => server[c] = p
    /\ \A c \in Change : state[c] \in {"absent", "previewed"} => "executing" \notin Audited(c)

\* Nobody writes off the row of a confirm whose store is open, and the trail
\* agrees with the row.
TrailOK ==
    /\ \A c \in Change : pc[c] # "idle" /\ store[server[c]] = "open" => state[c] = "executing"
    /\ \A c \in Change : \A a \in Audited(c) :
          /\ a \in Terminal \ {"failed"} => state[c] = a
          /\ a \in Outcome => state[c] \in Outcome

Calls == <<server, active>>

USE DEF Outcome, Terminal, State

-----------------------------------------------------------------------------
\* Only confirming, finishing and dying change which confirms a process has.
LEMMA CallsStay ==
  ASSUME [Next]_vars
  PROVE  \/ UNCHANGED Calls
         \/ \E p \in Process : Crash(p)
         \/ \E c \in Change : Finish(c) \/ \E p \in Process : Confirm(p, c)
<1>1. CASE Backup
  BY <1>1 DEF Backup, Calls, callVars
<1>2. ASSUME NEW p \in Process, ProcessNext(p), ~Crash(p) PROVE UNCHANGED Calls
  BY <1>2 DEF ProcessNext, Start, OpenTenant, BeginShutdown, WaitForIdle, StopWaiting, Close,
              Calls, callVars
<1>3. ASSUME NEW c \in Change, Expire(c) \/ \E p \in Process : Preview(p, c) \/ Cancel(p, c)
      PROVE  UNCHANGED Calls
  BY <1>3 DEF Expire, Preview, Cancel, Calls, callVars
<1>4. ASSUME NEW c \in Change, Enter(c) \/ Return(c) \/ Unwind(c) PROVE UNCHANGED Calls
  BY <1>4 DEF Enter, Return, Unwind, Calls
<1>5. CASE UNCHANGED vars
  BY <1>5 DEF vars, Calls, callVars
<1> QED BY <1>1, <1>2, <1>3, <1>4, <1>5 DEF Next, RequestNext, CallNext

\* A confirm that begins is one more of its process, and counted, unless its
\* claim could not be audited.
LEMMA ConfirmEffect ==
  ASSUME IInv, NEW p \in Process, NEW c \in Change, Confirm(p, c)
  PROVE  /\ c \notin Confirms(p)
         /\ \/ UNCHANGED Calls
            \/ /\ active' = [active EXCEPT ![p] = @ + 1]
               /\ Confirms(p)' = Confirms(p) \cup {c}
               /\ \A q \in Process \ {p} : Confirms(q)' = Confirms(q)
<1>1. server[c] = NoProcess /\ server \in [Change -> Process \cup {NoProcess}]
  BY PreviewedIsIdle DEF Confirm, Accepts, IInv, TypeOK
<1>2. UNCHANGED Calls \/ (active' = [active EXCEPT ![p] = @ + 1] /\ server' = [server EXCEPT ![c] = p])
  BY DEF Confirm, Calls
<1> QED BY <1>1, <1>2, ProcessAssumption DEF Confirms

\* A confirm that ends is one less of its process.
LEMMA FinishEffect ==
  ASSUME IInv, NEW c \in Change, Finish(c)
  PROVE  \E p \in Process :
            /\ p = server[c] /\ c \in Confirms(p)
            /\ active' = [active EXCEPT ![p] = @ - 1]
            /\ Confirms(p)' = Confirms(p) \ {c}
            /\ \A q \in Process \ {p} : Confirms(q)' = Confirms(q)
<1>1. PICK p \in Process : p = server[c]
  BY DEF Finish, IInv, TypeOK, CallOK
<1>2. active' = [active EXCEPT ![p] = @ - 1] /\ server' = [server EXCEPT ![c] = NoProcess]
  BY <1>1 DEF Finish
<1>3. server \in [Change -> Process \cup {NoProcess}]
  BY DEF IInv, TypeOK
<1>4. Confirms(p)' = Confirms(p) \ {c} /\ \A q \in Process \ {p} : Confirms(q)' = Confirms(q)
  BY <1>1, <1>2, <1>3, ProcessAssumption DEF Confirms
<1> QED BY <1>1, <1>2, <1>4 DEF Confirms

\* A process that dies has no confirms.
LEMMA CrashEffect ==
  ASSUME IInv, NEW p \in Process, Crash(p)
  PROVE  /\ active' = [active EXCEPT ![p] = 0]
         /\ Confirms(p)' = {}
         /\ \A q \in Process \ {p} : Confirms(q)' = Confirms(q)
<1>1. server \in [Change -> Process \cup {NoProcess}]
  BY DEF IInv, TypeOK
<1>2. /\ active' = [active EXCEPT ![p] = 0]
      /\ server' = [c \in Change |-> IF c \in Confirms(p) THEN NoProcess ELSE server[c]]
  BY DEF Crash
<1> QED BY <1>1, <1>2, ProcessAssumption DEF Confirms

-----------------------------------------------------------------------------
\* Every step keeps the counts right.
LEMMA CountStep ==
  ASSUME IInv, CountOK, [Next]_vars
  PROVE  CountOK'
<1> USE DEF CountOK
<1>0. active \in [Process -> Int]
  BY DEF IInv, TypeOK
<1>1. CASE UNCHANGED Calls
  BY <1>1 DEF Calls, Confirms
<1>2. ASSUME NEW p \in Process, Crash(p) PROVE CountOK'
  BY <1>0, <1>2, CrashEffect, FS_EmptySet
<1>3. ASSUME NEW c \in Change, Finish(c) PROVE CountOK'
  <2>1. PICK p \in Process :
          /\ c \in Confirms(p)
          /\ active' = [active EXCEPT ![p] = @ - 1]
          /\ Confirms(p)' = Confirms(p) \ {c}
          /\ \A q \in Process \ {p} : Confirms(q)' = Confirms(q)
    BY <1>3, FinishEffect
  <2>2. /\ IsFiniteSet(Confirms(p) \ {c})
        /\ Cardinality(Confirms(p) \ {c}) = active[p] - 1
    BY <2>1, FS_RemoveElement
  <2> QED BY <1>0, <2>1, <2>2
<1>4. ASSUME NEW c \in Change, NEW p \in Process, Confirm(p, c), ~UNCHANGED Calls PROVE CountOK'
  <2>1. /\ IsFiniteSet(Confirms(p) \cup {c})
        /\ Cardinality(Confirms(p) \cup {c}) = active[p] + 1
    BY <1>4, ConfirmEffect, FS_AddElement
  <2> QED BY <1>0, <1>4, <2>1, ConfirmEffect
<1> QED BY <1>1, <1>2, <1>3, <1>4, CallsStay

-----------------------------------------------------------------------------
\* Only the steps of a process change its life.
LEMMA LivesStay ==
  ASSUME [Next]_vars, \A p \in Process : ~ProcessNext(p)
  PROVE  UNCHANGED procVars
<1>1. CASE Backup
  BY <1>1 DEF Backup, procVars
<1>2. ASSUME NEW c \in Change, RequestNext(c) PROVE UNCHANGED procVars
  BY <1>2 DEF RequestNext, Expire, Preview, Cancel, Confirm, procVars
<1>3. ASSUME NEW c \in Change, CallNext(c) PROVE UNCHANGED procVars
  BY <1>3 DEF CallNext, Enter, Return, Unwind, Finish, procVars
<1>4. CASE UNCHANGED vars
  BY <1>4 DEF vars, procVars
<1> QED BY <1>1, <1>2, <1>3, <1>4 DEF Next

\* Which confirms a process may have after a step that is not its death.
LEMMA ConfirmsAfter ==
  ASSUME IInv, [Next]_vars
  PROVE  \A p \in Process :
            \/ Confirms(p)' \subseteq Confirms(p)
            \/ store[p] = "open" /\ accepting[p] /\ UNCHANGED procVars
<1>1. CASE UNCHANGED Calls
  BY <1>1 DEF Calls, Confirms
<1>2. ASSUME NEW p \in Process, Crash(p) PROVE \A q \in Process : Confirms(q)' \subseteq Confirms(q)
  BY <1>2, CrashEffect
<1>3. ASSUME NEW c \in Change, Finish(c) PROVE \A q \in Process : Confirms(q)' \subseteq Confirms(q)
  BY <1>3, FinishEffect
<1>4. ASSUME NEW c \in Change, NEW p \in Process, Confirm(p, c)
      PROVE  \A q \in Process : \/ Confirms(q)' \subseteq Confirms(q)
                                \/ q = p /\ store[q] = "open" /\ accepting[q] /\ UNCHANGED procVars
  <2>1. store[p] = "open" /\ accepting[p] /\ UNCHANGED procVars
    BY <1>4 DEF Confirm, Accepts
  <2>2. \A q \in Process \ {p} : Confirms(q)' \subseteq Confirms(q)
    BY <1>4, ConfirmEffect DEF Calls, Confirms
  <2> QED BY <2>1, <2>2
<1> QED BY <1>1, <1>2, <1>3, <1>4, CallsStay

\* The lock and the open store pass from one process to the next.
LEMMA LifeStep ==
  ASSUME IInv, LifeOK, [Next]_vars
  PROVE  LifeOK'
<1>1. CASE UNCHANGED procVars
  BY <1>1, ConfirmsAfter DEF LifeOK, HoldsRuntimeLock, procVars
<1>2. ASSUME NEW p \in Process, ProcessNext(p) PROVE LifeOK'
  <2>1. phase \in [Process -> Phase] /\ store \in [Process -> {"none", "open", "closed"}]
    BY DEF IInv, TypeOK
  <2>2. \A q \in Process : Confirms(q)' \subseteq Confirms(q) \/ UNCHANGED procVars
    BY ConfirmsAfter
  <2>3. CASE UNCHANGED procVars
    BY <1>1, <2>3
  <2>4. CASE Start(p)
    BY <2>1, <2>2, <2>3, <2>4 DEF Start, LifeOK, HoldsRuntimeLock
  <2>5. CASE OpenTenant(p)
    BY <2>1, <2>2, <2>3, <2>5 DEF OpenTenant, LifeOK, HoldsRuntimeLock
  <2>6. CASE BeginShutdown(p) \/ WaitForIdle(p) \/ StopWaiting(p)
    BY <2>1, <2>2, <2>3, <2>6
    DEF BeginShutdown, WaitForIdle, StopWaiting, LifeOK, HoldsRuntimeLock
  <2>7. CASE Close(p) \/ Crash(p)
    BY <2>1, <2>2, <2>3, <2>7 DEF Close, Crash, LifeOK, HoldsRuntimeLock
  <2> QED BY <1>2, <2>4, <2>5, <2>6, <2>7 DEF ProcessNext
<1> QED BY <1>1, <1>2, LivesStay

\* A drained store stays idle: it would have to accept a confirm first.
LEMMA DrainStep ==
  ASSUME IInv, CountOK, DrainOK, [Next]_vars
  PROVE  DrainOK'
<1>1. CASE UNCHANGED procVars
  BY <1>1, ConfirmsAfter DEF DrainOK, procVars
<1>2. ASSUME NEW p \in Process, ProcessNext(p), ~UNCHANGED procVars PROVE DrainOK'
  <2>1. /\ phase \in [Process -> Phase] /\ accepting \in [Process -> BOOLEAN]
        /\ watched \in [Process -> BOOLEAN] /\ drained \in [Process -> BOOLEAN]
    BY DEF IInv, TypeOK
  <2>2. \A q \in Process : Confirms(q)' \subseteq Confirms(q)
    BY <1>2, ConfirmsAfter
  <2>3. CASE Start(p) \/ BeginShutdown(p) \/ WaitForIdle(p) \/ Crash(p)
    BY <2>1, <2>2, <2>3 DEF Start, BeginShutdown, WaitForIdle, Crash, DrainOK
  <2>4. CASE OpenTenant(p)
    BY <2>1, <2>2, <2>4 DEF OpenTenant, DrainOK
  <2>5. CASE StopWaiting(p)
    <3>1. drained'[p] /\ watched[p] => Confirms(p) = {}
      BY <2>1, <2>5, FS_EmptySet DEF StopWaiting, CountOK
    <3> QED BY <2>1, <2>2, <2>5, <3>1 DEF StopWaiting, DrainOK
  <2>6. CASE Close(p)
    BY <2>1, <2>2, <2>6 DEF Close, DrainOK
  <2> QED BY <1>2, <2>3, <2>4, <2>5, <2>6 DEF ProcessNext
<1> QED BY <1>1, <1>2, LivesStay

-----------------------------------------------------------------------------
\* What is in a sequence after an Append was in it before, or is what was appended.
LEMMA AppendElement ==
  ASSUME NEW q \in Seq(State), NEW s \in State, NEW i \in DOMAIN Append(q, s)
  PROVE  Append(q, s)[i] = s \/ (i \in DOMAIN q /\ Append(q, s)[i] = q[i])
<1>1. i \in 1..(Len(q) + 1) /\ DOMAIN q = 1..Len(q)
  OBVIOUS
<1>2. CASE i = Len(q) + 1
  BY <1>2
<1>3. CASE i # Len(q) + 1
  <2>1. i \in 1..Len(q)
    BY <1>1, <1>3
  <2> QED BY <1>1, <2>1
<1> QED BY <1>2, <1>3

\* An audit event adds its state to one trail, or nothing.
LEMMA AppendAudited ==
  ASSUME TypeOK, NEW c \in Change, NEW s \in State, NEW logged \in BOOLEAN, Append1(c, s, logged)
  PROVE  /\ Audited(c)' \subseteq Audited(c) \cup {s}
         /\ ~logged => Audited(c)' = Audited(c)
         /\ \A d \in Change \ {c} : Audited(d)' = Audited(d)
<1>1. trail \in [Change -> Seq(State)] /\ trail[c] \in Seq(State)
  BY DEF TypeOK
<1>2. \A i \in DOMAIN Append(trail[c], s) :
         \/ Append(trail[c], s)[i] = s
         \/ i \in DOMAIN trail[c] /\ Append(trail[c], s)[i] = trail[c][i]
  BY <1>1, AppendElement
<1>3. CASE logged
  <2>1. trail'[c] = Append(trail[c], s) /\ \A d \in Change \ {c} : trail'[d] = trail[d]
    BY <1>1, <1>3 DEF Append1
  <2> QED BY <1>2, <1>3, <2>1 DEF Audited
<1>4. CASE ~logged
  BY <1>4 DEF Append1, Audited
<1> QED BY <1>3, <1>4

\* Writing off leaves no row executing and touches no other row or trail.
LEMMA WriteOffEffect ==
  ASSUME IInv, NEW audited \in SUBSET Interrupted, WriteOff(audited)
  PROVE  \A c \in Change :
            /\ state'[c] # "executing"
            /\ state[c] # "executing" => state'[c] = state[c] /\ Audited(c)' = Audited(c)
            /\ state[c] = "executing" => /\ state'[c] = "unknown"
                                         /\ Audited(c)' \subseteq Audited(c) \cup {"unknown"}
<1> SUFFICES ASSUME NEW c \in Change
             PROVE  /\ state'[c] # "executing"
                    /\ state[c] # "executing" => state'[c] = state[c] /\ Audited(c)' = Audited(c)
                    /\ state[c] = "executing" => /\ state'[c] = "unknown"
                                                 /\ Audited(c)' \subseteq Audited(c) \cup {"unknown"}
  OBVIOUS
<1>1. trail[c] \in Seq(State)
  BY DEF IInv, TypeOK
<1>2. /\ state'[c] = IF state[c] = "executing" THEN "unknown" ELSE state[c]
      /\ trail'[c] = IF c \in audited THEN Append(trail[c], "unknown") ELSE trail[c]
  BY DEF WriteOff, WriteOffInterrupted, Interrupted
<1>3. \A i \in DOMAIN Append(trail[c], "unknown") :
         \/ Append(trail[c], "unknown")[i] = "unknown"
         \/ i \in DOMAIN trail[c] /\ Append(trail[c], "unknown")[i] = trail[c][i]
  BY <1>1, AppendElement
<1>4. c \in audited => state[c] = "executing"
  BY DEF Interrupted
<1>5. Audited(c)' \subseteq Audited(c) \cup {"unknown"} /\ (c \notin audited => Audited(c)' = Audited(c))
  BY <1>2, <1>3 DEF Audited
<1> QED BY <1>2, <1>4, <1>5

\* The end of a confirm moves its row on and audits an outcome, or leaves both.
LEMMA FinishRow ==
  ASSUME IInv, NEW c \in Change, Finish(c)
  PROVE  /\ \A d \in Change \ {c} : state'[d] = state[d] /\ Audited(d)' = Audited(d)
         /\ \/ store[server[c]] # "open" /\ state'[c] = state[c] /\ Audited(c)' = Audited(c)
            \/ /\ store[server[c]] = "open"
               /\ state'[c] = IF state[c] = "executing" THEN result[c].as ELSE state[c]
               /\ result[c].as \in Outcome
               /\ Audited(c)' \subseteq Audited(c) \cup {result[c].as, "failed"}
<1>1. result[c] \in Results \cup {NoResult} /\ state \in [Change -> State] /\ TypeOK
  BY DEF IInv, TypeOK
<1>2. CASE store[server[c]] # "open"
  BY <1>2 DEF Finish, Audited
<1>3. CASE store[server[c]] = "open"
  <2>1. Record(c, result[c]) /\ result[c].as \in Outcome
    BY <1>1, <1>3, ResultState DEF Finish
  <2>2. state' = [state EXCEPT ![c] = IF @ = "executing" THEN result[c].as ELSE @]
    BY <1>1, <2>1, RecordFacts
  <2>3. \E s \in {result[c].as, "failed"} : \E logged \in BOOLEAN : Append1(c, s, logged)
    <3>1. PICK logged \in Logged :
            \/ Append1(c, result[c].as, logged)
            \/ \E again \in Logged : Append1(c, "failed", again)
      BY <2>1 DEF Record
    <3> QED BY <3>1, LoggedType
  <2>4. /\ Audited(c)' \subseteq Audited(c) \cup {result[c].as, "failed"}
        /\ \A d \in Change \ {c} : Audited(d)' = Audited(d)
    BY <1>1, <2>1, <2>3, AppendAudited
  <2> QED BY <1>1, <1>3, <2>1, <2>2, <2>4
<1> QED BY <1>2, <1>3

\* What a preview, a cancel and a claim do to the row and the trail of a token.
LEMMA TokenRow ==
  ASSUME IInv, NEW p \in Process, NEW c \in Change,
         Preview(p, c) \/ Cancel(p, c) \/ Confirm(p, c)
  PROVE  /\ \A d \in Change \ {c} : state'[d] = state[d] /\ Audited(d)' = Audited(d)
         /\ state[c] \in {"absent", "previewed"} /\ pc[c] = "idle"
         /\ UNCHANGED procVars
         /\ \/ /\ Preview(p, c) \/ Cancel(p, c)
               /\ state'[c] \in {"previewed", "cancelled"}
               /\ Audited(c)' \subseteq Audited(c) \cup {state'[c]}
               /\ UNCHANGED <<server, pc>>
            \/ /\ Confirm(p, c) /\ store[p] = "open" /\ state'[c] = "executing"
               /\ Audited(c)' \subseteq Audited(c) \cup {"executing"}
               /\ \/ server' = [server EXCEPT ![c] = p] /\ pc' = [pc EXCEPT ![c] = "waiting"]
                  \/ UNCHANGED <<server, pc>> /\ Audited(c)' = Audited(c)
<1>1. /\ TypeOK /\ state \in [Change -> State]
      /\ state[c] \in {"absent", "previewed"} /\ pc[c] = "idle"
  BY PreviewedIsIdle DEF IInv, TypeOK, Preview, Cancel, Confirm, Accepts
<1>2. ASSUME Preview(p, c) \/ Cancel(p, c)
      PROVE  /\ \A d \in Change \ {c} : state'[d] = state[d] /\ Audited(d)' = Audited(d)
             /\ state'[c] \in {"previewed", "cancelled"}
             /\ Audited(c)' \subseteq Audited(c) \cup {state'[c]}
             /\ UNCHANGED <<server, pc>> /\ UNCHANGED procVars
  <2>1. PICK s \in {"previewed", "cancelled"} :
          state' = [state EXCEPT ![c] = s] /\ \E logged \in Logged : Append1(c, s, logged)
    <3>1. CASE Preview(p, c)
      BY <3>1 DEF Preview
    <3>2. CASE Cancel(p, c)
      BY <3>2 DEF Cancel
    <3> QED BY <1>2, <3>1, <3>2
  <2>2. UNCHANGED <<server, pc>> /\ UNCHANGED procVars
    BY <1>2 DEF Preview, Cancel, callVars
  <2>3. PICK logged \in BOOLEAN : Append1(c, s, logged)
    BY <2>1, LoggedType
  <2>4. Audited(c)' \subseteq Audited(c) \cup {s} /\ \A d \in Change \ {c} : Audited(d)' = Audited(d)
    BY <1>1, <2>3, AppendAudited
  <2> QED BY <1>1, <2>1, <2>2, <2>4
<1>3. ASSUME Confirm(p, c)
      PROVE  /\ \A d \in Change \ {c} : state'[d] = state[d] /\ Audited(d)' = Audited(d)
             /\ UNCHANGED procVars
             /\ store[p] = "open" /\ state'[c] = "executing"
             /\ Audited(c)' \subseteq Audited(c) \cup {"executing"}
             /\ \/ server' = [server EXCEPT ![c] = p] /\ pc' = [pc EXCEPT ![c] = "waiting"]
                \/ UNCHANGED <<server, pc>> /\ Audited(c)' = Audited(c)
  <2>1. PICK logged \in BOOLEAN :
          /\ Append1(c, "executing", logged)
          /\ logged => server' = [server EXCEPT ![c] = p] /\ pc' = [pc EXCEPT ![c] = "waiting"]
          /\ ~logged => UNCHANGED <<server, pc>>
    <3>1. PICK logged \in Logged :
            /\ Append1(c, "executing", logged)
            /\ IF logged
               THEN /\ active' = [active EXCEPT ![p] = @ + 1]
                    /\ pc' = [pc EXCEPT ![c] = "waiting"]
                    /\ server' = [server EXCEPT ![c] = p]
                    /\ \E t \in Target : IsNext(t, TargetsOf[c]) /\ Enqueue(p, t, c)
               ELSE UNCHANGED <<active, pc, server, queue>>
      BY <1>3 DEF Confirm
    <3> QED BY <3>1, LoggedType
  <2>2. /\ store[p] = "open" /\ UNCHANGED procVars
        /\ state' = [state EXCEPT ![c] = "executing"]
    BY <1>3 DEF Confirm, Accepts
  <2>3. /\ Audited(c)' \subseteq Audited(c) \cup {"executing"}
        /\ ~logged => Audited(c)' = Audited(c)
        /\ \A d \in Change \ {c} : Audited(d)' = Audited(d)
    BY <1>1, <2>1, AppendAudited
  <2> QED BY <1>1, <2>1, <2>2, <2>3
<1> QED BY <1>1, <1>2, <1>3
-----------------------------------------------------------------------------
\* The steps of a call before its last, and expiring, leave rows, trails, owners
\* and lives as they are.
LEMMA RowsStay ==
  ASSUME IInv, NEW c \in Change, Expire(c) \/ Enter(c) \/ Return(c) \/ Unwind(c)
  PROVE  /\ UNCHANGED <<state, trail, server>> /\ UNCHANGED procVars
         /\ \A d \in Change : pc'[d] # "idle" => pc[d] # "idle"
<1>1. pc \in [Change -> Step]
  BY DEF IInv, TypeOK
<1>2. CASE Expire(c)
  BY <1>2 DEF Expire, procVars, callVars
<1>3. CASE Enter(c)
  <2>1. pc' = [pc EXCEPT ![c] = "executing"] \/ UNCHANGED pc
    BY <1>3 DEF Enter
  <2> QED BY <1>1, <1>3, <2>1 DEF Enter, rowVars
<1>4. CASE Return(c) \/ Unwind(c)
  BY <1>1, <1>4 DEF Return, Unwind, rowVars
<1> QED BY <1>2, <1>3, <1>4

\* The owner of an audited executing row is the process that serves it.
LEMMA OwnStep ==
  ASSUME IInv, LifeOK, OwnOK, [Next]_vars
  PROVE  OwnOK'
<1>0. /\ phase \in [Process -> Phase] /\ store \in [Process -> {"none", "open", "closed"}]
      /\ server \in [Change -> Process \cup {NoProcess}]
  BY DEF IInv, TypeOK
<1>1. ASSUME NEW audited \in SUBSET Interrupted, WriteOff(audited) PROVE OwnOK'
  <2>1. \A c \in Change :
           /\ state'[c] # "executing"
           /\ state'[c] \in {"absent", "previewed"} =>
                 state'[c] = state[c] /\ Audited(c)' = Audited(c)
    BY <1>1, WriteOffEffect
  <2> QED BY <2>1 DEF OwnOK, Audited
<1>2. CASE Backup
  BY <1>1, <1>2 DEF Backup
<1>3. ASSUME NEW p \in Process, ProcessNext(p) PROVE OwnOK'
  <2>1. CASE OpenTenant(p)
    BY <1>1, <2>1 DEF OpenTenant
  <2>2. CASE Start(p)
    BY <1>0, <2>2 DEF Start, LifeOK, OwnOK, HoldsRuntimeLock, Audited, rowVars, callVars
  <2>3. CASE BeginShutdown(p) \/ WaitForIdle(p) \/ StopWaiting(p)
    BY <1>0, <2>3
    DEF BeginShutdown, WaitForIdle, StopWaiting, OwnOK, HoldsRuntimeLock, Audited, rowVars, callVars
  <2>4. CASE Close(p)
    BY <1>0, <2>4 DEF Close, OwnOK, HoldsRuntimeLock, Audited, rowVars, callVars
  <2>5. CASE Crash(p)
    BY <1>0, <2>5 DEF Crash, OwnOK, HoldsRuntimeLock, Confirms, Audited, rowVars
  <2> QED BY <1>3, <2>1, <2>2, <2>3, <2>4, <2>5 DEF ProcessNext
<1>4. ASSUME NEW p \in Process, NEW c \in Change, Preview(p, c) \/ Cancel(p, c) PROVE OwnOK'
  <2>1. /\ \A d \in Change \ {c} : state'[d] = state[d] /\ Audited(d)' = Audited(d)
        /\ state[c] \in {"absent", "previewed"}
        /\ UNCHANGED procVars /\ UNCHANGED server
        /\ state'[c] \in {"previewed", "cancelled"}
        /\ Audited(c)' \subseteq Audited(c) \cup {state'[c]}
    <3>1. ~(Confirm(p, c) /\ state'[c] = "executing")
      BY <1>4 DEF Preview, Cancel, IInv, TypeOK
    <3> QED BY <1>4, <3>1, TokenRow
  <2> QED BY <2>1 DEF OwnOK, HoldsRuntimeLock, procVars
<1>5. ASSUME NEW p \in Process, NEW c \in Change, Confirm(p, c) PROVE OwnOK'
  <2>1. /\ \A d \in Change \ {c} : state'[d] = state[d] /\ Audited(d)' = Audited(d)
        /\ state[c] \in {"absent", "previewed"}
        /\ UNCHANGED procVars
        /\ store[p] = "open" /\ state'[c] = "executing"
        /\ server' = [server EXCEPT ![c] = p] \/ (UNCHANGED server /\ Audited(c)' = Audited(c))
    <3>1. state'[c] = "executing"
      BY <1>5 DEF Confirm, IInv, TypeOK
    <3> QED BY <1>5, <3>1, TokenRow
  <2> QED BY <1>0, <2>1 DEF LifeOK, OwnOK, HoldsRuntimeLock, procVars
<1>6. ASSUME NEW c \in Change, Finish(c) PROVE OwnOK'
  <2>1. /\ server[c] \in Process /\ state[c] \in Claimed
        /\ server' = [server EXCEPT ![c] = NoProcess] /\ UNCHANGED procVars
    BY <1>6 DEF Finish, IInv, TypeOK, CallOK
  <2>2. /\ \A d \in Change \ {c} : state'[d] = state[d] /\ Audited(d)' = Audited(d)
        /\ \/ store[server[c]] # "open" /\ state'[c] = state[c] /\ Audited(c)' = Audited(c)
           \/ state'[c] # "executing" /\ state'[c] \in Claimed \cup Outcome
    BY <1>6, <2>1, FinishRow DEF Claimed
  <2> QED BY <1>0, <2>1, <2>2 DEF OwnOK, HoldsRuntimeLock, procVars, Claimed
<1>7. ASSUME NEW c \in Change, Expire(c) \/ Enter(c) \/ Return(c) \/ Unwind(c) PROVE OwnOK'
  <2>1. UNCHANGED <<state, trail, server>> /\ UNCHANGED procVars
    BY <1>7, RowsStay
  <2> QED BY <2>1 DEF OwnOK, HoldsRuntimeLock, Audited, procVars
<1>8. CASE UNCHANGED vars
  BY <1>8 DEF vars, rowVars, procVars, callVars, OwnOK, HoldsRuntimeLock, Audited
<1> QED BY <1>2, <1>3, <1>4, <1>5, <1>6, <1>7, <1>8 DEF Next, RequestNext, CallNext

\* What an audited end says stays true: a store that is open writes its own ends,
\* and who writes off does so beside no open store.
LEMMA TrailStep ==
  ASSUME ~OnlineBackup, IInv, LifeOK, TrailOK, [Next]_vars
  PROVE  TrailOK'
<1>0. /\ phase \in [Process -> Phase] /\ store \in [Process -> {"none", "open", "closed"}]
      /\ server \in [Change -> Process \cup {NoProcess}] /\ pc \in [Change -> Step]
      /\ \A c \in Change : pc[c] # "idle" => server[c] \in Process
  BY DEF IInv, TypeOK, CallOK
<1>1. ASSUME NEW audited \in SUBSET Interrupted, WriteOff(audited),
             \A c \in Change : pc[c] # "idle" => store'[server[c]] # "open",
             UNCHANGED <<server, pc>>
      PROVE  TrailOK'
  <2>1. \A c \in Change :
           /\ state[c] # "executing" => state'[c] = state[c] /\ Audited(c)' = Audited(c)
           /\ state[c] = "executing" => /\ state'[c] = "unknown"
                                        /\ Audited(c)' \subseteq Audited(c) \cup {"unknown"}
    BY <1>1, WriteOffEffect
  <2> QED BY <1>1, <2>1 DEF TrailOK, Audited
<1>2. CASE Backup
  <2>1. \A c \in Change : pc[c] # "idle" => store'[server[c]] # "open"
    BY <1>0, <1>2 DEF Backup, LifeOK, procVars
  <2> QED BY <1>1, <1>2, <2>1 DEF Backup, callVars
<1>3. ASSUME NEW p \in Process, ProcessNext(p) PROVE TrailOK'
  <2>1. CASE OpenTenant(p)
    <3>1. \A c \in Change : pc[c] # "idle" => server[c] # p /\ store[server[c]] # "open"
      BY <1>0, <2>1 DEF OpenTenant, LifeOK, Confirms
    <3>2. \A c \in Change : pc[c] # "idle" => store'[server[c]] # "open"
      BY <1>0, <2>1, <3>1 DEF OpenTenant
    <3> QED BY <1>1, <2>1, <3>2 DEF OpenTenant, callVars
  <2>2. CASE Start(p) \/ BeginShutdown(p) \/ WaitForIdle(p) \/ StopWaiting(p)
    BY <2>2 DEF Start, BeginShutdown, WaitForIdle, StopWaiting, TrailOK, Audited, rowVars, callVars
  <2>3. CASE Close(p)
    BY <1>0, <2>3 DEF Close, TrailOK, Audited, rowVars, callVars
  <2>4. CASE Crash(p)
    BY <1>0, <2>4 DEF Crash, TrailOK, Confirms, Audited, rowVars
  <2> QED BY <1>3, <2>1, <2>2, <2>3, <2>4 DEF ProcessNext
<1>4. ASSUME NEW p \in Process, NEW c \in Change, Preview(p, c) \/ Cancel(p, c) PROVE TrailOK'
  <2>1. /\ \A d \in Change \ {c} : state'[d] = state[d] /\ Audited(d)' = Audited(d)
        /\ state[c] \in {"absent", "previewed"} /\ pc[c] = "idle"
        /\ UNCHANGED procVars /\ UNCHANGED <<server, pc>>
        /\ state'[c] \in {"previewed", "cancelled"}
        /\ Audited(c)' \subseteq Audited(c) \cup {state'[c]}
    <3>1. ~(Confirm(p, c) /\ state'[c] = "executing")
      BY <1>4 DEF Preview, Cancel, IInv, TypeOK
    <3> QED BY <1>4, <3>1, TokenRow
  <2> QED BY <2>1 DEF TrailOK, procVars
<1>5. ASSUME NEW p \in Process, NEW c \in Change, Confirm(p, c) PROVE TrailOK'
  <2>1. /\ \A d \in Change \ {c} : state'[d] = state[d] /\ Audited(d)' = Audited(d)
        /\ state[c] \in {"absent", "previewed"}
        /\ UNCHANGED procVars
        /\ state'[c] = "executing" /\ Audited(c)' \subseteq Audited(c) \cup {"executing"}
        /\ \/ server' = [server EXCEPT ![c] = p] /\ pc' = [pc EXCEPT ![c] = "waiting"]
           \/ UNCHANGED <<server, pc>>
    <3>1. state'[c] = "executing"
      BY <1>5 DEF Confirm, IInv, TypeOK
    <3> QED BY <1>5, <3>1, TokenRow
  <2> QED BY <1>0, <2>1 DEF TrailOK, procVars
<1>6. ASSUME NEW c \in Change, Finish(c) PROVE TrailOK'
  <2>1. /\ pc[c] # "idle" /\ pc' = [pc EXCEPT ![c] = "idle"]
        /\ server' = [server EXCEPT ![c] = NoProcess] /\ UNCHANGED procVars
    BY <1>6 DEF Finish
  <2>2. /\ \A d \in Change \ {c} : state'[d] = state[d] /\ Audited(d)' = Audited(d)
        /\ \/ state'[c] = state[c] /\ Audited(c)' = Audited(c)
           \/ /\ state[c] = "executing" /\ state'[c] = result[c].as
              /\ result[c].as \in Outcome
              /\ Audited(c)' \subseteq Audited(c) \cup {result[c].as, "failed"}
    BY <1>6, <2>1, FinishRow DEF TrailOK
  <2>3. \A d \in Change : pc'[d] # "idle" => d # c /\ pc[d] # "idle" /\ server'[d] = server[d]
    BY <1>0, <2>1
  <2>4. \A d \in Change : \A a \in Audited(d)' :
           /\ a \in Terminal \ {"failed"} => state'[d] = a
           /\ a \in Outcome => state'[d] \in Outcome
    BY <2>2 DEF TrailOK
  <2> QED BY <2>1, <2>2, <2>3, <2>4 DEF TrailOK, Audited, procVars
<1>7. ASSUME NEW c \in Change, Expire(c) \/ Enter(c) \/ Return(c) \/ Unwind(c) PROVE TrailOK'
  <2>1. /\ UNCHANGED <<state, trail, server>> /\ UNCHANGED procVars
        /\ \A d \in Change : pc'[d] # "idle" => pc[d] # "idle"
    BY <1>7, RowsStay
  <2> QED BY <2>1 DEF TrailOK, Audited, procVars
<1>8. CASE UNCHANGED vars
  BY <1>8 DEF vars, rowVars, procVars, callVars, TrailOK, Audited
<1> QED BY <1>2, <1>3, <1>4, <1>5, <1>6, <1>7, <1>8 DEF Next, RequestNext, CallNext

-----------------------------------------------------------------------------
(* Also without a row or a process the service reports what is so.         *)

RInv == IInv /\ CountOK /\ LifeOK /\ DrainOK /\ OwnOK

\* An empty database without processes satisfies every part.
LEMMA InitRecords == Init => RInv /\ TrailOK
<1> SUFFICES ASSUME Init PROVE RInv /\ TrailOK
  OBVIOUS
<1>1. \A p \in Process : Confirms(p) = {}
  BY ProcessAssumption DEF Init, Confirms
<1>2. CountOK
  BY <1>1, FS_EmptySet DEF Init, CountOK
<1>3. LifeOK /\ DrainOK
  BY <1>1 DEF Init, LifeOK, DrainOK, HoldsRuntimeLock
<1>4. OwnOK /\ TrailOK
  BY DEF Init, OwnOK, TrailOK, Audited
<1> QED BY <1>2, <1>3, <1>4, InitInv DEF RInv

\* The five parts hold of every reachable state, also under an online backup.
THEOREM RecordsInvariance == Spec => []RInv
<1>1. RInv /\ [Next]_vars => RInv'
  BY InvStep, CountStep, LifeStep, DrainStep, OwnStep DEF RInv
<1> QED BY <1>1, InitRecords, PTL DEF Spec

(* A shutdown that reported writesDrained for a store it had told to stop  *)
(* closes the database under no confirm, whatever is confirmed meanwhile.  *)
THEOREM DrainedMeansIdleHolds == Spec => []DrainedMeansIdle
<1>1. RInv => DrainedMeansIdle
  BY DEF RInv, DrainOK, DrainedMeansIdle
<1> QED BY <1>1, RecordsInvariance, PTL

(* What execute() came back with is what the row records, also when its    *)
(* audit INSERT fails (confirmChange and its catch).                       *)
THEOREM OutcomeKeptHolds == Spec => OutcomeKept
<1> DEFINE Kept == \A c \in Change :
             /\ pc[c] = "finishing" /\ pc'[c] = "idle"
             /\ store[server[c]] = "open" /\ store'[server[c]] = "open"
             /\ state[c] = "executing"
             => state'[c] = result[c].as
<1>1. ASSUME IInv, LifeOK, [Next]_vars PROVE [Kept]_vars
  <2> SUFFICES ASSUME NEW c \in Change, pc[c] = "finishing", pc'[c] = "idle", Next,
                      store[server[c]] = "open", store'[server[c]] = "open",
                      state[c] = "executing"
               PROVE  state'[c] = result[c].as
    BY <1>1
  <2>0. pc \in [Change -> Step] /\ store \in [Process -> {"none", "open", "closed"}] /\ server[c] \in Process
    BY <1>1 DEF IInv, TypeOK, CallOK
  <2>1. CASE Backup
    BY <2>1 DEF Backup, callVars
  <2>2. ASSUME NEW p \in Process, ProcessNext(p) PROVE FALSE
    <3>1. CASE Crash(p)
      BY <2>0, <3>1 DEF Crash, Confirms
    <3>2. CASE ~Crash(p)
      BY <2>2, <3>2 DEF ProcessNext, Start, OpenTenant, BeginShutdown, WaitForIdle, StopWaiting,
                        Close, callVars
    <3> QED BY <3>1, <3>2
  <2>3. ASSUME NEW d \in Change, RequestNext(d) PROVE FALSE
    <3>1. pc' = pc \/ pc' = [pc EXCEPT ![d] = "waiting"]
      BY <2>3 DEF RequestNext, Expire, Preview, Cancel, Confirm, callVars
    <3> QED BY <2>0, <3>1
  <2>4. ASSUME NEW d \in Change, CallNext(d) PROVE state'[c] = result[c].as
    <3>1. CASE Finish(c)
      BY <1>1, <3>1, FinishRow
    <3>2. CASE Finish(d) /\ d # c
      BY <2>0, <3>2 DEF Finish
    <3>3. CASE Enter(d)
      <4>1. pc' = [pc EXCEPT ![d] = "executing"] \/ UNCHANGED pc
        BY <3>3 DEF Enter
      <4> QED BY <2>0, <4>1
    <3>4. CASE Return(d) \/ Unwind(d)
      BY <2>0, <3>4 DEF Return, Unwind
    <3> QED BY <2>4, <3>1, <3>2, <3>3, <3>4 DEF CallNext
  <2> QED BY <2>1, <2>2, <2>3, <2>4 DEF Next
<1> QED BY <1>1, RecordsInvariance, PTL DEF Spec, RInv, OutcomeKept

(* Without an operator's backup beside the service everything it goes by   *)
(* and shows is true: the count, the owner of an executing row, the trail. *)
THEOREM RecordsAreTrueHolds == ~OnlineBackup => (Spec => []RecordsAreTrue)
<1> SUFFICES ASSUME ~OnlineBackup PROVE Spec => []RecordsAreTrue
  OBVIOUS
<1>1. RInv /\ TrailOK /\ [Next]_vars => TrailOK'
  BY TrailStep DEF RInv
<1>2. RInv /\ TrailOK => RecordsAreTrue
  <2> SUFFICES ASSUME RInv, TrailOK PROVE RecordsAreTrue
    OBVIOUS
  <2>1. ActiveCounts
    BY DEF RInv, CountOK, ActiveCounts
  <2>2. ExecutingIsOwned
    BY DEF RInv, OwnOK, Audited, ExecutingIsOwned
  <2>3. TrailSound
    BY DEF TrailOK, Audited, TrailSound
  <2> QED BY <2>1, <2>2, <2>3 DEF RecordsAreTrue
<1> QED BY <1>1, <1>2, InitRecords, RecordsInvariance, PTL DEF Spec

-----------------------------------------------------------------------------
(* No deadlock: the queues of the keys, who stands in them and in which    *)
(* order a confirm goes through them.                                      *)

\* A confirm stands in a queue for a key it holds or for the next it wants.
StandsIn(c, p, t) ==
    /\ server[c] = p
    /\ t \in held[c] \/ (pc[c] = "waiting" /\ IsNext(t, Wanted(c)))

\* The same after a step.
StandsAfter(c, p, t) ==
    /\ server'[c] = p
    /\ t \in held'[c] \/ (pc'[c] = "waiting" /\ IsNext(t, TargetsOf[c] \ held'[c]))

\* The queues hold nobody else and nobody twice.
QueuesOK ==
    \A p \in Process, t \in Target :
        /\ \A i \in 1 .. Len(queue[p][t]) : StandsIn(queue[p][t][i], p, t)
        /\ \A i, j \in 1 .. Len(queue[p][t]) : queue[p][t][i] = queue[p][t][j] => i = j

\* A waiting confirm queues for its next key, which is above those it holds.
WaitOK ==
    \A c \in Change : pc[c] = "waiting" =>
        /\ \E t \in Wanted(c) :
              /\ IsNext(t, Wanted(c))
              /\ \E i \in 1 .. Len(queue[server[c]][t]) : queue[server[c]][t][i] = c
        /\ \A h \in held[c], w \in Wanted(c) : h < w

QInv == IInv /\ QueuesOK /\ WaitOK

\* Nobody else's place changes when no queue, call or key does.
LEMMA QueuesStay ==
  ASSUME QueuesOK, WaitOK, UNCHANGED <<queue, held, pc, server>>
  PROVE  QueuesOK' /\ WaitOK'
  BY DEF QueuesOK, WaitOK, StandsIn, Wanted, IsNext

\* A process that dies empties its queues and frees those who stood in them.
LEMMA CrashQueues ==
  ASSUME QInv, NEW p \in Process, Crash(p)
  PROVE  QueuesOK' /\ WaitOK'
<1> USE DEF QInv, IInv
<1>1. /\ \A q \in Process, t \in Target :
            queue'[q][t] = IF q = p THEN <<>> ELSE queue[q][t]
      /\ \A c \in Change :
            IF server[c] = p THEN pc'[c] = "idle"
            ELSE pc'[c] = pc[c] /\ held'[c] = held[c] /\ server'[c] = server[c]
  BY DEF Crash, Confirms, TypeOK
<1>2. QueuesOK'
  <2> SUFFICES ASSUME NEW q \in Process, NEW t \in Target
               PROVE  /\ \A i \in 1 .. Len(queue'[q][t]) : StandsAfter(queue'[q][t][i], q, t)
                      /\ \A i, j \in 1 .. Len(queue'[q][t]) :
                            queue'[q][t][i] = queue'[q][t][j] => i = j
    BY DEF QueuesOK, StandsIn, StandsAfter, Wanted, IsNext
  <2>1. CASE q = p
    BY <1>1, <2>1
  <2>2. CASE q # p
    <3>1. queue'[q][t] = queue[q][t] /\ queue[q][t] \in Seq(Change)
      BY <1>1, <2>2 DEF TypeOK
    <3>2. ASSUME NEW i \in 1 .. Len(queue[q][t]) PROVE StandsAfter(queue[q][t][i], q, t)
      <4>1. queue[q][t][i] \in Change /\ StandsIn(queue[q][t][i], q, t)
        BY <3>1 DEF QueuesOK
      <4> QED BY <1>1, <2>2, <4>1 DEF StandsIn, StandsAfter, Wanted, IsNext
    <3> QED BY <3>1, <3>2 DEF QueuesOK
  <2> QED BY <2>1, <2>2
<1>3. WaitOK'
  <2> SUFFICES ASSUME NEW c \in Change, pc'[c] = "waiting"
               PROVE  /\ \E t \in Wanted(c)' :
                            /\ IsNext(t, Wanted(c)')
                            /\ \E i \in 1 .. Len(queue'[server'[c]][t]) :
                                  queue'[server'[c]][t][i] = c
                      /\ \A h \in held'[c], w \in Wanted(c)' : h < w
    BY DEF WaitOK, IsNext
  <2>1. /\ server[c] # p /\ pc[c] = "waiting" /\ held'[c] = held[c] /\ server'[c] = server[c]
        /\ Wanted(c)' = Wanted(c) /\ Wanted(c) \subseteq Target /\ server[c] \in Process
    BY <1>1, TargetsOfAssumption DEF Wanted, TypeOK, CallOK
  <2>2. \A t \in Target : queue'[server'[c]][t] = queue[server[c]][t]
    BY <1>1, <2>1
  <2> QED BY <2>1, <2>2 DEF WaitOK
<1> QED BY <1>2, <1>3

\* Where a queue is longer by one confirm everybody else keeps the place.
LEMMA AppendPlaces ==
  ASSUME TypeOK, NEW p \in Process, NEW t \in Target, NEW c \in Change, Enqueue(p, t, c),
         NEW q \in Process, NEW u \in Target
  PROVE  /\ queue[q][u] \in Seq(Change)
         /\ q # p \/ u # t => queue'[q][u] = queue[q][u]
         /\ q = p /\ u = t =>
               /\ Len(queue'[q][u]) = Len(queue[q][u]) + 1
               /\ Len(queue[q][u]) \in Nat
               /\ queue'[q][u][Len(queue[q][u]) + 1] = c
               /\ \A i \in 1 .. Len(queue[q][u]) : queue'[q][u][i] = queue[q][u][i]
<1>1. queue[q][u] \in Seq(Change) /\ Len(queue[q][u]) \in Nat
  BY DEF TypeOK
<1>2. q # p \/ u # t => queue'[q][u] = queue[q][u]
  BY DEF Enqueue, TypeOK
<1>3. CASE q = p /\ u = t
  <2>1. queue'[q][u] = Append(queue[q][u], c)
    BY <1>3 DEF Enqueue, TypeOK
  <2> QED BY <1>1, <1>3, <2>1
<1> QED BY <1>1, <1>2, <1>3

\* One more confirm at the end of one queue, where it was not, keeps the queues.
LEMMA AppendQueues ==
  ASSUME QInv, NEW p \in Process, NEW t \in Target, NEW c \in Change, Enqueue(p, t, c),
         \A i \in 1 .. Len(queue[p][t]) : queue[p][t][i] # c,
         StandsAfter(c, p, t),
         \A q \in Process, u \in Target : StandsIn(c, q, u) => StandsAfter(c, q, u),
         \A d \in Change \ {c} : pc'[d] = pc[d] /\ held'[d] = held[d] /\ server'[d] = server[d]
  PROVE  QueuesOK'
<1> SUFFICES ASSUME NEW q \in Process, NEW u \in Target
             PROVE  /\ \A i \in 1 .. Len(queue'[q][u]) : StandsAfter(queue'[q][u][i], q, u)
                    /\ \A i, j \in 1 .. Len(queue'[q][u]) :
                          queue'[q][u][i] = queue'[q][u][j] => i = j
  BY DEF QueuesOK, StandsIn, StandsAfter, Wanted, IsNext
<1>1. /\ queue[q][u] \in Seq(Change) /\ Len(queue[q][u]) \in Nat
      /\ q # p \/ u # t => queue'[q][u] = queue[q][u]
      /\ q = p /\ u = t =>
            /\ Len(queue'[q][u]) = Len(queue[q][u]) + 1
            /\ queue'[q][u][Len(queue[q][u]) + 1] = c
            /\ \A i \in 1 .. Len(queue[q][u]) : queue'[q][u][i] = queue[q][u][i]
  BY AppendPlaces DEF QInv, IInv
<1>2. ASSUME NEW i \in 1 .. Len(queue[q][u]) PROVE StandsAfter(queue[q][u][i], q, u)
  <2>1. queue[q][u][i] \in Change /\ StandsIn(queue[q][u][i], q, u)
    BY <1>1 DEF QInv, QueuesOK
  <2>2. CASE queue[q][u][i] = c
    BY <2>1, <2>2
  <2>3. CASE queue[q][u][i] # c
    BY <2>1, <2>3 DEF StandsIn, StandsAfter, Wanted, IsNext
  <2> QED BY <2>2, <2>3
<1>3. \A i, j \in 1 .. Len(queue[q][u]) : queue[q][u][i] = queue[q][u][j] => i = j
  BY DEF QInv, QueuesOK
<1>4. CASE q # p \/ u # t
  BY <1>1, <1>2, <1>3, <1>4
<1>5. CASE q = p /\ u = t
  <2>1. \A i \in 1 .. Len(queue'[q][u]) :
          \/ i = Len(queue[q][u]) + 1 /\ queue'[q][u][i] = c
          \/ /\ i \in 1 .. Len(queue[q][u])
             /\ queue'[q][u][i] = queue[q][u][i] /\ queue[q][u][i] # c
    BY <1>1, <1>5
  <2>2. ASSUME NEW i \in 1 .. Len(queue'[q][u]) PROVE StandsAfter(queue'[q][u][i], q, u)
    BY <1>2, <1>5, <2>1
  <2>3. ASSUME NEW i \in 1 .. Len(queue'[q][u]), NEW j \in 1 .. Len(queue'[q][u]),
               queue'[q][u][i] = queue'[q][u][j]
        PROVE  i = j
    BY <1>3, <2>1, <2>3
  <2> QED BY <2>2, <2>3
<1> QED BY <1>4, <1>5

\* The others go on waiting where they were when one queue grows.
LEMMA AppendWaits ==
  ASSUME QInv, NEW p \in Process, NEW t \in Target, NEW c \in Change, Enqueue(p, t, c),
         \A d \in Change \ {c} : pc'[d] = pc[d] /\ held'[d] = held[d] /\ server'[d] = server[d],
         NEW d \in Change \ {c}, pc[d] = "waiting"
  PROVE  /\ \E u \in Wanted(d)' :
               /\ IsNext(u, Wanted(d)')
               /\ \E i \in 1 .. Len(queue'[server'[d]][u]) : queue'[server'[d]][u][i] = d
         /\ \A h \in held'[d], w \in Wanted(d)' : h < w
<1>1. PICK u \in Wanted(d) : /\ IsNext(u, Wanted(d))
                             /\ \E i \in 1 .. Len(queue[server[d]][u]) : queue[server[d]][u][i] = d
  BY DEF QInv, WaitOK
<1>2. Wanted(d)' = Wanted(d) /\ server'[d] = server[d] /\ server[d] \in Process /\ u \in Target
  BY TargetsOfAssumption DEF Wanted, QInv, IInv, TypeOK, CallOK
<1>3. PICK i \in 1 .. Len(queue[server[d]][u]) : queue[server[d]][u][i] = d
  BY <1>1
<1>4. i \in 1 .. Len(queue'[server[d]][u]) /\ queue'[server[d]][u][i] = d
  <2>1. CASE server[d] # p \/ u # t
    BY <1>2, <1>3, <2>1, AppendPlaces DEF QInv, IInv
  <2>2. CASE server[d] = p /\ u = t
    <3>1. /\ Len(queue'[server[d]][u]) = Len(queue[server[d]][u]) + 1
          /\ Len(queue[server[d]][u]) \in Nat
          /\ \A j \in 1 .. Len(queue[server[d]][u]) :
                queue'[server[d]][u][j] = queue[server[d]][u][j]
      BY <1>2, <2>2, AppendPlaces DEF QInv, IInv
    <3> QED BY <1>3, <3>1
  <2> QED BY <2>1, <2>2
<1>5. \A h \in held'[d], w \in Wanted(d)' : h < w
  BY <1>2 DEF QInv, WaitOK
<1> QED BY <1>1, <1>2, <1>4, <1>5

\* A confirm that claims its row queues up for the least of its keys.
LEMMA ConfirmQueues ==
  ASSUME QInv, NEW p \in Process, NEW c \in Change, Confirm(p, c)
  PROVE  QueuesOK' /\ WaitOK'
<1>1. /\ pc[c] = "idle" /\ server[c] = NoProcess /\ held[c] = {} /\ UNCHANGED held
      /\ NoProcess \notin Process
  BY PreviewedIsIdle, ProcessAssumption DEF Confirm, Accepts, QInv
<1>2. CASE UNCHANGED <<pc, server, queue>>
  BY <1>1, <1>2, QueuesStay DEF QInv
<1>3. ASSUME /\ pc' = [pc EXCEPT ![c] = "waiting"]
             /\ server' = [server EXCEPT ![c] = p],
             NEW t \in Target, IsNext(t, TargetsOf[c]), Enqueue(p, t, c)
      PROVE  QueuesOK' /\ WaitOK'
  <2>1. /\ pc'[c] = "waiting" /\ server'[c] = p /\ held'[c] = {} /\ Wanted(c)' = TargetsOf[c]
        /\ \A d \in Change \ {c} : pc'[d] = pc[d] /\ held'[d] = held[d] /\ server'[d] = server[d]
    BY <1>1, <1>3 DEF QInv, IInv, TypeOK, Wanted
  <2>2. \A i \in 1 .. Len(queue[p][t]) : queue[p][t][i] # c
    BY <1>1 DEF QInv, QueuesOK, StandsIn
  <2>3. StandsAfter(c, p, t)
    BY <1>3, <2>1 DEF StandsAfter, Wanted, IsNext
  <2>4. \A q \in Process, u \in Target : StandsIn(c, q, u) => StandsAfter(c, q, u)
    BY <1>1 DEF StandsIn
  <2>5. QueuesOK'
    BY <1>3, <2>1, <2>2, <2>3, <2>4, AppendQueues
  <2>6. /\ t \in Wanted(c)' /\ IsNext(t, Wanted(c)')
        /\ \E i \in 1 .. Len(queue'[server'[c]][t]) : queue'[server'[c]][t][i] = c
        /\ \A h \in held'[c], w \in Wanted(c)' : h < w
    <3>1. /\ Len(queue'[p][t]) = Len(queue[p][t]) + 1
          /\ Len(queue[p][t]) \in Nat
          /\ queue'[p][t][Len(queue[p][t]) + 1] = c
      BY <1>3, AppendPlaces DEF QInv, IInv
    <3> QED BY <1>3, <2>1, <3>1 DEF IsNext
  <2>7. WaitOK'
    <3> SUFFICES ASSUME NEW d \in Change, pc'[d] = "waiting"
                 PROVE  /\ \E u \in Wanted(d)' :
                              /\ IsNext(u, Wanted(d)')
                              /\ \E i \in 1 .. Len(queue'[server'[d]][u]) :
                                    queue'[server'[d]][u][i] = d
                        /\ \A h \in held'[d], w \in Wanted(d)' : h < w
      BY DEF WaitOK, IsNext
    <3>1. CASE d = c
      BY <2>6, <3>1
    <3>2. CASE d # c
      <4>1. d \in Change \ {c} /\ pc[d] = "waiting"
        BY <2>1, <3>2
      <4> QED BY <1>3, <2>1, <4>1, AppendWaits
    <3> QED BY <3>1, <3>2
  <2> QED BY <2>5, <2>7
<1> QED BY <1>2, <1>3 DEF Confirm

\* A confirm that is let in queues up for the next of its keys, or has them all.
LEMMA EnterQueues ==
  ASSUME QInv, NEW c \in Change, Enter(c)
  PROVE  QueuesOK' /\ WaitOK'
<1> DEFINE p == server[c]
<1>1. /\ pc[c] = "waiting" /\ p \in Process /\ UNCHANGED server
      /\ Wanted(c) \subseteq Target /\ Target \subseteq Nat
      /\ held[c] \subseteq TargetsOf[c] /\ TargetsOf[c] \subseteq Target
  BY TargetAssumption, TargetsOfAssumption
  DEF Enter, QInv, IInv, TypeOK, CallOK, HeldOK, Wanted
<1>2. PICK t \in Wanted(c) :
        /\ Granted(p, t, c)
        /\ held' = [held EXCEPT ![c] = @ \cup {t}]
        /\ IF Wanted(c) = {t}
           THEN /\ pc' = [pc EXCEPT ![c] = "executing"]
                /\ UNCHANGED queue
           ELSE /\ \E u \in Wanted(c) : IsNext(u, Wanted(c) \ {t}) /\ Enqueue(p, u, c)
                /\ UNCHANGED pc
  BY DEF Enter
<1>3. /\ held'[c] = held[c] \cup {t} /\ \A d \in Change \ {c} : held'[d] = held[d]
      /\ Wanted(c)' = Wanted(c) \ {t} /\ t \notin held[c]
  BY <1>1, <1>2 DEF QInv, IInv, TypeOK, Wanted
<1>4. IsNext(t, Wanted(c)) /\ t \in Target /\ t \in Nat /\ \A w \in Wanted(c) \ {t} : t < w
  <2>1. t \in Target /\ t \in Nat /\ Wanted(c) \subseteq Nat
    BY <1>1, <1>2
  <2>2. queue[p][t] \in Seq(Change) /\ queue[p][t] # <<>> /\ Head(queue[p][t]) = c
    BY <1>1, <1>2, <2>1 DEF Granted, QInv, IInv, TypeOK
  <2>3. 1 \in 1 .. Len(queue[p][t]) /\ queue[p][t][1] = c
    BY <2>2
  <2>4. StandsIn(c, p, t)
    BY <1>1, <2>1, <2>3 DEF QInv, QueuesOK
  <2>5. IsNext(t, Wanted(c))
    BY <1>3, <2>4 DEF StandsIn
  <2> QED BY <2>1, <2>5 DEF IsNext
<1>5. \A d \in Change \ {c} : pc'[d] = pc[d] /\ held'[d] = held[d] /\ server'[d] = server[d]
  BY <1>1, <1>2, <1>3 DEF QInv, IInv, TypeOK
<1>6. \A q \in Process, u \in Target : StandsIn(c, q, u) => StandsAfter(c, q, u)
  <2> SUFFICES ASSUME NEW q \in Process, NEW u \in Target, StandsIn(c, q, u)
               PROVE  StandsAfter(c, q, u)
    OBVIOUS
  <2>1. u \in held[c] \/ u = t
    BY <1>1, <1>2, <1>4 DEF StandsIn, IsNext
  <2> QED BY <1>1, <1>3, <2>1 DEF StandsIn, StandsAfter
<1>7. CASE Wanted(c) = {t}
  <2>1. UNCHANGED queue /\ pc'[c] # "waiting"
    BY <1>2, <1>7 DEF QInv, IInv, TypeOK
  <2>2. QueuesOK'
    <3> SUFFICES ASSUME NEW q \in Process, NEW u \in Target, NEW i \in 1 .. Len(queue[q][u])
                 PROVE  StandsAfter(queue[q][u][i], q, u)
      BY <2>1 DEF QInv, QueuesOK, StandsIn, StandsAfter, Wanted, IsNext
    <3>1. queue[q][u][i] \in Change /\ StandsIn(queue[q][u][i], q, u)
      BY DEF QInv, IInv, TypeOK, QueuesOK
    <3> QED BY <1>5, <1>6, <3>1 DEF StandsIn, StandsAfter, Wanted, IsNext
  <2>3. WaitOK'
    BY <1>5, <2>1 DEF QInv, WaitOK, Wanted, IsNext
  <2> QED BY <2>2, <2>3
<1>8. CASE Wanted(c) # {t}
  <2>1. UNCHANGED pc
    BY <1>2, <1>8
  <2>2. PICK u \in Wanted(c) : IsNext(u, Wanted(c) \ {t}) /\ Enqueue(p, u, c)
    BY <1>2, <1>8
  <2>3. u \in Target /\ u # t /\ u \in Nat /\ t \in Nat /\ t < u
    BY <1>1, <1>4, <2>2 DEF IsNext
  <2>4. \A i \in 1 .. Len(queue[p][u]) : queue[p][u][i] # c
    <3> SUFFICES ASSUME NEW i \in 1 .. Len(queue[p][u]), queue[p][u][i] = c PROVE FALSE
      OBVIOUS
    <3>1. StandsIn(c, p, u)
      BY <1>1, <2>3 DEF QInv, QueuesOK
    <3> QED BY <1>2, <2>2, <2>3, <3>1 DEF StandsIn, IsNext, Wanted
  <2>5. StandsAfter(c, p, u)
    BY <1>1, <1>3, <2>1, <2>2 DEF StandsAfter, Wanted
  <2>6. QueuesOK'
    BY <1>1, <1>5, <1>6, <2>2, <2>3, <2>4, <2>5, AppendQueues
  <2>7. /\ u \in Wanted(c)' /\ IsNext(u, Wanted(c)')
        /\ \E i \in 1 .. Len(queue'[server'[c]][u]) : queue'[server'[c]][u][i] = c
    <3>1. /\ Len(queue'[p][u]) = Len(queue[p][u]) + 1
          /\ Len(queue[p][u]) \in Nat
          /\ queue'[p][u][Len(queue[p][u]) + 1] = c
      BY <1>1, <2>2, <2>3, AppendPlaces DEF QInv, IInv
    <3>2. u \in Wanted(c)' /\ IsNext(u, Wanted(c)')
      BY <1>3, <2>2 DEF IsNext
    <3>3. Len(queue[p][u]) + 1 \in 1 .. Len(queue'[p][u]) /\ server'[c] = p
      BY <1>1, <3>1
    <3> QED BY <3>1, <3>2, <3>3
  <2>8. \A h \in held'[c], w \in Wanted(c)' : h < w
    <3> SUFFICES ASSUME NEW h \in held'[c], NEW w \in Wanted(c) \ {t} PROVE h < w
      BY <1>3
    <3>1. CASE h = t
      BY <1>4, <3>1
    <3>2. CASE h # t
      BY <1>1, <1>3, <3>2 DEF QInv, WaitOK
    <3> QED BY <3>1, <3>2
  <2>9. WaitOK'
    <3> SUFFICES ASSUME NEW d \in Change, pc'[d] = "waiting"
                 PROVE  /\ \E k \in Wanted(d)' :
                              /\ IsNext(k, Wanted(d)')
                              /\ \E i \in 1 .. Len(queue'[server'[d]][k]) :
                                    queue'[server'[d]][k][i] = d
                        /\ \A h \in held'[d], w \in Wanted(d)' : h < w
      BY DEF WaitOK, IsNext
    <3>1. CASE d = c
      BY <2>7, <2>8, <3>1
    <3>2. CASE d # c
      <4>1. d \in Change \ {c} /\ pc[d] = "waiting"
        BY <2>1, <3>2
      <4> QED BY <1>1, <1>5, <2>2, <2>3, <4>1, AppendWaits
    <3> QED BY <3>1, <3>2
  <2> QED BY <2>6, <2>9
<1> QED BY <1>7, <1>8

\* Where a queue loses its head everybody else moves up by one.
LEMMA TailPlaces ==
  ASSUME NEW s \in Seq(Change), s # <<>>
  PROVE  /\ Len(s) \in Nat /\ Len(s) > 0 /\ Len(Tail(s)) = Len(s) - 1
         /\ \A i \in 1 .. Len(Tail(s)) : Tail(s)[i] = s[i + 1]
  OBVIOUS

\* Releasing a key takes a confirm out of the one queue where it no longer stands.
LEMMA UnwindQueues ==
  ASSUME QInv, NEW c \in Change, Unwind(c)
  PROVE  QueuesOK' /\ WaitOK'
<1> DEFINE p == server[c]
<1>1. /\ pc[c] = "unwinding" /\ p \in Process /\ UNCHANGED server
  BY DEF Unwind, QInv, IInv, TypeOK, CallOK
<1>2. PICK t \in held[c] :
        /\ queue' = [queue EXCEPT ![p][t] = Tail(@)]
        /\ held' = [held EXCEPT ![c] = @ \ {t}]
        /\ pc' = [pc EXCEPT ![c] = IF held[c] = {t} THEN "finishing" ELSE @]
  BY DEF Unwind, Release
<1>3. t \in Target /\ queue[p][t] \in Seq(Change) /\ queue[p][t] # <<>> /\ Head(queue[p][t]) = c
  BY <1>1, <1>2 DEF QInv, IInv, TypeOK, HolderFirst
<1>4. /\ \A q \in Process, u \in Target : q # p \/ u # t => queue'[q][u] = queue[q][u]
      /\ queue'[p][t] = Tail(queue[p][t])
  BY <1>1, <1>2, <1>3 DEF QInv, IInv, TypeOK
<1>5. /\ Len(queue[p][t]) \in Nat /\ Len(queue[p][t]) > 0
      /\ Len(queue'[p][t]) = Len(queue[p][t]) - 1
      /\ queue[p][t][1] = c
      /\ \A i \in 1 .. Len(queue'[p][t]) : queue'[p][t][i] = queue[p][t][i + 1]
  BY <1>3, <1>4, TailPlaces
<1>6. /\ \A d \in Change \ {c} : pc'[d] = pc[d] /\ held'[d] = held[d] /\ server'[d] = server[d]
      /\ pc'[c] # "waiting" /\ held'[c] = held[c] \ {t}
  BY <1>1, <1>2 DEF QInv, IInv, TypeOK
<1>7. QueuesOK'
  <2> SUFFICES ASSUME NEW q \in Process, NEW u \in Target
               PROVE  /\ \A i \in 1 .. Len(queue'[q][u]) : StandsAfter(queue'[q][u][i], q, u)
                      /\ \A i, j \in 1 .. Len(queue'[q][u]) :
                            queue'[q][u][i] = queue'[q][u][j] => i = j
    BY DEF QueuesOK, StandsIn, StandsAfter, Wanted, IsNext
  <2>1. ASSUME NEW d \in Change, StandsIn(d, q, u), q # p \/ u # t \/ d # c
        PROVE  StandsAfter(d, q, u)
    <3>1. CASE d = c
      BY <1>1, <1>6, <2>1, <3>1 DEF StandsIn, StandsAfter
    <3>2. CASE d # c
      BY <1>6, <2>1, <3>2 DEF StandsIn, StandsAfter, Wanted
    <3> QED BY <3>1, <3>2
  <2>2. /\ queue[q][u] \in Seq(Change)
        /\ \A i \in 1 .. Len(queue[q][u]) : queue[q][u][i] \in Change /\ StandsIn(queue[q][u][i], q, u)
        /\ \A i, j \in 1 .. Len(queue[q][u]) : queue[q][u][i] = queue[q][u][j] => i = j
    BY DEF QInv, IInv, TypeOK, QueuesOK
  <2>3. CASE q # p \/ u # t
    BY <1>4, <2>1, <2>2, <2>3
  <2>4. CASE q = p /\ u = t
    <3>1. ASSUME NEW i \in 1 .. Len(queue'[q][u])
          PROVE  /\ i + 1 \in 1 .. Len(queue[q][u]) /\ i + 1 # 1 /\ 1 \in 1 .. Len(queue[q][u])
                 /\ queue'[q][u][i] = queue[q][u][i + 1]
      BY <1>5, <2>4, <3>1
    <3>2. ASSUME NEW i \in 1 .. Len(queue'[q][u]) PROVE StandsAfter(queue'[q][u][i], q, u)
      <4>1. queue'[q][u][i] \in Change /\ StandsIn(queue'[q][u][i], q, u)
        BY <2>2, <3>1
      <4>2. queue'[q][u][i] # c
        BY <1>5, <2>2, <2>4, <3>1
      <4> QED BY <2>1, <4>1, <4>2
    <3>3. ASSUME NEW i \in 1 .. Len(queue'[q][u]), NEW j \in 1 .. Len(queue'[q][u]),
                 queue'[q][u][i] = queue'[q][u][j]
          PROVE  i = j
      <4>1. i + 1 = j + 1
        BY <2>2, <3>1, <3>3
      <4> QED BY <1>5, <2>4, <4>1
    <3> QED BY <3>2, <3>3
  <2> QED BY <2>3, <2>4
<1>8. WaitOK'
  <2> SUFFICES ASSUME NEW d \in Change, pc'[d] = "waiting"
               PROVE  /\ \E k \in Wanted(d)' :
                            /\ IsNext(k, Wanted(d)')
                            /\ \E i \in 1 .. Len(queue'[server'[d]][k]) :
                                  queue'[server'[d]][k][i] = d
                      /\ \A h \in held'[d], w \in Wanted(d)' : h < w
    BY DEF WaitOK, IsNext
  <2>1. /\ d # c /\ pc[d] = "waiting" /\ held'[d] = held[d] /\ server'[d] = server[d]
        /\ Wanted(d)' = Wanted(d) /\ Wanted(d) \subseteq Target /\ server[d] \in Process
    BY <1>6, TargetsOfAssumption DEF QInv, IInv, TypeOK, CallOK, Wanted
  <2>2. PICK k \in Wanted(d) : /\ IsNext(k, Wanted(d))
                               /\ \E i \in 1 .. Len(queue[server[d]][k]) : queue[server[d]][k][i] = d
    BY <2>1 DEF QInv, WaitOK
  <2>3. PICK i \in 1 .. Len(queue[server[d]][k]) : queue[server[d]][k][i] = d
    BY <2>2
  <2>4. \E j \in 1 .. Len(queue'[server[d]][k]) : queue'[server[d]][k][j] = d
    <3>1. CASE server[d] # p \/ k # t
      BY <1>4, <2>1, <2>3, <3>1
    <3>2. CASE server[d] = p /\ k = t
      <4>1. i # 1
        BY <1>5, <2>1, <2>3, <3>2
      <4>2. i - 1 \in 1 .. Len(queue'[server[d]][k]) /\ (i - 1) + 1 = i
        BY <1>5, <2>3, <3>2, <4>1
      <4> QED BY <1>5, <2>3, <3>2, <4>2
    <3> QED BY <3>1, <3>2
  <2> QED BY <2>1, <2>2, <2>4 DEF QInv, WaitOK
<1> QED BY <1>7, <1>8

\* A confirm that is over stood in no queue any more.
LEMMA FinishQueues ==
  ASSUME QInv, NEW c \in Change, Finish(c)
  PROVE  QueuesOK' /\ WaitOK'
<1>1. pc[c] = "finishing" /\ held[c] = {} /\ UNCHANGED lockVars
  BY DEF Finish, QInv, IInv, HeldOK
<1>2. /\ \A d \in Change \ {c} : pc'[d] = pc[d] /\ server'[d] = server[d]
      /\ pc'[c] = "idle"
  BY DEF Finish, QInv, IInv, TypeOK
<1>3. QueuesOK'
  <2> SUFFICES ASSUME NEW q \in Process, NEW u \in Target, NEW i \in 1 .. Len(queue[q][u])
               PROVE  StandsAfter(queue[q][u][i], q, u)
    BY <1>1 DEF QInv, QueuesOK, StandsIn, StandsAfter, Wanted, IsNext, lockVars
  <2>1. queue[q][u][i] \in Change /\ StandsIn(queue[q][u][i], q, u)
    BY DEF QInv, IInv, TypeOK, QueuesOK
  <2>2. queue[q][u][i] # c
    BY <1>1, <2>1 DEF StandsIn
  <2> QED BY <1>1, <1>2, <2>1, <2>2 DEF StandsIn, StandsAfter, Wanted, lockVars
<1>4. WaitOK'
  BY <1>1, <1>2 DEF QInv, WaitOK, Wanted, IsNext, lockVars
<1> QED BY <1>3, <1>4

\* An execution that comes back holds its keys.
LEMMA ReturnQueues ==
  ASSUME QInv, NEW c \in Change, Return(c)
  PROVE  QueuesOK' /\ WaitOK'
<1>1. /\ pc[c] = "executing" /\ UNCHANGED <<queue, held, server>>
      /\ pc'[c] # "waiting" /\ \A d \in Change \ {c} : pc'[d] = pc[d]
  BY DEF Return, QInv, IInv, TypeOK, lockVars
<1>2. QueuesOK'
  <2> SUFFICES ASSUME NEW q \in Process, NEW u \in Target, NEW i \in 1 .. Len(queue[q][u])
               PROVE  StandsAfter(queue[q][u][i], q, u)
    BY <1>1 DEF QInv, QueuesOK, StandsIn, StandsAfter, Wanted, IsNext
  <2>1. queue[q][u][i] \in Change /\ StandsIn(queue[q][u][i], q, u)
    BY DEF QInv, IInv, TypeOK, QueuesOK
  <2> QED BY <1>1, <2>1 DEF StandsIn, StandsAfter, Wanted
<1>3. WaitOK'
  BY <1>1 DEF QInv, WaitOK, Wanted, IsNext
<1> QED BY <1>2, <1>3

\* Every step keeps the order of the queues.
LEMMA QueuesStep == QInv /\ [Next]_vars => QInv'
<1> SUFFICES ASSUME QInv, [Next]_vars PROVE QueuesOK' /\ WaitOK'
  BY InvStep DEF QInv
<1>1. ASSUME NEW p \in Process, ProcessNext(p) PROVE QueuesOK' /\ WaitOK'
  <2>1. CASE Crash(p)
    BY <2>1, CrashQueues
  <2>2. CASE ~Crash(p)
    <3>1. UNCHANGED <<queue, held, pc, server>>
      BY <1>1, <2>2 DEF ProcessNext, Start, OpenTenant, BeginShutdown, WaitForIdle, StopWaiting,
                        Close, lockVars, callVars
    <3> QED BY <3>1, QueuesStay DEF QInv
  <2> QED BY <2>1, <2>2
<1>2. ASSUME NEW c \in Change, RequestNext(c) PROVE QueuesOK' /\ WaitOK'
  <2>1. ASSUME NEW p \in Process, Confirm(p, c) PROVE QueuesOK' /\ WaitOK'
    BY <2>1, ConfirmQueues
  <2>2. CASE \A p \in Process : ~Confirm(p, c)
    <3>1. UNCHANGED <<queue, held, pc, server>>
      BY <1>2, <2>2 DEF RequestNext, Expire, Preview, Cancel, lockVars, callVars
    <3> QED BY <3>1, QueuesStay DEF QInv
  <2> QED BY <2>1, <2>2
<1>3. ASSUME NEW c \in Change, CallNext(c) PROVE QueuesOK' /\ WaitOK'
  BY <1>3, EnterQueues, ReturnQueues, UnwindQueues, FinishQueues DEF CallNext
<1>4. CASE Backup
  <2>1. UNCHANGED <<queue, held, pc, server>>
    BY <1>4 DEF Backup, lockVars, callVars
  <2> QED BY <2>1, QueuesStay DEF QInv
<1>5. CASE UNCHANGED vars
  <2>1. UNCHANGED <<queue, held, pc, server>>
    BY <1>5 DEF vars, lockVars, callVars
  <2> QED BY <2>1, QueuesStay DEF QInv
<1> QED BY <1>1, <1>2, <1>3, <1>4, <1>5 DEF Next

\* The queues are in order in every reachable state.
THEOREM QueuesInvariance == Spec => []QInv
<1>1. Init => QInv
  <2>1. Init => QueuesOK /\ WaitOK
    BY DEF Init, QueuesOK, WaitOK
  <2> QED BY <2>1, InitInv DEF QInv
<1> QED BY <1>1, QueuesStep, PTL DEF Spec

\* A set of numbers that is not empty has a least one.
LEMMA Least ==
  ASSUME NEW N, N \subseteq Nat, N # {}
  PROVE  \E n \in N : \A m \in N : n <= m
<1> DEFINE U == {1 .. n : n \in N}
<1>1. U \subseteq FiniteSubsetsOf(Nat) /\ U # {}
  <2>1. U \subseteq FiniteSubsetsOf(Nat)
    BY FS_Interval DEF FiniteSubsetsOf
  <2>2. U # {}
    OBVIOUS
  <2> QED BY <2>1, <2>2
<1>2. PICK x \in U : \A y \in U : ~(<<y, x>> \in StrictSubsetOrdering(Nat))
  <2>1. IsWellFoundedOn(StrictSubsetOrdering(Nat), FiniteSubsetsOf(Nat))
    BY FS_StrictSubsetOrderingWellFounded
  <2> HIDE DEF U
  <2> QED BY <1>1, <2>1, WFMin
<1>3. PICK n \in N : x = 1 .. n
  OBVIOUS
<1>4. SUFFICES ASSUME NEW m \in N, m < n PROVE FALSE
  BY <1>3
<1>5. /\ 1 .. m \in SUBSET Nat /\ 1 .. n \in SUBSET Nat
      /\ 1 .. m \subseteq 1 .. n /\ n \in 1 .. n /\ n \notin 1 .. m
  BY <1>4
<1>6. <<1 .. m, 1 .. n>> \in StrictSubsetOrdering(Nat)
  BY <1>5 DEF StrictSubsetOrdering
<1> QED BY <1>2, <1>3, <1>6

\* Of finitely many things with a number one has the greatest: the smallest set
\* in which none has would have none without one of its elements either.
LEMMA Greatest ==
  ASSUME NEW S, S # {}, IsFiniteSet(S), NEW f \in [S -> Nat]
  PROVE  \E k \in S : \A m \in S : f[m] <= f[k]
<1> DEFINE Bad(F) == F \subseteq S /\ F # {} /\ IsFiniteSet(F) /\ ~\E k \in F : \A m \in F : f[m] <= f[k]
           N == {n \in Nat : \E F \in SUBSET S : Bad(F) /\ Cardinality(F) = n}
<1>1. SUFFICES ASSUME Bad(S) PROVE FALSE
  OBVIOUS
<1>2. N # {} /\ N \subseteq Nat
  BY <1>1, FS_CardinalityType
<1>3. PICK n \in N : \A m \in N : n <= m
  <2> HIDE DEF N
  <2> QED BY <1>2, Least
<1>4. PICK F \in SUBSET S : Bad(F) /\ Cardinality(F) = n
  OBVIOUS
<1>5. PICK x \in F : TRUE
  BY <1>4
<1>6. /\ IsFiniteSet(F \ {x}) /\ Cardinality(F \ {x}) = Cardinality(F) - 1
      /\ Cardinality(F \ {x}) \in Nat
  BY <1>4, <1>5, FS_RemoveElement, FS_CardinalityType
<1>7. ~Bad(F \ {x})
  <2> SUFFICES ASSUME Bad(F \ {x}) PROVE FALSE
    OBVIOUS
  <2>1. Cardinality(F \ {x}) \in N
    BY <1>4, <1>6
  <2> HIDE DEF N, Bad
  <2> QED BY <1>2, <1>3, <1>4, <1>6, <2>1
<1>8. CASE F = {x}
  BY <1>4, <1>5, <1>8
<1>9. CASE F # {x}
  <2>1. F \ {x} # {} /\ F \ {x} \subseteq S
    BY <1>4, <1>5, <1>9
  <2>2. PICK k \in F \ {x} : \A m \in F \ {x} : f[m] <= f[k]
    BY <1>6, <1>7, <2>1
  <2>3. k \in F /\ f[k] \in Nat /\ f[x] \in Nat /\ \A m \in F : f[m] \in Nat
    BY <1>4, <1>5, <2>2
  <2>4. CASE f[x] <= f[k]
    BY <1>4, <2>2, <2>3, <2>4
  <2>5. CASE ~(f[x] <= f[k])
    <3>1. \A m \in F : f[m] <= f[x]
      BY <2>2, <2>3, <2>5
    <3> QED BY <1>4, <1>5, <3>1
  <2> QED BY <2>4, <2>5
<1> QED BY <1>8, <1>9

\* Among finitely many waiting confirms one waits for none of the others: one
\* whose next key is the greatest, and the first such in the queue of that key.
\* Whoever is ahead of it there has entered the key, hence wants a greater one.
LEMMA NoCircle ==
  ASSUME QInv, NEW S \in SUBSET Change, S # {}, IsFiniteSet(S)
  PROVE  \E c \in S : \A d \in S : ~WaitsFor(c, d)
<1>1. CASE \E c \in S : pc[c] # "waiting"
  BY <1>1 DEF WaitsFor
<1>2. CASE \A c \in S : pc[c] = "waiting"
  <2> DEFINE Key(c) == CHOOSE t \in Wanted(c) : IsNext(t, Wanted(c))
  <2>1. ASSUME NEW c \in S
        PROVE  /\ Key(c) \in Wanted(c) /\ IsNext(Key(c), Wanted(c))
               /\ \E i \in 1 .. Len(queue[server[c]][Key(c)]) : queue[server[c]][Key(c)][i] = c
               /\ server[c] \in Process /\ Key(c) \in Target /\ Key(c) \in Nat
               /\ \A t \in Wanted(c) : IsNext(t, Wanted(c)) => t = Key(c)
    <3>1. /\ server[c] \in Process /\ Wanted(c) \subseteq Target /\ Target \subseteq Nat
      BY <1>2, TargetAssumption, TargetsOfAssumption DEF QInv, IInv, TypeOK, CallOK, Wanted
    <3>2. PICK t \in Wanted(c) :
            /\ IsNext(t, Wanted(c))
            /\ \E i \in 1 .. Len(queue[server[c]][t]) : queue[server[c]][t][i] = c
      BY <1>2 DEF QInv, WaitOK
    <3>3. \A u \in Wanted(c) : IsNext(u, Wanted(c)) => u = t
      <4> SUFFICES ASSUME NEW u \in Wanted(c), IsNext(u, Wanted(c)) PROVE u = t
        OBVIOUS
      <4>1. u <= t /\ t <= u /\ u \in Nat /\ t \in Nat
        BY <3>1, <3>2 DEF IsNext
      <4> QED BY <4>1
    <3>4. Key(c) = t
      BY <3>2, <3>3
    <3> HIDE DEF Key
    <3> QED BY <3>1, <3>2, <3>3, <3>4
  <2> HIDE DEF Key
  <2>2. PICK g \in S : \A d \in S : Key(d) <= Key(g)
    <3> DEFINE f == [d \in S |-> Key(d)]
    <3>1. f \in [S -> Nat]
      BY <2>1
    <3>2. PICK g \in S : \A d \in S : f[d] <= f[g]
      <4> HIDE DEF f
      <4> QED BY <3>1, Greatest
    <3> QED BY <3>2
  <2> DEFINE q == queue[server[g]][Key(g)]
             At == {i \in 1 .. Len(q) : q[i] \in S}
  <2>3. /\ q \in Seq(Change) /\ Len(q) \in Nat
        /\ \A i \in 1 .. Len(q) : q[i] \in Change /\ StandsIn(q[i], server[g], Key(g))
        /\ \A i, j \in 1 .. Len(q) : q[i] = q[j] => i = j
    <3>1. server[g] \in Process /\ Key(g) \in Target
      BY <2>1
    <3>2. q \in Seq(Change) /\ Len(q) \in Nat /\ \A i \in 1 .. Len(q) : q[i] \in Change
      BY <3>1 DEF QInv, IInv, TypeOK
    <3> QED BY <3>1, <3>2 DEF QInv, QueuesOK
  <2>4. PICK i \in At : \A j \in At : i <= j
    <3>1. At # {} /\ At \subseteq Nat
      BY <2>1, <2>3
    <3> HIDE DEF At
    <3> QED BY <3>1, Least
  <2> DEFINE c == q[i]
  <2>5. c \in S /\ pc[c] = "waiting" /\ StandsIn(c, server[g], Key(g))
    BY <1>2, <2>3
  <2>6. Key(g) \notin held[c]
    <3> SUFFICES ASSUME Key(g) \in held[c] PROVE FALSE
      OBVIOUS
    <3>1. Key(g) < Key(c)
      BY <2>1, <2>5 DEF QInv, WaitOK
    <3> QED BY <2>1, <2>2, <2>5, <3>1
  <2>7. server[c] = server[g] /\ Key(c) = Key(g)
    <3> HIDE DEF c
    <3>1. Key(g) \in Wanted(c) /\ IsNext(Key(g), Wanted(c)) /\ server[c] = server[g]
      BY <2>5, <2>6 DEF StandsIn, IsNext
    <3> QED BY <2>1, <2>5, <3>1
  <2>8. ASSUME NEW d \in S, WaitsFor(c, d) PROVE FALSE
    <3>1. \E j, k \in DOMAIN q : j < k /\ q[j] = d /\ q[k] = c
      <4> HIDE DEF c
      <4> QED BY <2>1, <2>5, <2>7, <2>8 DEF WaitsFor
    <3>2. PICK j \in 1 .. Len(q), k \in 1 .. Len(q) : j < k /\ q[j] = d /\ q[k] = c
      BY <2>3, <3>1
    <3>3. k = i /\ j \in At
      BY <2>3, <3>2
    <3> QED BY <2>3, <2>4, <3>2, <3>3
  <2> QED BY <2>5, <2>8
<1> QED BY <1>1, <1>2

\* Who is waited for is under way, and who waits for nobody is let in.
LEMMA WaitingEnds ==
  ASSUME QInv, NEW c \in Change
  PROVE  /\ \A d \in Change : WaitsFor(c, d) => pc[d] # "idle" /\ server[d] = server[c]
         /\ pc[c] = "waiting" => \/ \E d \in Change : WaitsFor(c, d)
                                 \/ \E t \in Wanted(c) : Granted(server[c], t, c)
<1>1. \A t \in Wanted(c) : t \in Target
  BY TargetsOfAssumption DEF Wanted
<1>2. pc[c] = "waiting" => server[c] \in Process
  BY DEF QInv, IInv, TypeOK, CallOK
<1>3. ASSUME NEW d \in Change, WaitsFor(c, d) PROVE pc[d] # "idle" /\ server[d] = server[c]
  <2>1. PICK t \in Target : \E i \in DOMAIN queue[server[c]][t] : queue[server[c]][t][i] = d
    BY <1>1, <1>3 DEF WaitsFor
  <2>2. server[c] \in Process /\ queue[server[c]][t] \in Seq(Change)
    BY <1>2, <1>3 DEF WaitsFor, QInv, IInv, TypeOK
  <2>3. server[d] = server[c]
    BY <2>1, <2>2 DEF QInv, QueuesOK, StandsIn
  <2> QED BY <2>2, <2>3, ProcessAssumption DEF QInv, IInv, CallOK
<1>4. ASSUME pc[c] = "waiting"
      PROVE  \/ \E d \in Change : WaitsFor(c, d)
             \/ \E t \in Wanted(c) : Granted(server[c], t, c)
  <2>1. PICK t \in Wanted(c) : /\ IsNext(t, Wanted(c))
                               /\ \E i \in 1 .. Len(queue[server[c]][t]) : queue[server[c]][t][i] = c
    BY <1>4 DEF QInv, WaitOK
  <2> DEFINE q == queue[server[c]][t]
  <2>2. q \in Seq(Change) /\ Len(q) \in Nat
    BY <1>1, <1>2, <1>4 DEF QInv, IInv, TypeOK
  <2>3. PICK i \in 1 .. Len(q) : q[i] = c
    BY <2>1
  <2>4. CASE i = 1
    BY <2>2, <2>3, <2>4 DEF Granted
  <2>5. CASE i # 1
    <3>1. 1 \in DOMAIN q /\ i \in DOMAIN q /\ 1 < i /\ q[1] \in Change
      BY <2>2, <2>3, <2>5
    <3>2. WaitsFor(c, q[1])
      BY <1>4, <2>1, <2>3, <3>1 DEF WaitsFor
    <3> QED BY <3>1, <3>2
  <2> QED BY <2>4, <2>5
<1> QED BY <1>3, <1>4

(* However many changes share however many keys, no circle of confirms     *)
(* wait for each other, whoever is waited for is under way, and a confirm  *)
(* that waits for nobody may go on: sorted acquisition (withTargetLocks)   *)
(* has no deadlock.                                                        *)
THEOREM NoDeadlockHolds == Spec => []NoDeadlock
<1>1. QInv => NoDeadlock
  BY NoCircle, WaitingEnds DEF NoDeadlock
<1> QED BY <1>1, QueuesInvariance, PTL

(* The local locks serialize the confirms of a process without deadlock.   *)
THEOREM LocksSoundHolds == Spec => []LocksSound
<1>1. TargetExclusion /\ RunsUnderAllLocks /\ NoDeadlock => LocksSound
  BY DEF LocksSound
<1> QED BY <1>1, TargetExclusionHolds, RunsUnderAllLocksHolds, NoDeadlockHolds, PTL

=============================================================================
