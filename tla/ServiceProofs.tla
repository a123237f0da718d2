--------------------------- MODULE ServiceProofs ---------------------------
(***************************************************************************)
(* Proofs of the safety properties of the two components of the service    *)
(* that keep no records: Login, for any number of employees, ways to log   *)
(* in, runs and callers and any limit; and HttpServer, for any finite set  *)
(* of requests and any limits.  Each has its own specification, and        *)
(* neither proof uses the other's facts.                                   *)
(*                                                                         *)
(* The invariant of Login is one about each attempt (AttOK): what its run, *)
(* its submissions and its state say about each other.  A step moves at    *)
(* most one attempt; what begins, logouts and timers do to the others only *)
(* takes from them (Calm).  The limit needs no more than that attempts     *)
(* that count are never revived, so that only a begin adds one.            *)
(*                                                                         *)
(* In HttpServer each gauge of the code is shown to count a set of         *)
(* requests: the gauge of activeRequests those under way and some lost     *)
(* ones (GaugeOK), the inFlight of a session those that use it (UseOK).    *)
(* The bound on sessions needs the handshakes that were promised room as   *)
(* well (RoomOK).                                                          *)
(***************************************************************************)
EXTENDS Login, HttpServer, TLAPS, FiniteSetTheorems, WellFoundedInduction

-----------------------------------------------------------------------------
(* Login: attempts.                                                        *)

\* The attempts that the limit is about.
Counted(a) == a \in Active(att) /\ a \notin closed /\ ~att[a].old /\ Once(a)

Bound == Cardinality({a \in Attempt : Counted(a)}) <= Maximum

\* An attempt that is not there yet.
UnbornOK(a) ==
    /\ att[a].state = "none" =>
          /\ ~att[a].known /\ refreshing[a] = 0
          /\ \A k \in Run : run[a][k] = "none"
          /\ \A s \in Submits : submit[a][s] = "no"
    /\ att[a].state # "none" => run[a][1] # "none"

\* A login by SMS has one run, which only sends the code, and is never refreshed.
SmsOK(a) ==
    att[a].via \in Phone =>
        /\ refreshing[a] = 0 /\ Once(a)
        /\ run[a][1] \in {"none", "sending", "over"}
        /\ att[a].state = "waiting_sms" => run[a][1] = "over"
        /\ \A s \in Submits : submit[a][s] # "no" =>
              /\ run[a][1] = "over"
              /\ att[a].state \in {"waiting_sms", "failed", "expired"}

\* A QR login knows no codes.
QrOK(a) ==
    att[a].via \notin Phone =>
        /\ \A k \in Run : run[a][k] # "sending"
        /\ \A s \in Submits : submit[a][s] = "no"
        /\ att[a].state # "waiting_sms"

\* One caller at a time submits a code.
SubmitOK(a) ==
    \A s, t \in Submits : submit[a][s] # "no" /\ submit[a][t] # "no" => s = t

\* After a success the only run is over or about to be.
SuccessOK(a) ==
    att[a].state = "success" =>
        /\ a \in saved
        /\ Once(a) => run[a][1] \in {"closing", "over"}

\* While nothing was done to an attempt from outside, its state follows its run.
FreshOK(a) ==
    (a \notin closed /\ ~att[a].old /\ Once(a) /\ att[a].state # "none") =>
        /\ att[a].known
        /\ run[a][1] \in {"sending", "launching", "opening"} => att[a].state = "starting"
        /\ run[a][1] \in {"idle", "polling", "saving"} => att[a].state = "waiting_scan"
        /\ \A s \in Submits : submit[a][s] # "no" => att[a].state = "waiting_sms"

AttOK(a) ==
    UnbornOK(a) /\ SmsOK(a) /\ QrOK(a) /\ SubmitOK(a) /\ SuccessOK(a) /\ FreshOK(a)

LInv == TypeOK /\ (\A a \in Attempt : AttOK(a)) /\ Bound

Entry == [by: Employee, via: Via, state: State, old: BOOLEAN, known: BOOLEAN,
          handle: 0 .. MaxRuns]

\* What a step that does not move the attempt may make of it: t is what it becomes,
\* cl what is closed then.
Calm(a, t, cl) ==
    /\ t \in Entry
    /\ closed \subseteq cl
    /\ t.via \in Phone <=> att[a].via \in Phone
    /\ att[a].old => t.old
    /\ t.known => att[a].known
    /\ att[a].known => t.known \/ t.old
    /\ \/ t.state = att[a].state
       \/ IsActive(att[a]) /\ t.state \in {"failed", "expired"} /\ (a \in cl \/ t.old)

Still(a) ==
    /\ run'[a] = run[a] /\ submit'[a] = submit[a]
    /\ \/ refreshing'[a] = refreshing[a]
       \/ att[a].state # "none" /\ att[a].via \notin Phone
    /\ a \in saved => a \in saved'

\* What every step does to every attempt, but for a begin to the one it makes.
Kept(a) == AttOK(a)' /\ SuccessStays(a) /\ (Counted(a)' => Counted(a))

USE DEF Attempt, Run

-----------------------------------------------------------------------------
\* The values the constants may take.
LEMMA Values ==
    /\ Maximum \in Nat \ {0} /\ MaxRuns \in Nat \ {0}
    /\ 1 \in Attempt /\ 1 \in Run /\ Provider \cap Phone = {}
    /\ Employee # {} /\ Via # {}
BY BoundAssumption, ViaAssumption, UserAssumption

\* A set of attempts or runs that is not empty has a least element.
LEMMA LeastIsIn ==
    ASSUME NEW S, S \subseteq Nat, S # {}
    PROVE  Least(S) \in S
<1> DEFINE Down(x) == 0 .. x
           R == StrictSubsetOrdering(Nat)
           T == {Down(x) : x \in S}
<1>1. IsWellFoundedOn(R, FiniteSubsetsOf(Nat))
    BY FS_StrictSubsetOrderingWellFounded
<1>2. T \subseteq FiniteSubsetsOf(Nat) /\ T # {}
    <2>1. \A x \in S : IsFiniteSet(Down(x)) /\ Down(x) \subseteq Nat
        BY FS_Interval
    <2> QED BY <2>1 DEF FiniteSubsetsOf
<1>3. PICK x \in S : \A y \in S : ~(<<Down(y), Down(x)>> \in R)
    <2>1. PICK t \in T : \A u \in T : ~(<<u, t>> \in R)
        <3> HIDE DEF T, R
        <3> QED BY <1>1, <1>2, WFMin
    <2> QED BY <2>1
<1>4. \A y \in S : x <= y
    <2> SUFFICES ASSUME NEW y \in S, y < x PROVE FALSE
        OBVIOUS
    <2>1. Down(y) \subseteq Down(x) /\ Down(y) # Down(x)
        <3>1. x \in Down(x) /\ x \notin Down(y)
            OBVIOUS
        <3> QED BY <3>1
    <2>2. <<Down(y), Down(x)>> \in R
        BY <2>1 DEF StrictSubsetOrdering
    <2> QED BY <2>2, <1>3
<1> QED BY <1>4 DEF Least

\* In particular a set of attempts.
LEMMA LeastAttempt == ASSUME NEW S \in SUBSET Attempt, S # {} PROVE Least(S) \in S
<1>1. S \subseteq Nat
    BY Values
<1> QED BY <1>1, LeastIsIn

-----------------------------------------------------------------------------
(* While the bound is not reached there is room for a run.                 *)

\* Of as many places as there may be runs, one is free.
LEMMA PlaceLeft ==
    ASSUME TypeOK, MoreRuns, NEW f \in [1 .. MaxRuns -> Attempt \X Run],
           \A m, n \in 1 .. MaxRuns : f[m] = f[n] => m = n
    PROVE  \E n \in 1 .. MaxRuns : f[n] \notin Begun
<1> SUFFICES ASSUME \A n \in 1 .. MaxRuns : f[n] \in Begun PROVE FALSE
    OBVIOUS
<1>1. f \in Injection(1 .. MaxRuns, Begun)
    BY DEF Injection, IsInjective
<1>2. IsFiniteSet(1 .. MaxRuns) /\ Cardinality(1 .. MaxRuns) = MaxRuns
    BY Values, FS_Interval
<1>3. IsFiniteSet(Attempt \X Run)
    BY <1>2, FS_Product
<1>4. IsFiniteSet(Begun) /\ Cardinality(Begun) \in Nat
    <2>1. Begun \in SUBSET (Attempt \X Run)
        BY DEF Begun
    <2> QED BY <1>3, <2>1, FS_Subset, FS_CardinalityType
<1>5. Cardinality(1 .. MaxRuns) <= Cardinality(Begun)
    BY <1>1, <1>4, FS_Injection
<1> QED BY <1>2, <1>4, <1>5, Values DEF MoreRuns

\* There is an attempt that is not made yet ...
LEMMA AttemptLeft ==
    ASSUME TypeOK, \A a \in Attempt : UnbornOK(a), MoreRuns
    PROVE  \E a \in Attempt : att[a].state = "none"
<1> DEFINE f == [a \in 1 .. MaxRuns |-> <<a, 1>>]
<1>1. f \in [1 .. MaxRuns -> Attempt \X Run] /\ \A m, n \in 1 .. MaxRuns : f[m] = f[n] => m = n
    BY Values
<1>2. PICK a \in 1 .. MaxRuns : f[a] \notin Begun
    <2> HIDE DEF f
    <2> QED BY <1>1, PlaceLeft
<1>3. run[a][1] = "none"
    BY <1>2, Values DEF Begun
<1> QED BY <1>3 DEF UnbornOK

\* ... and every attempt may run once more.
LEMMA RunLeft ==
    ASSUME TypeOK, MoreRuns, NEW a \in Attempt
    PROVE  \E k \in Run : run[a][k] = "none"
<1> DEFINE f == [k \in 1 .. MaxRuns |-> <<a, k>>]
<1>1. f \in [1 .. MaxRuns -> Attempt \X Run] /\ \A m, n \in 1 .. MaxRuns : f[m] = f[n] => m = n
    OBVIOUS
<1>2. PICK k \in 1 .. MaxRuns : f[k] \notin Begun
    <2> HIDE DEF f
    <2> QED BY <1>1, PlaceLeft
<1> QED BY <1>2 DEF Begun

-----------------------------------------------------------------------------
(* What a step does to the attempts that it does not move.                 *)

\* An attempt that is left alone, closed, forgotten or grown old stays sound, keeps
\* its success and does not begin to count.
LEMMA QuietStays ==
    ASSUME TypeOK, NEW a \in Attempt, AttOK(a), Calm(a, att'[a], closed'), Still(a)
    PROVE  Kept(a)
<1> USE DEF Calm, Still, IsActive, ACTIVE_LOGIN_STATES
<1>1. Once(a)' <=> Once(a)
    BY DEF Once
<1>2. \/ att'[a].state = att[a].state
      \/ (att'[a].old \/ a \in closed') /\ att'[a].state \in {"failed", "expired"}
    BY DEF Entry
<1>3. UnbornOK(a)' /\ SubmitOK(a)'
    <2>1. UnbornOK(a)'
        BY DEF AttOK, UnbornOK
    <2>2. SubmitOK(a)'
        BY DEF AttOK, SubmitOK
    <2> QED BY <2>1, <2>2
<1>4. SmsOK(a)' /\ QrOK(a)'
    <2>1. SmsOK(a)'
        BY <1>1, <1>2 DEF AttOK, SmsOK
    <2>2. QrOK(a)'
        BY <1>2 DEF AttOK, QrOK
    <2> QED BY <2>1, <2>2
<1>5. SuccessOK(a)'
    BY <1>1, <1>2 DEF AttOK, SuccessOK
<1>6. FreshOK(a)'
    BY <1>1, <1>2 DEF AttOK, FreshOK, Entry, TypeOK
<1>7. SuccessStays(a)
    BY DEF SuccessStays
<1>8. Counted(a)' => Counted(a)
    <2>1. Counted(a) <=> /\ att[a].known /\ IsActive(att[a]) /\ a \notin closed
                         /\ ~att[a].old /\ Once(a)
        BY DEF Counted, Active
    <2>2. Counted(a)' <=> /\ att'[a].known /\ IsActive(att'[a]) /\ a \notin closed'
                          /\ ~att'[a].old /\ Once(a)'
        BY DEF Counted, Active
    <2> QED BY <1>1, <1>2, <2>1, <2>2
<1> QED BY <1>3, <1>4, <1>5, <1>6, <1>7, <1>8 DEF Kept, AttOK

\* In particular one whose variables do not change.
LEMMA SameStays ==
    ASSUME TypeOK, NEW a \in Attempt, AttOK(a), att'[a] = att[a], run'[a] = run[a],
           submit'[a] = submit[a], refreshing'[a] = refreshing[a],
           closed \subseteq closed', saved \subseteq saved'
    PROVE  Kept(a)
<1>1. att[a] \in Entry
    BY DEF TypeOK, Entry
<1>2. Calm(a, att'[a], closed') /\ Still(a)
    BY <1>1 DEF Calm, Still
<1> QED BY <1>2, QuietStays

-----------------------------------------------------------------------------
(* What a run does to its attempt.                                         *)

\* Moving a run on.
LEMMA GotoFacts ==
    ASSUME TypeOK, NEW a \in Attempt, NEW k \in Run, NEW step \in RunStep, Goto(a, k, step)
    PROVE  /\ run' \in [Attempt -> [Run -> RunStep]]
           /\ run'[a][k] = step /\ \A j \in Run : j # k => run'[a][j] = run[a][j]
           /\ \A b \in Attempt : b # a => run'[b] = run[b]
<1>1. run' = [run EXCEPT ![a] = [run[a] EXCEPT ![k] = step]]
    BY DEF Goto
<1> QED BY <1>1 DEF TypeOK

\* Setting the state.
LEMMA SetStateFacts ==
    ASSUME TypeOK, NEW a \in Attempt, NEW s \in State, SetState(a, s)
    PROVE  /\ att' \in [Attempt -> Entry]
           /\ att'[a] = [att[a] EXCEPT !.state = s]
           /\ \A b \in Attempt : b # a => att'[b] = att[b]
<1>1. att' = [att EXCEPT ![a] = [att[a] EXCEPT !.state = s]]
    BY DEF SetState
<1>2. att \in [Attempt -> Entry]
    BY DEF TypeOK, Entry
<1>3. [att[a] EXCEPT !.state = s] \in Entry
    BY <1>2 DEF Entry
<1> QED BY <1>1, <1>2, <1>3

\* What a step of run() has to respect: the state it leaves (s) and where it goes
\* (step), as far as nothing else touched the attempt.
Respects(a, s, step) ==
    /\ s \notin {"none", "waiting_sms"}
    /\ s = "success" => a \in saved'
    /\ Once(a) => /\ s = "success" => step \in {"closing", "over"}
                  /\ att[a].state = "success" => s = "success"
    /\ a \notin closed /\ ~att[a].old /\ Once(a) =>
          /\ step = "opening" => s = "starting"
          /\ step \in {"idle", "polling", "saving"} => s = "waiting_scan"
          /\ s \in ACTIVE_LOGIN_STATES => att[a].state \in ACTIVE_LOGIN_STATES

\* A run of a browser is one of a QR login, and the first one if there is no other.
LEMMA RunFacts ==
    ASSUME TypeOK, NEW a \in Attempt, NEW k \in Run, AttOK(a),
           run[a][k] \notin {"none", "sending", "over"}
    PROVE  /\ att[a].via \notin Phone /\ att[a].state \notin {"none", "waiting_sms"}
           /\ Once(a) => k = 1
           /\ \A s \in Submits : submit[a][s] = "no"
<1>1. Once(a) => k = 1
    BY Values DEF Once
<1>2. att[a].via \notin Phone
    BY <1>1 DEF AttOK, SmsOK
<1> QED BY <1>1, <1>2 DEF AttOK, QrOK, UnbornOK

\* A step of run() that respects this keeps its attempt sound.
LEMMA RunKept ==
    ASSUME TypeOK, NEW a \in Attempt, NEW k \in Run, AttOK(a),
           NEW step \in RunStep \ {"none", "sending", "launching"},
           run[a][k] \notin {"none", "sending", "over"}, Goto(a, k, step),
           att'[a] \in Entry, Respects(a, att'[a].state, step),
           att'[a].via = att[a].via, att'[a].old = att[a].old, att'[a].known = att[a].known,
           submit' = submit, refreshing' = refreshing, closed' = closed, saved \subseteq saved'
    PROVE  Kept(a)
<1>1. /\ run'[a][k] = step /\ \A j \in Run : j # k => run'[a][j] = run[a][j]
    BY GotoFacts
<1>2. /\ att[a].via \notin Phone /\ att[a].state \notin {"none", "waiting_sms"}
      /\ Once(a) => k = 1
      /\ \A s \in Submits : submit[a][s] = "no"
    BY RunFacts
<1>3. Once(a)' <=> Once(a)
    BY <1>1 DEF Once
<1>4. UnbornOK(a)'
    BY <1>1, <1>2, Values DEF AttOK, UnbornOK, Respects
<1>5. SmsOK(a)' /\ QrOK(a)' /\ SubmitOK(a)'
    BY <1>1, <1>2 DEF AttOK, SmsOK, QrOK, SubmitOK, Respects
<1>6. SuccessOK(a)' /\ SuccessStays(a)
    BY <1>1, <1>2, <1>3 DEF SuccessOK, SuccessStays, Respects
<1>7. FreshOK(a)'
    BY <1>1, <1>2, <1>3 DEF AttOK, FreshOK, Respects
<1>8. Counted(a)' => Counted(a)
    BY <1>3 DEF Counted, Active, IsActive, Respects
<1> QED BY <1>4, <1>5, <1>6, <1>7, <1>8 DEF Kept, AttOK

\* The attempts and what they say of each other, without the limit.
AllOK == TypeOK /\ \A a \in Attempt : AttOK(a)

AllKept == TypeOK' /\ \A a \in Attempt : Kept(a)

\* runSmsSend sets the state of an attempt that has not succeeded, and that counts
\* if nothing else was done to it.
LEMMA SmsSentKept ==
    ASSUME TypeOK, NEW a \in Attempt, NEW k \in Run, AttOK(a), SmsSent(a, k)
    PROVE  Kept(a)
<1>1. PICK s \in {"waiting_sms", "failed"} : SetState(a, s)
    BY DEF SmsSent
<1>2. s \in State /\ "over" \in RunStep
    BY DEF State, ACTIVE_LOGIN_STATES, RunStep
<1>3. att'[a] = [att[a] EXCEPT !.state = s] /\ att[a] \in Entry
    BY <1>1, <1>2, SetStateFacts DEF TypeOK, Entry
<1>4. /\ att'[a].state = s /\ att'[a].via = att[a].via
      /\ att'[a].known = att[a].known /\ att'[a].old = att[a].old
    BY <1>3 DEF Entry
<1>5. run'[a][k] = "over" /\ \A j \in Run : j # k => run'[a][j] = run[a][j]
    BY <1>2, GotoFacts DEF SmsSent
<1>6. run[a][k] = "sending" /\ UNCHANGED <<refreshing, submit, closed, saved>>
    BY DEF SmsSent, Untouched
<1>7. /\ att[a].via \in Phone /\ Once(a) /\ k = 1
      /\ \A t \in Submits : submit[a][t] = "no"
      /\ att[a].state \notin {"none", "success"}
    <2>1. att[a].via \in Phone
        BY <1>6 DEF AttOK, QrOK
    <2>2. Once(a) /\ k = 1
        BY <2>1, <1>6, Values DEF AttOK, SmsOK, Once
    <2>3. \A t \in Submits : submit[a][t] = "no"
        BY <2>1, <2>2, <1>6 DEF AttOK, SmsOK
    <2>4. att[a].state \notin {"none", "success"}
        BY <2>2, <1>6 DEF AttOK, UnbornOK, SuccessOK
    <2> QED BY <2>1, <2>2, <2>3, <2>4
<1>8. Once(a)'
    BY <1>5, <1>7 DEF Once
<1>9. UnbornOK(a)' /\ SubmitOK(a)'
    BY <1>1, <1>4, <1>5, <1>6, <1>7 DEF UnbornOK, SubmitOK
<1>10. SmsOK(a)' /\ QrOK(a)'
    BY <1>1, <1>4, <1>5, <1>6, <1>7, <1>8 DEF AttOK, SmsOK, QrOK
<1>11. SuccessOK(a)' /\ SuccessStays(a)
    BY <1>1, <1>4, <1>7 DEF SuccessOK, SuccessStays
<1>12. FreshOK(a)'
    BY <1>4, <1>5, <1>6, <1>7 DEF AttOK, FreshOK
<1>13. Counted(a)' => Counted(a)
    BY <1>4, <1>6, <1>7 DEF AttOK, FreshOK, Counted, Active, IsActive, ACTIVE_LOGIN_STATES
<1> QED BY <1>9, <1>10, <1>11, <1>12, <1>13 DEF Kept, AttOK

\* A step of run() keeps its attempt sound.
LEMMA BrowserKept ==
    ASSUME TypeOK, NEW a \in Attempt, NEW k \in Run, AttOK(a), RunNext(a, k), ~SmsSent(a, k)
    PROVE  Kept(a)
<1> USE DEF Untouched
<1>1. att \in [Attempt -> Entry] /\ att[a] \in Entry
    BY DEF TypeOK, Entry
<1>2. /\ "starting" \in State /\ "waiting_scan" \in State /\ "success" \in State
      /\ "expired" \in State /\ "failed" \in State
    BY DEF State, ACTIVE_LOGIN_STATES
<1>3. \A s \in State : SetState(a, s) =>
          /\ att'[a] \in Entry /\ att'[a].state = s
          /\ att'[a].via = att[a].via /\ att'[a].old = att[a].old /\ att'[a].known = att[a].known
    <2> SUFFICES ASSUME NEW s \in State, SetState(a, s)
                 PROVE  /\ att'[a] \in Entry /\ att'[a].state = s
                        /\ att'[a].via = att[a].via /\ att'[a].old = att[a].old
                        /\ att'[a].known = att[a].known
        OBVIOUS
    <2>1. att'[a] = [att[a] EXCEPT !.state = s] /\ att'[a] \in Entry
        BY SetStateFacts
    <2> QED BY <1>1, <2>1 DEF Entry
<1>4. run[a][k] \notin {"none", "sending", "over"} =>
          /\ att[a].state \notin {"none", "waiting_sms"}
          /\ Once(a) => k = 1
    BY RunFacts
<1>5. /\ att[a].state = "success" => a \in saved /\ (Once(a) => run[a][1] \in {"closing", "over"})
      /\ (a \notin closed /\ ~att[a].old /\ Once(a) /\ att[a].state # "none") =>
            /\ run[a][1] \in {"launching", "opening"} => att[a].state = "starting"
            /\ run[a][1] \in {"idle", "polling", "saving"} => att[a].state = "waiting_scan"
    BY DEF AttOK, SuccessOK, FreshOK
<1>6. CASE Launch(a, k)
    <2>1. att' = [att EXCEPT ![a] = [att[a] EXCEPT !.handle = k]]
        BY <1>6 DEF Launch
    <2>2. att'[a] = [att[a] EXCEPT !.handle = k]
        BY <1>1, <2>1
    <2>3. /\ att'[a] \in Entry /\ att'[a].state = att[a].state
          /\ att'[a].via = att[a].via /\ att'[a].old = att[a].old /\ att'[a].known = att[a].known
        BY <1>1, <2>2, Values DEF Entry
    <2>4. Respects(a, att'[a].state, "opening")
        BY <1>4, <1>5, <1>6, <2>3 DEF Launch, Respects
    <2>5. run[a][k] = "launching" /\ Goto(a, k, "opening")
          /\ UNCHANGED <<submit, refreshing, closed, saved>>
        BY <1>6 DEF Launch
    <2> QED BY <2>3, <2>4, <2>5, RunKept DEF RunStep
<1>7. CASE Open(a, k)
    <2>1. Respects(a, "waiting_scan", "idle")
        BY <1>4, <1>5, <1>7 DEF Open, Respects, ACTIVE_LOGIN_STATES
    <2>2. run[a][k] = "opening" /\ Goto(a, k, "idle") /\ SetState(a, "waiting_scan")
          /\ UNCHANGED <<submit, refreshing, closed, saved>>
        BY <1>7 DEF Open
    <2> QED BY <1>2, <1>3, <2>1, <2>2, RunKept DEF RunStep
<1>8. CASE PollStarts(a, k) \/ PollNothing(a, k) \/ PollFinds(a, k)
    <2>1. PICK step \in {"polling", "idle", "saving"} : Goto(a, k, step)
        BY <1>8 DEF PollStarts, PollNothing, PollFinds
    <2>2. run[a][k] \in {"idle", "polling"} /\ UNCHANGED <<att, submit, refreshing, closed, saved>>
        BY <1>8 DEF PollStarts, PollNothing, PollFinds
    <2>3. Respects(a, att'[a].state, step)
        BY <1>4, <1>5, <2>2 DEF Respects
    <2> QED BY <1>1, <2>1, <2>2, <2>3, RunKept DEF RunStep
<1>9. CASE Saved(a, k)
    <2>1. Respects(a, "success", "closing")
        BY <1>9 DEF Saved, Saves, Respects, ACTIVE_LOGIN_STATES
    <2>2. run[a][k] = "saving" /\ Goto(a, k, "closing") /\ SetState(a, "success")
          /\ UNCHANGED <<submit, refreshing, closed>> /\ saved \subseteq saved'
        BY <1>9 DEF Saved, Saves
    <2> QED BY <1>2, <1>3, <2>1, <2>2, RunKept DEF RunStep
<1>10. CASE LoopEnds(a, k)
    <2>1. run[a][k] = "idle" /\ Goto(a, k, "closing") /\ UNCHANGED <<submit, refreshing, closed, saved>>
        BY <1>10 DEF LoopEnds
    <2>2. CASE SetState(a, "expired")
        <3>1. Respects(a, "expired", "closing")
            BY <1>4, <1>5, <2>1 DEF Respects, ACTIVE_LOGIN_STATES
        <3> QED BY <1>2, <1>3, <2>1, <2>2, <3>1, RunKept DEF RunStep
    <2>3. CASE UNCHANGED att
        <3>1. Respects(a, att'[a].state, "closing")
            BY <1>4, <1>5, <2>1, <2>3 DEF Respects
        <3> QED BY <1>1, <2>1, <2>3, <3>1, RunKept DEF RunStep
    <2> QED BY <1>10, <2>2, <2>3 DEF LoopEnds
<1>11. CASE Fails(a, k)
    <2>1. run[a][k] \in {"launching", "opening", "idle", "polling", "saving"}
          /\ Goto(a, k, "failing") /\ SetState(a, "failed")
          /\ UNCHANGED <<submit, refreshing, closed, saved>>
        BY <1>11 DEF Fails
    <2>2. Respects(a, "failed", "failing")
        BY <1>4, <1>5, <2>1 DEF Respects, ACTIVE_LOGIN_STATES
    <2> QED BY <1>2, <1>3, <2>1, <2>2, RunKept DEF RunStep
<1>12. CASE KillOrphans(a, k)
    <2>1. run[a][k] = "failing" /\ Goto(a, k, "closing")
          /\ UNCHANGED <<att, submit, refreshing, closed, saved>>
        BY <1>12 DEF KillOrphans
    <2>2. Respects(a, att'[a].state, "closing")
        BY <1>4, <1>5, <2>1 DEF Respects
    <2> QED BY <1>1, <2>1, <2>2, RunKept DEF RunStep
<1>13. CASE Close(a, k)
    <2>1. att' = [att EXCEPT ![a] = [att[a] EXCEPT !.handle = 0]]
        BY <1>13 DEF Close
    <2>2. att'[a] = [att[a] EXCEPT !.handle = 0]
        BY <1>1, <2>1
    <2>3. /\ att'[a] \in Entry /\ att'[a].state = att[a].state
          /\ att'[a].via = att[a].via /\ att'[a].old = att[a].old /\ att'[a].known = att[a].known
        BY <1>1, <2>2, Values DEF Entry
    <2>4. run[a][k] = "closing" /\ Goto(a, k, "over") /\ UNCHANGED <<submit, refreshing, closed, saved>>
        BY <1>13 DEF Close
    <2>5. Respects(a, att'[a].state, "over")
        BY <1>4, <1>5, <2>3, <2>4 DEF Respects
    <2> QED BY <2>3, <2>4, <2>5, RunKept DEF RunStep
<1> QED BY <1>6, <1>7, <1>8, <1>9, <1>10, <1>11, <1>12, <1>13 DEF RunNext

\* A step of a run keeps the types.
LEMMA RunTypes ==
    ASSUME TypeOK, NEW a \in Attempt, NEW k \in Run, RunNext(a, k)
    PROVE  /\ TypeOK'
           /\ \A b \in Attempt : b # a => att'[b] = att[b] /\ run'[b] = run[b]
           /\ UNCHANGED <<switching, refreshing, submit, stopped, closed>> /\ saved \subseteq saved'
<1>1. UNCHANGED <<switching, refreshing, submit, stopped, closed>>
    BY DEF RunNext, SmsSent, Launch, Open, PollStarts, PollNothing, PollFinds, Saved, LoopEnds,
           Fails, KillOrphans, Close, Untouched
<1>2. saved' \in {saved, saved \cup {a}}
    BY DEF RunNext, SmsSent, Launch, Open, PollStarts, PollNothing, PollFinds, Saved, LoopEnds,
           Fails, KillOrphans, Close, Saves
<1>3. open' \subseteq open \cup {<<a, k>>}
    BY DEF RunNext, SmsSent, Launch, Open, PollStarts, PollNothing, PollFinds, Saved, LoopEnds,
           Fails, KillOrphans, Close, Finally
<1>4. PICK step \in RunStep : Goto(a, k, step)
    BY DEF RunNext, SmsSent, Launch, Open, PollStarts, PollNothing, PollFinds, Saved, LoopEnds,
           Fails, KillOrphans, Close, RunStep
<1>5. /\ run' \in [Attempt -> [Run -> RunStep]]
      /\ \A b \in Attempt : b # a => run'[b] = run[b]
    BY <1>4, GotoFacts
<1>6. \/ \E s \in State : SetState(a, s)
      \/ \E h \in 0 .. MaxRuns : att' = [att EXCEPT ![a].handle = h]
      \/ UNCHANGED att
    BY Values DEF RunNext, SmsSent, Launch, Open, PollStarts, PollNothing, PollFinds, Saved, LoopEnds,
           Fails, KillOrphans, Close, State, ACTIVE_LOGIN_STATES
<1>7. att' \in [Attempt -> Entry] /\ \A b \in Attempt : b # a => att'[b] = att[b]
    <2>1. att \in [Attempt -> Entry]
        BY DEF TypeOK, Entry
    <2>2. ASSUME NEW h \in 0 .. MaxRuns, att' = [att EXCEPT ![a].handle = h]
          PROVE  att' \in [Attempt -> Entry] /\ \A b \in Attempt : b # a => att'[b] = att[b]
        <3>1. att' = [att EXCEPT ![a] = [att[a] EXCEPT !.handle = h]]
            BY <2>2
        <3>2. [att[a] EXCEPT !.handle = h] \in Entry
            BY <2>1 DEF Entry
        <3> QED BY <2>1, <3>1, <3>2
    <2>3. ASSUME NEW s \in State, SetState(a, s)
          PROVE  att' \in [Attempt -> Entry] /\ \A b \in Attempt : b # a => att'[b] = att[b]
        BY <2>3, SetStateFacts
    <2> QED BY <1>6, <2>1, <2>2, <2>3
<1>8. TypeOK'
    BY <1>1, <1>2, <1>3, <1>5, <1>7 DEF TypeOK, Entry
<1> QED BY <1>1, <1>2, <1>5, <1>7, <1>8

\* A step of a run keeps all attempts sound.
LEMMA RunAllKept ==
    ASSUME AllOK, NEW a \in Attempt, NEW k \in Run, RunNext(a, k)
    PROVE  AllKept
<1>1. TypeOK /\ \A b \in Attempt : AttOK(b)
    BY DEF AllOK
<1>2. Kept(a)
    BY <1>1, SmsSentKept, BrowserKept
<1>3. ASSUME NEW b \in Attempt, b # a PROVE Kept(b)
    <2>1. att'[b] = att[b] /\ run'[b] = run[b] /\ submit' = submit /\ refreshing' = refreshing
          /\ closed' = closed /\ saved \subseteq saved'
        BY <1>1, <1>3, RunTypes
    <2> QED BY <1>1, <2>1, SameStays
<1> QED BY <1>1, <1>2, <1>3, RunTypes DEF AllKept

-----------------------------------------------------------------------------
(* What submitSms does.                                                    *)

\* Moving a submission on.
LEMMA SubmitFacts ==
    ASSUME TypeOK, NEW a \in Attempt, NEW s \in Submits, NEW step \in {"no", "checking", "saving"},
           SubmitTo(a, s, step)
    PROVE  /\ submit' \in [Attempt -> [Submits -> {"no", "checking", "saving"}]]
           /\ submit'[a][s] = step /\ \A t \in Submits : t # s => submit'[a][t] = submit[a][t]
           /\ \A b \in Attempt : b # a => submit'[b] = submit[b]
<1>1. submit' = [submit EXCEPT ![a] = [submit[a] EXCEPT ![s] = step]]
    BY DEF SubmitTo
<1> QED BY <1>1 DEF TypeOK

\* A submission keeps its attempt sound: while one is under way the code has been
\* sent, nobody else submits, and the attempt has not succeeded yet.
LEMMA SubmitKept ==
    ASSUME TypeOK, NEW a \in Attempt, NEW s \in Submits, AttOK(a), SubmitNext(a, s)
    PROVE  Kept(a)
<1>1. UNCHANGED <<run, refreshing, closed>>
    BY DEF SubmitNext, Submit, CodeAccepted, SubmitFails, SubmitSaved, Apart
<1>2. Once(a)' <=> Once(a)
    BY <1>1 DEF Once
<1>3. att \in [Attempt -> Entry] /\ att[a] \in Entry
    BY DEF TypeOK, Entry
<1>4. ASSUME submit[a][s] # "no"
      PROVE  /\ att[a].via \in Phone /\ Once(a) /\ run[a][1] = "over"
             /\ att[a].state \in {"waiting_sms", "failed", "expired"}
             /\ \A t \in Submits : t # s => submit[a][t] = "no"
             /\ (a \notin closed /\ ~att[a].old) => att[a].known /\ att[a].state = "waiting_sms"
    <2>1. att[a].via \in Phone
        BY <1>4 DEF AttOK, QrOK
    <2>2. /\ Once(a) /\ run[a][1] = "over"
          /\ att[a].state \in {"waiting_sms", "failed", "expired"}
        BY <1>4, <2>1 DEF AttOK, SmsOK
    <2>3. \A t \in Submits : t # s => submit[a][t] = "no"
        BY <1>4 DEF AttOK, SubmitOK
    <2>4. (a \notin closed /\ ~att[a].old) => att[a].known /\ att[a].state = "waiting_sms"
        BY <1>4, <2>2 DEF AttOK, FreshOK
    <2> QED BY <2>1, <2>2, <2>3, <2>4
<1>5. CASE Submit(a, s) \/ CodeAccepted(a, s)
    <2>1. PICK step \in {"checking", "saving"} : SubmitTo(a, s, step)
        BY <1>5 DEF Submit, CodeAccepted
    <2>2. UNCHANGED <<att, saved>>
        BY <1>5 DEF Submit, CodeAccepted
    <2>3. submit'[a][s] = step /\ \A t \in Submits : t # s => submit'[a][t] = submit[a][t]
        BY <2>1, SubmitFacts
    <2>4. \A t \in Submits : t # s => submit[a][t] = "no"
        BY <1>4, <1>5 DEF Submit, CodeAccepted, InFlight
    <2>5. /\ att[a].via \in Phone /\ run[a][1] = "over" /\ att[a].state # "none"
          /\ att[a].state \in {"waiting_sms", "failed", "expired"}
          /\ (a \notin closed /\ ~att[a].old) => att[a].state = "waiting_sms"
        <3>1. CASE Submit(a, s)
            BY <3>1 DEF Submit, AttOK, QrOK, SmsOK
        <3>2. CASE CodeAccepted(a, s)
            BY <3>2, <1>4 DEF CodeAccepted
        <3> QED BY <1>5, <3>1, <3>2
    <2>6. UnbornOK(a)' /\ SubmitOK(a)'
        BY <1>1, <2>2, <2>3, <2>4, <2>5 DEF AttOK, UnbornOK, SubmitOK
    <2>7. SmsOK(a)' /\ QrOK(a)'
        BY <1>1, <1>2, <2>2, <2>3, <2>5 DEF AttOK, SmsOK, QrOK
    <2>8. SuccessOK(a)' /\ SuccessStays(a)
        BY <1>1, <1>2, <2>2 DEF AttOK, SuccessOK, SuccessStays
    <2>9. FreshOK(a)'
        BY <1>1, <1>2, <2>2, <2>5 DEF AttOK, FreshOK
    <2>10. Counted(a)' => Counted(a)
        BY <1>1, <1>2, <2>2 DEF Counted, Active
    <2> QED BY <2>6, <2>7, <2>8, <2>9, <2>10 DEF Kept, AttOK
<1>6. CASE SubmitFails(a, s) \/ SubmitSaved(a, s)
    <2>1. PICK st \in {"waiting_sms", "success"} : SetState(a, st) /\ (st = "success" => a \in saved')
        BY <1>6 DEF SubmitFails, SubmitSaved
    <2>2. st \in State
        BY DEF State, ACTIVE_LOGIN_STATES
    <2>3. att'[a] = [att[a] EXCEPT !.state = st]
        BY <2>1, <2>2, SetStateFacts
    <2>4. att'[a].state = st /\ att'[a].via = att[a].via /\ att'[a].known = att[a].known
          /\ att'[a].old = att[a].old
        BY <1>3, <2>3 DEF Entry
    <2>5. submit[a][s] # "no" /\ SubmitTo(a, s, "no")
        BY <1>6 DEF SubmitFails, SubmitSaved
    <2>6. \A t \in Submits : submit'[a][t] = "no"
        BY <1>4, <2>5, SubmitFacts
    <2>7. UnbornOK(a)' /\ SubmitOK(a)'
        BY <1>1, <1>4, <2>4, <2>5, <2>6 DEF UnbornOK, SubmitOK
    <2>8. SmsOK(a)' /\ QrOK(a)'
        BY <1>1, <1>2, <1>4, <2>4, <2>5, <2>6 DEF AttOK, SmsOK, QrOK
    <2>9. SuccessOK(a)' /\ SuccessStays(a)
        BY <1>1, <1>4, <2>1, <2>4, <2>5 DEF SuccessOK, SuccessStays
    <2>10. FreshOK(a)'
        BY <1>1, <1>2, <1>4, <2>4, <2>5, <2>6 DEF FreshOK
    <2>11. Counted(a)' => Counted(a)
        BY <1>1, <1>2, <1>4, <2>4, <2>5 DEF Counted, Active, IsActive, ACTIVE_LOGIN_STATES
    <2> QED BY <2>7, <2>8, <2>9, <2>10, <2>11 DEF Kept, AttOK
<1> QED BY <1>5, <1>6 DEF SubmitNext

\* A submission keeps all attempts sound.
LEMMA SubmitAllKept ==
    ASSUME AllOK, NEW a \in Attempt, NEW s \in Submits, SubmitNext(a, s)
    PROVE  AllKept
<1>1. TypeOK /\ \A b \in Attempt : AttOK(b)
    BY DEF AllOK
<1>2. UNCHANGED <<run, open, switching, refreshing, stopped, closed>>
    BY DEF SubmitNext, Submit, CodeAccepted, SubmitFails, SubmitSaved, Apart
<1>3. saved' \in {saved, saved \cup {a}}
    BY DEF SubmitNext, Submit, CodeAccepted, SubmitFails, SubmitSaved
<1>4. PICK step \in {"no", "checking", "saving"} : SubmitTo(a, s, step)
    BY DEF SubmitNext, Submit, CodeAccepted, SubmitFails, SubmitSaved
<1>5. /\ submit' \in [Attempt -> [Submits -> {"no", "checking", "saving"}]]
      /\ \A b \in Attempt : b # a => submit'[b] = submit[b]
    BY <1>1, <1>4, SubmitFacts
<1>6. att' \in [Attempt -> Entry] /\ \A b \in Attempt : b # a => att'[b] = att[b]
    <2>1. \/ UNCHANGED att
          \/ \E st \in State : SetState(a, st)
        BY DEF SubmitNext, Submit, CodeAccepted, SubmitFails, SubmitSaved, State, ACTIVE_LOGIN_STATES
    <2>2. att \in [Attempt -> Entry]
        BY <1>1 DEF TypeOK, Entry
    <2>3. ASSUME NEW st \in State, SetState(a, st)
          PROVE  att' \in [Attempt -> Entry] /\ \A b \in Attempt : b # a => att'[b] = att[b]
        BY <1>1, <2>3, SetStateFacts
    <2> QED BY <2>1, <2>2, <2>3
<1>7. TypeOK'
    BY <1>1, <1>2, <1>3, <1>5, <1>6 DEF TypeOK, Entry
<1>8. Kept(a)
    BY <1>1, SubmitKept
<1>9. ASSUME NEW b \in Attempt, b # a PROVE Kept(b)
    <2>1. saved \subseteq saved'
        BY <1>3
    <2> QED BY <1>1, <1>2, <1>5, <1>6, <1>9, <2>1, SameStays
<1> QED BY <1>7, <1>8, <1>9 DEF AllKept

-----------------------------------------------------------------------------
(* What logouts, timers, buttons and the shutdown do.                      *)

\* A step that only takes from the attempts keeps them sound.
LEMMA TakingKept ==
    ASSUME AllOK, att' \in [Attempt -> Entry], \A a \in Attempt : Calm(a, att'[a], closed'),
           closed' \subseteq Attempt, open' \subseteq open, switching' \subseteq Employee \X Via,
           stopped' \in BOOLEAN, UNCHANGED <<run, submit, refreshing, saved>>
    PROVE  AllKept
<1>1. TypeOK'
    BY DEF AllOK, TypeOK, Entry
<1>2. ASSUME NEW a \in Attempt PROVE Kept(a)
    BY QuietStays DEF AllOK, Still
<1> QED BY <1>1, <1>2 DEF AllKept

\* An attempt that nothing was done to.
LEMMA NothingTaken ==
    ASSUME TypeOK
    PROVE  att \in [Attempt -> Entry] /\ \A a \in Attempt : Calm(a, att[a], closed)
<1>1. att \in [Attempt -> Entry]
    BY DEF TypeOK, Entry
<1> QED BY <1>1 DEF Calm

\* sweepTerminal and the sweep timer forget old attempts.
LEMMA SweptTakes ==
    ASSUME TypeOK
    PROVE  /\ Swept(att) \in [Attempt -> Entry]
           /\ \A a \in Attempt : Calm(a, Swept(att)[a], closed) /\ Swept(att)[a].state = att[a].state
<1>1. att \in [Attempt -> Entry]
    BY DEF TypeOK, Entry
<1>2. ASSUME NEW a \in Attempt
      PROVE  /\ Swept(att)[a] \in Entry
             /\ Calm(a, Swept(att)[a], closed) /\ Swept(att)[a].state = att[a].state
    <2> DEFINE t == [att[a] EXCEPT !.known = @ /\ ~att[a].old]
    <2>1. Swept(att)[a] = t
        BY DEF Swept
    <2>2. att[a] \in Entry
        BY <1>1
    <2>3. t = [by |-> att[a].by, via |-> att[a].via, state |-> att[a].state, old |-> att[a].old,
               known |-> att[a].known /\ ~att[a].old, handle |-> att[a].handle]
        BY <2>2 DEF Entry
    <2>4. t \in Entry
        BY <2>2, <2>3 DEF Entry
    <2>5. /\ t.via = att[a].via /\ t.old = att[a].old /\ t.state = att[a].state
          /\ t.known = (att[a].known /\ ~att[a].old)
        BY <2>3
    <2> HIDE DEF t
    <2>6. t.known => att[a].known
        BY <2>5
    <2>7. att[a].known => t.known \/ t.old
        BY <2>2, <2>5 DEF Entry
    <2>8. Calm(a, t, closed)
        BY <2>4, <2>5, <2>6, <2>7 DEF Calm
    <2> QED BY <2>1, <2>4, <2>5, <2>8
<1> QED BY <1>2 DEF Swept

\* What closeAttempt leaves of an attempt.
LEMMA FailedFacts ==
    ASSUME NEW r \in Entry, NEW t, t = [Failed(r) EXCEPT !.handle = 0]
    PROVE  /\ t \in Entry
           /\ t.via = r.via /\ t.old = r.old /\ t.known = r.known
           /\ t.state = IF IsActive(r) THEN "failed" ELSE r.state
<1>1. "failed" \in State
    BY DEF State
<1>2. \A q \in Entry : [q EXCEPT !.handle = 0] \in Entry
    BY Values DEF Entry
<1>3. CASE IsActive(r)
    <2>1. Failed(r) = [r EXCEPT !.state = "failed"]
        BY <1>3 DEF Failed
    <2>2. t = [[r EXCEPT !.state = "failed"] EXCEPT !.handle = 0]
        BY <2>1
    <2>3. [r EXCEPT !.state = "failed"] \in Entry
        BY <1>1 DEF Entry
    <2>4. t \in Entry
        <3>1. PICK q \in Entry : q = [r EXCEPT !.state = "failed"]
            BY <2>3
        <3>2. t = [q EXCEPT !.handle = 0]
            BY <2>2, <3>1
        <3> QED BY <1>2, <3>2
    <2>5. t.via = r.via /\ t.old = r.old /\ t.known = r.known /\ t.state = "failed"
        BY <2>2 DEF Entry
    <2> QED BY <1>3, <2>4, <2>5
<1>4. CASE ~IsActive(r)
    <2>1. t = [r EXCEPT !.handle = 0]
        BY <1>4 DEF Failed
    <2>2. t \in Entry
        BY <1>2, <2>1
    <2>3. t.via = r.via /\ t.old = r.old /\ t.known = r.known /\ t.state = r.state
        BY <2>1 DEF Entry
    <2> QED BY <1>4, <2>2, <2>3
<1> QED BY <1>3, <1>4

\* closeAttempt makes attempts fail that go on.
LEMMA ClosingTakes ==
    ASSUME TypeOK, NEW ts \in [Attempt -> Entry], \A a \in Attempt : Calm(a, ts[a], closed),
           NEW S \in SUBSET Attempt
    PROVE  /\ ClosedAll(ts, S) \in [Attempt -> Entry]
           /\ \A a \in Attempt : Calm(a, ClosedAll(ts, S)[a], closed \cup S)
           /\ \A a \in Attempt : ts[a].state = "none" <=> ClosedAll(ts, S)[a].state = "none"
<1>1. ASSUME NEW a \in Attempt
      PROVE  /\ ClosedAll(ts, S)[a] \in Entry
             /\ Calm(a, ClosedAll(ts, S)[a], closed \cup S)
             /\ ts[a].state = "none" <=> ClosedAll(ts, S)[a].state = "none"
    <2>1. ts[a] \in Entry /\ Calm(a, ts[a], closed)
        OBVIOUS
    <2>2. CASE a \notin S
        <3>1. ClosedAll(ts, S)[a] = ts[a]
            BY <2>2 DEF ClosedAll
        <3>2. Calm(a, ts[a], closed \cup S)
            BY <2>1 DEF Calm
        <3> QED BY <2>1, <3>1, <3>2
    <2>3. CASE a \in S
        <3>1. PICK t : t = [Failed(ts[a]) EXCEPT !.handle = 0]
            OBVIOUS
        <3>2. ClosedAll(ts, S)[a] = t
            BY <2>3, <3>1 DEF ClosedAll
        <3>3. /\ t \in Entry
              /\ t.via = ts[a].via /\ t.old = ts[a].old /\ t.known = ts[a].known
              /\ t.state = IF IsActive(ts[a]) THEN "failed" ELSE ts[a].state
            BY <2>1, <3>1, FailedFacts
        <3>4. /\ closed \subseteq closed \cup S /\ a \in closed \cup S
              /\ t.via \in Phone <=> att[a].via \in Phone
              /\ att[a].old => t.old
              /\ t.known => att[a].known
              /\ att[a].known => t.known \/ t.old
            BY <2>1, <2>3, <3>3 DEF Calm
        <3>5. \/ t.state = att[a].state
              \/ IsActive(att[a]) /\ t.state \in {"failed", "expired"}
            BY <2>1, <3>3 DEF Calm, IsActive, ACTIVE_LOGIN_STATES
        <3>6. Calm(a, t, closed \cup S)
            BY <3>3, <3>4, <3>5 DEF Calm
        <3>7. ts[a].state = "none" <=> t.state = "none"
            BY <3>3 DEF IsActive, ACTIVE_LOGIN_STATES
        <3> QED BY <3>2, <3>3, <3>6, <3>7
    <2> QED BY <2>2, <2>3
<1>2. ClosedAll(ts, S) \in [Attempt -> Entry]
    BY <1>1 DEF ClosedAll
<1> QED BY <1>1, <1>2

\* Logouts and the shutdown close attempts.
LEMMA CloseAllKept ==
    ASSUME AllOK, (\E e \in Employee : Logout(e)) \/ Shutdown
    PROVE  AllKept
<1>1. PICK S \in SUBSET Attempt :
          /\ att' = ClosedAll(att, S) /\ closed' = closed \cup S /\ open' = open \ Handles(S)
          /\ stopped' \in BOOLEAN /\ UNCHANGED <<run, switching, refreshing, submit, saved>>
    <2>1. ASSUME NEW e \in Employee, Logout(e)
          PROVE  \E S \in SUBSET Attempt :
                    /\ att' = ClosedAll(att, S) /\ closed' = closed \cup S
                    /\ open' = open \ Handles(S) /\ stopped' \in BOOLEAN
                    /\ UNCHANGED <<run, switching, refreshing, submit, saved>>
        BY <2>1 DEF Logout, AllOK, TypeOK
    <2>2. ASSUME Shutdown
          PROVE  \E S \in SUBSET Attempt :
                    /\ att' = ClosedAll(att, S) /\ closed' = closed \cup S
                    /\ open' = open \ Handles(S) /\ stopped' \in BOOLEAN
                    /\ UNCHANGED <<run, switching, refreshing, submit, saved>>
        BY <2>2 DEF Shutdown
    <2> QED BY <2>1, <2>2
<1>2. TypeOK /\ closed' \subseteq Attempt /\ open' \subseteq open /\ switching' \subseteq Employee \X Via
    BY <1>1 DEF AllOK, TypeOK
<1>3. att \in [Attempt -> Entry] /\ \A a \in Attempt : Calm(a, att[a], closed)
    BY <1>2, NothingTaken
<1>4. att' \in [Attempt -> Entry] /\ \A a \in Attempt : Calm(a, att'[a], closed')
    BY <1>1, <1>2, <1>3, ClosingTakes
<1> QED BY <1>1, <1>2, <1>4, TakingKept

\* An entry that is forgotten, and one that is given a state, with its handle cleared.
LEMMA ClearedFacts ==
    ASSUME NEW r \in Entry, NEW s \in State
    PROVE  /\ [r EXCEPT !.known = FALSE, !.handle = 0] \in Entry
           /\ [r EXCEPT !.state = s, !.handle = 0] \in Entry
           /\ [r EXCEPT !.old = FALSE, !.state = s, !.handle = 0] \in Entry
<1>1. \A q \in Entry : [q EXCEPT !.handle = 0] \in Entry
    BY Values DEF Entry
<1>2. \A q \in Entry : [q EXCEPT !.state = s] \in Entry
    BY DEF Entry
<1>3. PICK q \in Entry : q = [r EXCEPT !.known = FALSE]
    BY DEF Entry
<1>4. PICK q1 \in Entry : q1 = [r EXCEPT !.state = s]
    BY <1>2
<1>5. PICK q2 \in Entry : q2 = [r EXCEPT !.old = FALSE]
    BY DEF Entry
<1>6. PICK q3 \in Entry : q3 = [q2 EXCEPT !.state = s]
    BY <1>2
<1>7. [r EXCEPT !.known = FALSE, !.handle = 0] = [q EXCEPT !.handle = 0]
    BY <1>3
<1>8. [r EXCEPT !.state = s, !.handle = 0] = [q1 EXCEPT !.handle = 0]
    BY <1>4
<1>9. [r EXCEPT !.old = FALSE, !.state = s, !.handle = 0] = [q3 EXCEPT !.handle = 0]
    BY <1>5, <1>6
<1> QED BY <1>1, <1>7, <1>8, <1>9

\* The sweep timer.
LEMMA SweepKept == ASSUME AllOK, Sweep PROVE AllKept
<1> DEFINE gone == {a \in Attempt : att[a].known /\ att[a].old}
<1>1. /\ att' = [a \in Attempt |-> IF a \in gone THEN [att[a] EXCEPT !.known = FALSE, !.handle = 0]
                                   ELSE att[a]]
      /\ open' = open \ Handles(gone)
      /\ UNCHANGED <<run, switching, refreshing, submit, stopped, saved, closed>>
    BY DEF Sweep
<1>2. TypeOK /\ closed' \subseteq Attempt /\ open' \subseteq open /\ switching' \subseteq Employee \X Via
      /\ stopped' \in BOOLEAN
    BY <1>1 DEF AllOK, TypeOK
<1>3. att \in [Attempt -> Entry] /\ \A a \in Attempt : Calm(a, att[a], closed)
    BY <1>2, NothingTaken
<1>4. ASSUME NEW a \in Attempt PROVE att'[a] \in Entry /\ Calm(a, att'[a], closed')
    <2>1. CASE a \notin gone
        BY <1>1, <1>3, <2>1
    <2>2. CASE a \in gone
        <3>1. att'[a] = [att[a] EXCEPT !.known = FALSE, !.handle = 0] /\ att[a].old /\ att[a] \in Entry
            BY <1>1, <1>3, <2>2
        <3>2. att'[a] \in Entry
            BY <3>1, ClearedFacts DEF State
        <3>3. /\ att'[a].via = att[a].via /\ att'[a].old = att[a].old /\ att'[a].state = att[a].state
              /\ att'[a].known = FALSE
            BY <3>1 DEF Entry
        <3> QED BY <1>1, <3>1, <3>2, <3>3 DEF Calm
    <2> QED BY <2>1, <2>2
<1>5. att' \in [Attempt -> Entry]
    BY <1>1, <1>4
<1> QED BY <1>1, <1>2, <1>4, <1>5, TakingKept

\* Time passes, a status is read, a provider is chosen.
LEMMA EntryKept ==
    ASSUME AllOK, NEW a \in Attempt,
           GrowOld(a) \/ Expire(a) \/ \E via \in Provider : SelectProvider(a, via)
    PROVE  AllKept
<1>1. UNCHANGED <<run, switching, refreshing, submit, stopped, saved, closed>> /\ open' \subseteq open
    BY DEF GrowOld, Expire, SelectProvider
<1>2. TypeOK /\ closed' \subseteq Attempt /\ switching' \subseteq Employee \X Via /\ stopped' \in BOOLEAN
    BY <1>1 DEF AllOK, TypeOK
<1>3. att \in [Attempt -> Entry] /\ \A b \in Attempt : Calm(b, att[b], closed)
    BY <1>2, NothingTaken
<1>4. PICK t : att' = [att EXCEPT ![a] = t] /\ t \in Entry /\ Calm(a, t, closed)
    <2>1. CASE GrowOld(a)
        <3>1. att' = [att EXCEPT ![a] = [att[a] EXCEPT !.old = TRUE]]
            BY <2>1 DEF GrowOld
        <3>2. PICK t : t = [att[a] EXCEPT !.old = TRUE]
            OBVIOUS
        <3>3. t \in Entry /\ t.via = att[a].via /\ t.old = TRUE /\ t.known = att[a].known
              /\ t.state = att[a].state
            BY <1>3, <3>2 DEF Entry
        <3>4. Calm(a, t, closed)
            BY <3>3 DEF Calm
        <3> QED BY <3>1, <3>2, <3>3, <3>4
    <2>2. CASE Expire(a)
        <3>1. att' = [att EXCEPT ![a] = [att[a] EXCEPT !.state = "expired", !.handle = 0]]
            BY <2>2 DEF Expire
        <3>2. PICK t : t = [att[a] EXCEPT !.state = "expired", !.handle = 0]
            OBVIOUS
        <3>3. "expired" \in State
            BY DEF State
        <3>4. t \in Entry /\ t.via = att[a].via /\ t.old = att[a].old /\ t.known = att[a].known
              /\ t.state = "expired"
            <4>1. t \in Entry
                BY <1>3, <3>2, <3>3, ClearedFacts
            <4> QED BY <1>3, <3>2, <4>1 DEF Entry
        <3>5. Calm(a, t, closed)
            BY <2>2, <3>4 DEF Calm, Expire
        <3> QED BY <3>1, <3>2, <3>4, <3>5
    <2>3. ASSUME NEW via \in Provider, SelectProvider(a, via)
          PROVE  \E t : att' = [att EXCEPT ![a] = t] /\ t \in Entry /\ Calm(a, t, closed)
        <3>1. att' = [att EXCEPT ![a] = [att[a] EXCEPT !.via = via]] /\ att[a].via \in Provider
            BY <2>3 DEF SelectProvider
        <3>2. PICK t : t = [att[a] EXCEPT !.via = via]
            OBVIOUS
        <3>3. t \in Entry /\ t.via = via /\ t.old = att[a].old /\ t.known = att[a].known
              /\ t.state = att[a].state
            BY <1>3, <3>2 DEF Entry, Via
        <3>4. Calm(a, t, closed)
            BY <3>1, <3>3, Values DEF Calm
        <3> QED BY <3>1, <3>2, <3>3, <3>4
    <2> QED BY <2>1, <2>2, <2>3
<1>5. att' \in [Attempt -> Entry] /\ \A b \in Attempt : Calm(b, att'[b], closed')
    BY <1>1, <1>3, <1>4
<1> QED BY <1>1, <1>2, <1>5, TakingKept

-----------------------------------------------------------------------------
(* What the refresh button does.                                           *)

\* The attempt runs once more, and so counts no longer.
LEMMA AgainKept ==
    ASSUME AllOK, NEW a \in Attempt, att[a].via \notin Phone, att[a].state # "none", Again(a),
           refreshing' \in [Attempt -> 0 .. MaxRuns],
           \A b \in Attempt : b # a => refreshing'[b] = refreshing[b],
           UNCHANGED <<switching, submit, stopped, saved, closed>>
    PROVE  AllKept
<1> DEFINE unused == {j \in Run : run[a][j] = "none"}
           k == Least(unused)
           t == [att[a] EXCEPT !.old = FALSE, !.state = "starting", !.handle = 0]
<1>1. TypeOK /\ AttOK(a) /\ att \in [Attempt -> Entry] /\ att[a] \in Entry
    BY DEF AllOK, TypeOK, Entry
<1>2. MoreRuns /\ run' = [run EXCEPT ![a][k] = "launching"] /\ open' \subseteq open
      /\ att' = [att EXCEPT ![a] = t]
    BY DEF Again
<1>3. k \in Run /\ run[a][k] = "none"
    <2>1. unused \subseteq Nat /\ unused # {}
        <3>1. PICK j \in Run : run[a][j] = "none"
            BY <1>1, <1>2, RunLeft
        <3>2. j \in unused
            BY <3>1
        <3> QED BY <3>2
    <2>2. k \in unused
        <3> HIDE DEF unused
        <3> QED BY <2>1, LeastIsIn
    <2> QED BY <2>2
<1> HIDE DEF k
<1>4. k # 1 /\ k > 1
    BY <1>1, <1>3, Values DEF AttOK, UnbornOK
<1>5. /\ run' \in [Attempt -> [Run -> RunStep]]
      /\ run'[a][k] = "launching" /\ \A j \in Run : j # k => run'[a][j] = run[a][j]
      /\ \A b \in Attempt : b # a => run'[b] = run[b]
    <2>1. "launching" \in RunStep
        BY DEF RunStep
    <2>2. Goto(a, k, "launching")
        BY <1>2 DEF Goto
    <2> QED BY <1>1, <1>3, <2>1, <2>2, GotoFacts
<1>6. ~Once(a)'
    BY <1>3, <1>4, <1>5 DEF Once
<1>7. /\ t \in Entry
      /\ t.via = att[a].via /\ t.known = att[a].known /\ t.state = "starting"
    <2>1. "starting" \in State
        BY DEF State, ACTIVE_LOGIN_STATES
    <2>2. t \in Entry
        BY <1>1, <2>1, ClearedFacts
    <2> QED BY <1>1, <2>1, <2>2 DEF Entry
<1> HIDE DEF t
<1>8. /\ att' \in [Attempt -> Entry] /\ att'[a] = t
      /\ \A b \in Attempt : b # a => att'[b] = att[b]
    BY <1>1, <1>2, <1>7
<1>9. TypeOK'
    BY <1>1, <1>2, <1>5, <1>8 DEF TypeOK, Entry
<1>10. Kept(a)
    <2>1. UnbornOK(a)' /\ SubmitOK(a)'
        BY <1>1, <1>4, <1>5, <1>7, <1>8, Values DEF AttOK, UnbornOK, SubmitOK
    <2>2. SmsOK(a)' /\ QrOK(a)'
        BY <1>1, <1>5, <1>7, <1>8 DEF AttOK, SmsOK, QrOK
    <2>3. SuccessOK(a)' /\ SuccessStays(a) /\ FreshOK(a)'
        BY <1>6, <1>7, <1>8 DEF SuccessOK, SuccessStays, FreshOK
    <2> QED BY <1>6, <2>1, <2>2, <2>3 DEF Kept, AttOK, Counted
<1>11. ASSUME NEW b \in Attempt, b # a PROVE Kept(b)
    <2>1. att'[b] = att[b] /\ run'[b] = run[b] /\ submit'[b] = submit[b]
          /\ refreshing'[b] = refreshing[b]
        BY <1>5, <1>8, <1>11
    <2> QED BY <1>1, <2>1, SameStays DEF AllOK
<1> QED BY <1>9, <1>10, <1>11 DEF AllKept

\* A refresh waits for the old browser or goes on at once.
LEMMA RefreshKept ==
    ASSUME AllOK, NEW a \in Attempt, Refresh(a) \/ Refreshed(a)
    PROVE  AllKept
<1>1. TypeOK /\ AttOK(a)
    BY DEF AllOK
<1>2. UNCHANGED <<switching, submit, stopped, saved, closed>>
    BY DEF Refresh, Refreshed
<1>3. att[a].via \notin Phone /\ att[a].state # "none"
    <2>1. CASE Refresh(a)
        BY <2>1, Values DEF Refresh
    <2>2. CASE Refreshed(a)
        <3>1. refreshing[a] \in Nat /\ refreshing[a] > 0
            BY <1>1, <2>2 DEF Refreshed, TypeOK
        <3> QED BY <1>1, <3>1 DEF AttOK, SmsOK, UnbornOK
    <2> QED BY <2>1, <2>2
<1>4. CASE Again(a) /\ UNCHANGED refreshing
    BY <1>1, <1>2, <1>3, <1>4, AgainKept DEF TypeOK
<1>5. CASE Refreshed(a)
    <2>1. refreshing' = [refreshing EXCEPT ![a] = @ - 1] /\ refreshing[a] > 0 /\ Again(a)
        BY <1>5 DEF Refreshed
    <2>2. refreshing' \in [Attempt -> 0 .. MaxRuns]
        BY <1>1, <2>1, Values DEF TypeOK
    <2>3. \A b \in Attempt : b # a => refreshing'[b] = refreshing[b]
        BY <1>1, <2>1 DEF TypeOK
    <2> QED BY <1>2, <1>3, <2>1, <2>2, <2>3, AgainKept
<1>6. CASE /\ refreshing[a] < MaxRuns - 1
           /\ refreshing' = [refreshing EXCEPT ![a] = @ + 1]
           /\ UNCHANGED <<att, run, open>>
    <2>1. refreshing' \in [Attempt -> 0 .. MaxRuns]
        BY <1>1, <1>6, Values DEF TypeOK
    <2>2. TypeOK'
        BY <1>1, <1>2, <1>6, <2>1 DEF TypeOK
    <2>3. Calm(a, att'[a], closed') /\ Still(a)
        BY <1>1, <1>2, <1>3, <1>6, NothingTaken DEF Still
    <2>4. Kept(a)
        BY <1>1, <2>3, QuietStays
    <2>5. ASSUME NEW b \in Attempt, b # a PROVE Kept(b)
        <3>1. refreshing'[b] = refreshing[b]
            BY <1>1, <1>6, <2>5 DEF TypeOK
        <3> QED BY <1>1, <1>2, <1>6, <3>1, SameStays DEF AllOK
    <2> QED BY <2>2, <2>4, <2>5 DEF AllKept
<1> QED BY <1>4, <1>5, <1>6 DEF Refresh

-----------------------------------------------------------------------------
(* What a begin does, and the limit.                                       *)

\* When no attempt begins to count, as many count as before or fewer.
LEMMA BoundKept ==
    ASSUME Bound, \A a \in Attempt : Counted(a)' => Counted(a)
    PROVE  Bound'
<1> DEFINE C == {a \in Attempt : Counted(a)}
           D == {a \in Attempt : Counted(a)'}
<1>1. IsFiniteSet(Attempt)
    BY Values, FS_Interval
<1>2. D \subseteq C /\ C \subseteq Attempt
    OBVIOUS
<1>3. IsFiniteSet(C) /\ IsFiniteSet(D)
    BY <1>1, <1>2, FS_Subset
<1>4. Cardinality(D) <= Cardinality(C) /\ Cardinality(C) \in Nat /\ Cardinality(D) \in Nat
    BY <1>2, <1>3, FS_Subset, FS_CardinalityType
<1>5. Cardinality(C) <= Maximum
    BY DEF Bound
<1>6. Cardinality(D) <= Maximum
    BY <1>4, <1>5, Values
<1> QED BY <1>6 DEF Bound

\* One attempt more than fewer than the limit.
LEMMA OneMore ==
    ASSUME NEW A \in SUBSET Attempt, Cardinality(A) < Maximum, NEW b \in Attempt,
           NEW D, D \subseteq A \cup {b}
    PROVE  Cardinality(D) <= Maximum
<1>1. IsFiniteSet(Attempt)
    BY Values, FS_Interval
<1>2. IsFiniteSet(A) /\ IsFiniteSet(A \cup {b})
    <2>1. A \cup {b} \subseteq Attempt
        OBVIOUS
    <2> QED BY <1>1, <2>1, FS_Subset
<1>3. Cardinality(A) \in Nat /\ Cardinality(A \cup {b}) <= Cardinality(A) + 1
    BY <1>2, FS_AddElement, FS_CardinalityType
<1>4. /\ Cardinality(D) <= Cardinality(A \cup {b})
      /\ Cardinality(D) \in Nat /\ Cardinality(A \cup {b}) \in Nat
    BY <1>2, FS_Subset, FS_CardinalityType
<1> QED BY <1>3, <1>4, Values

\* What a step has to show.
Sound == TypeOK' /\ (\A a \in Attempt : AttOK(a)' /\ SuccessStays(a)) /\ Bound'

\* A step that begins nothing has shown it.
LEMMA KeptIsSound == ASSUME Bound, AllKept PROVE Sound
<1>1. Bound'
    BY BoundKept DEF AllKept, Kept
<1> QED BY <1>1 DEF AllKept, Kept, Sound

\* A new attempt is made only where fewer than the limit are active.
LEMMA StartKept ==
    ASSUME AllOK, Bound, NEW ts \in [Attempt -> Entry], NEW e \in Employee, NEW via \in Via,
           \A a \in Attempt : Calm(a, ts[a], closed'),
           \A a \in Attempt : ts[a].state = "none" <=> att[a].state = "none",
           Start(ts, e, via), closed' \subseteq Attempt, open' \subseteq open,
           switching' \subseteq Employee \X Via, UNCHANGED <<refreshing, submit, stopped, saved>>
    PROVE  Sound
<1>1. TypeOK /\ \A a \in Attempt : AttOK(a)
    BY DEF AllOK
<1>2. CASE ~MayStart(ts)
    <2>1. att' = ts /\ run' = run
        BY <1>2 DEF Start
    <2>2. stopped' \in BOOLEAN
        BY <1>1 DEF TypeOK
    <2>3. AllKept
        BY <2>1, <2>2, TakingKept
    <2> QED BY <2>3, KeptIsSound
<1>3. CASE MayStart(ts)
    <2> DEFINE unused == {a \in Attempt : ts[a].state = "none"}
               b == Least(unused)
               new == [by |-> e, via |-> via, state |-> "starting",
                       old |-> FALSE, known |-> TRUE, handle |-> 0]
               step == IF via \in Phone THEN "sending" ELSE "launching"
    <2>1. MoreRuns /\ att' = [ts EXCEPT ![b] = new] /\ run' = [run EXCEPT ![b][1] = step]
        BY <1>3 DEF Start
    <2>2. b \in Attempt /\ ts[b].state = "none"
        <3> HIDE DEF new, step
        <3>1. PICK a \in Attempt : att[a].state = "none"
            BY <1>1, <2>1, AttemptLeft DEF AttOK
        <3>2. a \in unused
            BY <3>1
        <3>3. unused \in SUBSET Attempt
            OBVIOUS
        <3>4. b \in unused
            <4> HIDE DEF unused
            <4> QED BY <3>2, <3>3, LeastAttempt
        <3> QED BY <3>4
    <2> HIDE DEF b
    <2>3. new \in Entry
        BY Values DEF Entry, State, ACTIVE_LOGIN_STATES
    <2>4. new.state = "starting" /\ new.via = via /\ new.known = TRUE /\ new.old = FALSE
        OBVIOUS
    <2> HIDE DEF new
    <2>5. /\ att' \in [Attempt -> Entry] /\ att'[b] = new
          /\ \A a \in Attempt : a # b => att'[a] = ts[a]
        BY <2>1, <2>2, <2>3
    <2>6. /\ run' \in [Attempt -> [Run -> RunStep]]
          /\ run'[b][1] = step /\ \A j \in Run : j # 1 => run'[b][j] = run[b][j]
          /\ \A a \in Attempt : a # b => run'[a] = run[a]
        <3>1. step \in RunStep
            BY DEF RunStep
        <3>2. Goto(b, 1, step)
            BY <2>1 DEF Goto
        <3> QED BY <1>1, <2>2, <3>1, <3>2, Values, GotoFacts
    <2>7. TypeOK'
        BY <1>1, <2>5, <2>6 DEF TypeOK, Entry
    <2>8. ASSUME NEW a \in Attempt, a # b PROVE Kept(a) /\ (Counted(a)' => a \in Active(ts))
        <3>1. Calm(a, att'[a], closed')
            BY <2>5, <2>8
        <3>2. Still(a)
            BY <2>6, <2>8 DEF Still
        <3>3. Counted(a)' => a \in Active(ts)
            BY <2>5, <2>8 DEF Counted, Active, IsActive
        <3> QED BY <1>1, <3>1, <3>2, <3>3, QuietStays
    <2>9. AttOK(b)' /\ SuccessStays(b)
        <3>1. /\ att[b].state = "none" /\ refreshing[b] = 0
              /\ \A k \in Run : run[b][k] = "none"
              /\ \A s \in Submits : submit[b][s] = "no"
            BY <1>1, <2>2 DEF AttOK, UnbornOK
        <3>2. Once(b)'
            BY <2>6, <3>1 DEF Once
        <3>3. UnbornOK(b)' /\ SubmitOK(b)'
            BY <2>4, <2>5, <2>6, <3>1 DEF UnbornOK, SubmitOK
        <3>4. SmsOK(b)' /\ QrOK(b)'
            BY <2>4, <2>5, <2>6, <3>1, <3>2 DEF SmsOK, QrOK
        <3>5. SuccessOK(b)' /\ SuccessStays(b)
            BY <2>4, <2>5, <3>1 DEF SuccessOK, SuccessStays
        <3>6. FreshOK(b)'
            BY <2>4, <2>5, <2>6, <3>1 DEF FreshOK
        <3> QED BY <3>3, <3>4, <3>5, <3>6 DEF AttOK
    <2>10. Bound'
        <3> DEFINE D == {a \in Attempt : Counted(a)}'
        <3>1. Active(ts) \in SUBSET Attempt /\ Cardinality(Active(ts)) < Maximum
            BY <1>3 DEF Active, MayStart
        <3>2. D \subseteq Active(ts) \cup {b}
            BY <2>8
        <3>3. Cardinality(D) <= Maximum
            <4> HIDE DEF D
            <4> QED BY <2>2, <3>1, <3>2, OneMore
        <3> QED BY <3>3 DEF Bound
    <2> QED BY <2>7, <2>8, <2>9, <2>10 DEF Sound, Kept
<1> QED BY <1>2, <1>3

\* A begin finds an attempt that goes on, replaces it or makes a new one.
LEMMA BeginKept ==
    ASSUME AllOK, Bound, NEW e \in Employee, NEW via \in Via, Begin(e, via) \/ Switched(e, via)
    PROVE  Sound
<1>1. TypeOK
    BY DEF AllOK
<1>2. UNCHANGED <<refreshing, submit, stopped, saved>>
    BY DEF Begin, Switched
<1>3. stopped' \in BOOLEAN /\ closed \subseteq Attempt /\ switching \subseteq Employee \X Via
    BY <1>1, <1>2 DEF TypeOK
<1>4. CASE Switched(e, via)
    <2>1. Start(att, e, via) /\ UNCHANGED <<open, closed>> /\ switching' \subseteq switching
        BY <1>4 DEF Switched
    <2>2. att \in [Attempt -> Entry] /\ \A a \in Attempt : Calm(a, att[a], closed')
        BY <1>1, <2>1, NothingTaken
    <2> QED BY <1>2, <1>3, <2>1, <2>2, StartKept
<1>5. CASE Begin(e, via)
    <2> DEFINE swept == Swept(att)
               found == Existing(swept, e)
               first == Least(found)
    <2>1. /\ swept \in [Attempt -> Entry]
          /\ \A a \in Attempt : Calm(a, swept[a], closed) /\ swept[a].state = att[a].state
        BY <1>1, SweptTakes
    <2>2. \/ found = {} /\ Start(swept, e, via) /\ UNCHANGED <<open, switching, closed>>
          \/ att' = swept /\ UNCHANGED <<run, open, switching, closed>>
          \/ /\ found # {} /\ closed' = closed \cup {first}
             /\ \/ Start(ClosedAll(swept, {first}), e, via) /\ UNCHANGED <<open, switching>>
                \/ /\ att' = ClosedAll(swept, {first})
                   /\ open' = open \ Handles({first})
                   /\ switching' = switching \cup {<<e, via>>}
                   /\ UNCHANGED run
        BY <1>5 DEF Begin
    <2> HIDE DEF swept
    <2>3. CASE Start(swept, e, via) /\ UNCHANGED <<open, switching, closed>>
        BY <1>2, <1>3, <2>1, <2>3, StartKept
    <2>4. CASE att' = swept /\ UNCHANGED <<run, open, switching, closed>>
        <3>1. AllKept
            BY <1>2, <1>3, <2>1, <2>4, TakingKept
        <3> QED BY <3>1, KeptIsSound
    <2>5. CASE found # {} /\ closed' = closed \cup {first}
        <3>1. first \in Attempt
            <4>1. found \subseteq Attempt /\ found \subseteq Nat
                BY DEF Existing, Active
            <4> HIDE DEF found
            <4>2. first \in found
                BY <2>5, <4>1, LeastIsIn
            <4> QED BY <4>1, <4>2
        <3> DEFINE ts == ClosedAll(swept, {first})
        <3> HIDE DEF first
        <3>2. /\ ts \in [Attempt -> Entry]
              /\ \A a \in Attempt : Calm(a, ts[a], closed \cup {first})
              /\ \A a \in Attempt : swept[a].state = "none" <=> ts[a].state = "none"
            BY <1>1, <2>1, <3>1, ClosingTakes
        <3> HIDE DEF ts
        <3>3. /\ \A a \in Attempt : Calm(a, ts[a], closed')
              /\ \A a \in Attempt : ts[a].state = "none" <=> att[a].state = "none"
              /\ closed' \subseteq Attempt
            BY <1>3, <2>1, <2>5, <3>1, <3>2
        <3>4. CASE Start(ts, e, via) /\ UNCHANGED <<open, switching>>
            BY <1>2, <1>3, <3>2, <3>3, <3>4, StartKept
        <3>5. CASE /\ att' = ts /\ open' = open \ Handles({first})
                   /\ switching' = switching \cup {<<e, via>>} /\ UNCHANGED run
            <4>1. switching' \subseteq Employee \X Via /\ open' \subseteq open
                BY <1>3, <3>5
            <4>2. AllKept
                BY <1>2, <1>3, <3>2, <3>3, <3>5, <4>1, TakingKept
            <4> QED BY <4>2, KeptIsSound
        <3> QED BY <2>2, <2>3, <2>4, <3>4, <3>5 DEF ts
    <2> QED BY <2>2, <2>3, <2>4, <2>5
<1> QED BY <1>4, <1>5

-----------------------------------------------------------------------------
(* The theorems.                                                           *)

\* Where nothing was begun nothing counts.
LEMMA InitLInv == Init => LInv
<1> SUFFICES ASSUME Init PROVE LInv
    OBVIOUS
<1>1. /\ att \in [Attempt -> Entry]
      /\ \A a \in Attempt : att[a].state = "none" /\ att[a].known = FALSE
    <2>1. PICK e \in Employee : e = CHOOSE x \in Employee : TRUE
        BY Values
    <2>2. PICK v \in Via : v = CHOOSE x \in Via : TRUE
        BY Values
    <2>3. att \in [Attempt -> [by: {e}, via: {v}, state: {"none"}, old: {FALSE},
                              known: {FALSE}, handle: {0}]]
        BY <2>1, <2>2 DEF Init
    <2>4. ASSUME NEW a \in Attempt
          PROVE  att[a] \in Entry /\ att[a].state = "none" /\ att[a].known = FALSE
        <3>1. att[a] = [by |-> e, via |-> v, state |-> "none", old |-> FALSE,
                        known |-> FALSE, handle |-> 0]
            BY <2>3
        <3> QED BY <3>1, Values DEF Entry, State
    <2> QED BY <2>3, <2>4
<1>2. TypeOK
    BY <1>1, Values DEF Init, TypeOK, Entry, RunStep
<1>3. ASSUME NEW a \in Attempt PROVE AttOK(a)
    <2>1. /\ refreshing[a] = 0 /\ \A k \in Run : run[a][k] = "none"
          /\ \A s \in Submits : submit[a][s] = "no"
        BY DEF Init
    <2>2. UnbornOK(a) /\ SubmitOK(a)
        BY <1>1, <2>1 DEF UnbornOK, SubmitOK
    <2>3. SmsOK(a) /\ QrOK(a)
        BY <1>1, <2>1, Values DEF SmsOK, QrOK, Once
    <2>4. SuccessOK(a) /\ FreshOK(a)
        BY <1>1 DEF SuccessOK, FreshOK
    <2> QED BY <2>2, <2>3, <2>4 DEF AttOK
<1>4. Bound
    <2>1. {a \in Attempt : Counted(a)} = {}
        BY <1>1 DEF Counted, Active
    <2>2. Cardinality({}) = 0
        BY FS_EmptySet
    <2> QED BY <2>1, <2>2, Values DEF Bound
<1> QED BY <1>2, <1>3, <1>4 DEF LInv

\* Every step keeps the invariant, and takes no success back.
LEMMA StepLInv ==
    ASSUME LInv, [Next]_vars
    PROVE  LInv' /\ \A a \in Attempt : SuccessStays(a)
<1>1. AllOK /\ Bound
    BY DEF LInv, AllOK
<1>2. SUFFICES Sound
    BY DEF Sound, LInv
<1>3. ASSUME AllKept PROVE Sound
    BY <1>1, <1>3, KeptIsSound
<1>4. CASE UNCHANGED vars
    <2>1. TypeOK /\ \A a \in Attempt : AttOK(a)
        BY <1>1 DEF AllOK
    <2>2. TypeOK'
        BY <1>4, <2>1 DEF vars, TypeOK
    <2>3. \A a \in Attempt : Kept(a)
        BY <1>4, <2>1, SameStays DEF vars
    <2> QED BY <1>3, <2>2, <2>3 DEF AllKept
<1>5. ASSUME NEW e \in Employee, NEW via \in Via, Begin(e, via) \/ Switched(e, via) PROVE Sound
    BY <1>1, <1>5, BeginKept
<1>6. CASE (\E e \in Employee : Logout(e)) \/ Shutdown
    BY <1>1, <1>3, <1>6, CloseAllKept
<1>7. CASE Sweep
    BY <1>1, <1>3, <1>7, SweepKept
<1>8. ASSUME NEW a \in Attempt,
             GrowOld(a) \/ Expire(a) \/ \E via \in Provider : SelectProvider(a, via)
      PROVE  Sound
    BY <1>1, <1>3, <1>8, EntryKept
<1>9. ASSUME NEW a \in Attempt, Refresh(a) \/ Refreshed(a) PROVE Sound
    BY <1>1, <1>3, <1>9, RefreshKept
<1>10. ASSUME NEW a \in Attempt, NEW k \in Run, RunNext(a, k) PROVE Sound
    BY <1>1, <1>3, <1>10, RunAllKept
<1>11. ASSUME NEW a \in Attempt, NEW s \in Submits, SubmitNext(a, s) PROVE Sound
    BY <1>1, <1>3, <1>11, SubmitAllKept
<1> QED BY <1>4, <1>5, <1>6, <1>7, <1>8, <1>9, <1>10, <1>11 DEF Next

\* The invariant holds for any number of employees, ways to log in, runs and callers.
LEMMA LInvHolds == Spec => []LInv
<1>1. LInv /\ [Next]_vars => LInv'
    BY StepLInv
<1> QED BY InitLInv, <1>1, PTL DEF Spec

\* Type correctness of the login manager: of its attempts, browsers and callers, for any
\* number of employees and ways to log in.
THEOREM TypeCorrect == Spec => []TypeOK
<1>1. LInv => TypeOK
    BY DEF LInv
<1> QED BY <1>1, LInvHolds, PTL

\* However many begins wait for each other, switch the way to log in or are
\* overtaken by logouts and timers, no more attempts go on than the limit allows,
\* but for those that were closed or refreshed or whose time has passed (MayStart,
\* evaluated again once the replaced attempt is closed).
THEOREM LimitHoldsHolds == Spec => []LimitHolds
<1>1. LInv => LimitHolds
    <2>1. {a \in Active(att) : a \notin closed /\ ~att[a].old /\ Once(a)}
            = {a \in Attempt : Counted(a)}
        BY DEF Counted, Active
    <2> QED BY <2>1 DEF LInv, LimitHolds, Bound
<1> QED BY <1>1, LInvHolds, PTL

\* No attempt says that it succeeded before its session is stored, and what a run, a
\* submission, a logout or a timer does late takes no success back (run, runSmsSend,
\* submitSms, closeAttempt, expireIfNeeded).
THEOREM SuccessIsTrueHolds == Spec => SuccessIsTrue
<1>1. LInv /\ [Next]_vars => \A a \in Attempt : SuccessStays(a)
    BY StepLInv
<1>2. LInv /\ LInv' /\ [Next]_vars => [SuccessIsSaved' /\ \A a \in Attempt : SuccessStays(a)]_vars
    <2>1. LInv' => SuccessIsSaved'
        BY DEF LInv, AttOK, SuccessOK, SuccessIsSaved
    <2> QED BY <1>1, <2>1
<1> QED BY <1>2, LInvHolds, PTL DEF Spec, SuccessIsTrue

-----------------------------------------------------------------------------
(* HttpServer: requests and sessions.                                      *)

\* Requests that ended after their client had gone: the finish event may not have come.
Lost == {r \in aborted : pc[r] = "gone"}

GaugeOK == gauge >= Cardinality(Pending) /\ gauge <= Cardinality(Pending) + Cardinality(Lost)

\* A request has a purpose only while it is handled, a session only to use it, and
\* inFlight counts those at work.
UseOK ==
    /\ \A r \in Request : pc[r] \in {"new", "gone"} => does[r] = "nothing"
    /\ \A r \in Request : uses[r] # NoSession => does[r] = "use" /\ pc[r] \in {"working", "answered"}
    /\ \A r \in Request : pc[r] = "opening" => does[r] = "init"
    /\ \A s \in Request : inFlight[s] = Cardinality(Users(s))

\* The requests that got past the limits, and the handshakes that found room.
Admitted == {r \in Request : does[r] # "nothing"}
Promised == {r \in Request : does[r] = "init" /\ pc[r] \in {"reading", "opening"}}

RoomOK ==
    /\ Cardinality(Admitted) <= MaxRequests
    /\ Cardinality(sessions) + Cardinality(Promised) < MaxSessions + MaxRequests

\* Once its connections have ended, a shutdown leaves nobody waiting; the tenants are
\* forgotten last.
QuietOK ==
    /\ phase \in {"clients", "closed"} /\ ~timedOut => \A r \in Pending : r \in aborted
    /\ phase = "closed" /\ ~timedOut => ~tenant

HInv == ServerTypeOK /\ GaugeOK /\ UseOK /\ RoomOK /\ QuietOK

-----------------------------------------------------------------------------
\* All sets of requests are finite.
LEMMA Finite ==
  ASSUME NEW S \in SUBSET Request
  PROVE  IsFiniteSet(S) /\ Cardinality(S) \in Nat
  BY LimitAssumption, FS_Subset, FS_CardinalityType

\* A smaller set of requests has no more members.
LEMMA Fewer ==
  ASSUME NEW S \in SUBSET Request, NEW T \in SUBSET S
  PROVE  Cardinality(T) <= Cardinality(S)
  BY Finite, FS_Subset

\* One request more in a set, or one less.
LEMMA OneMoreRequest ==
  ASSUME NEW S \in SUBSET Request, NEW r \in Request
  PROVE  /\ r \notin S => Cardinality(S \cup {r}) = Cardinality(S) + 1
         /\ r \in S => Cardinality(S \ {r}) = Cardinality(S) - 1
         /\ Cardinality(S \cup {r}) <= Cardinality(S) + 1
<1>1. IsFiniteSet(S) /\ Cardinality(S) \in Nat
  BY Finite
<1>2. r \notin S => Cardinality(S \cup {r}) = Cardinality(S) + 1
  BY <1>1, FS_AddElement
<1>3. r \in S => Cardinality(S \ {r}) = Cardinality(S) - 1
  BY <1>1, FS_RemoveElement
<1>4. r \in S => S \cup {r} = S
  OBVIOUS
<1> QED BY <1>1, <1>2, <1>3, <1>4

\* A server that has just started satisfies the invariant.
LEMMA ServerInitOK == ServerInit => HInv
<1> SUFFICES ASSUME ServerInit PROVE HInv
  OBVIOUS
<1>1. Pending = {} /\ Lost = {} /\ Admitted = {} /\ Promised = {} /\ \A s \in Request : Users(s) = {}
  BY DEF ServerInit, Pending, Lost, Admitted, Promised, Users
<1>2. Cardinality({}) = 0
  BY FS_EmptySet
<1>3. ServerTypeOK
  <2>1. /\ pc \in [Request -> {"new", "expiring", "reading", "opening", "working", "answered", "gone"}]
        /\ does \in [Request -> {"nothing", "call", "login", "init", "use"}]
        /\ uses \in [Request -> Request \cup {NoSession}]
    BY DEF ServerInit
  <2>2. gauge \in Int /\ inFlight \in [Request -> Int]
    BY DEF ServerInit
  <2> QED BY <2>1, <2>2 DEF ServerInit, ServerTypeOK
<1>4. GaugeOK /\ UseOK /\ QuietOK
  BY <1>1, <1>2 DEF ServerInit, GaugeOK, UseOK, QuietOK
<1>5. RoomOK
  BY <1>1, <1>2, LimitAssumption DEF ServerInit, RoomOK
<1> QED BY <1>3, <1>4, <1>5 DEF HInv

-----------------------------------------------------------------------------
\* What an arrival may do.
LEMMA ArriveCases ==
  ASSUME ServerTypeOK, NEW r \in Request, Arrive(r)
  PROVE  /\ pc[r] = "new" /\ phase \in {"serving", "logins", "writes", "transports"} /\ gauge' = gauge + 1
         /\ UNCHANGED <<aborted, serverVars>>
         /\ \/ Answered(r)
            \/ /\ gauge' <= MaxRequests /\ UNCHANGED <<uses, sessionVars>>
               /\ \E purpose \in {"login", "call"}, step \in {"reading", "working"} :
                     Proceed(r, purpose, step)
            \/ gauge' <= MaxRequests /\ \E s \in Request : UseSession(r, s)
            \/ gauge' <= MaxRequests /\ Handshake(r)
<1>1. \A q \in Query : Purpose(q) \in {"nothing", "login", "call", "use", "init"}
  BY DEF Purpose, Query
<1>2. PICK a \in Admission :
        \/ Answered(r)
        \/ /\ phase = "serving" /\ ~Overloaded
           /\ CASE a.purpose = "nothing" -> Answered(r)
                [] a.purpose \in {"login", "call"} ->
                      /\ Proceed(r, a.purpose, IF a.purpose = "call" THEN "reading" ELSE "working")
                      /\ UNCHANGED <<uses, sessionVars>>
                [] a.purpose = "use" -> UseSession(r, a.session)
                [] a.purpose = "init" -> Handshake(r)
  BY DEF Arrive
<1>3. a.purpose \in {"nothing", "login", "call", "use", "init"}
  BY <1>1 DEF Admission
<1>4. gauge' = gauge + 1 /\ gauge' \in Int /\ (~Overloaded => gauge' <= MaxRequests)
  BY LimitAssumption DEF Arrive, Overloaded, ServerTypeOK
<1>5. UseSession(r, a.session) => a.session \in Request
  BY DEF UseSession, ServerTypeOK
<1> QED BY <1>2, <1>3, <1>4, <1>5 DEF Arrive
Steps == {"new", "expiring", "reading", "opening", "working", "answered", "gone"}

\* A request that arrives is counted; it is admitted only if the count allows.
LEMMA ArriveStep ==
  ASSUME HInv, NEW r \in Request, Arrive(r)
  PROVE  HInv'
<1> USE DEF HInv
<1>1. /\ pc[r] = "new" /\ phase \in {"serving", "logins", "writes", "transports"} /\ gauge' = gauge + 1
      /\ UNCHANGED <<aborted, tenant, phase, awaits, due, drained, timedOut>>
      /\ \/ Answered(r)
         \/ /\ gauge' <= MaxRequests /\ UNCHANGED <<uses, sessionVars>>
            /\ \E purpose \in {"login", "call"}, step \in {"reading", "working"} :
                  Proceed(r, purpose, step)
         \/ gauge' <= MaxRequests /\ \E s \in Request : UseSession(r, s)
         \/ gauge' <= MaxRequests /\ Handshake(r)
  BY ArriveCases DEF serverVars
<1>2. PICK step \in Steps \ {"new", "opening", "gone"}, purpose \in {"nothing", "call", "login", "init", "use"} :
        /\ pc' = [pc EXCEPT ![r] = step] /\ does' = [does EXCEPT ![r] = purpose]
        /\ purpose # "nothing" => gauge' <= MaxRequests
        /\ purpose = "init" => step \in {"expiring", "reading"}
        /\ purpose = "use" => step = "working"
        /\ purpose = "use" \/ UNCHANGED uses
  <2>1. does[r] = "nothing" /\ does \in [Request -> {"nothing", "call", "login", "init", "use"}]
    BY <1>1 DEF UseOK, ServerTypeOK
  <2>2. CASE Answered(r)
    BY <2>1, <2>2 DEF Answered, Advance, Steps
  <2>3. CASE /\ gauge' <= MaxRequests /\ UNCHANGED <<uses, sessionVars>>
             /\ \E purpose \in {"login", "call"}, step \in {"reading", "working"} :
                   Proceed(r, purpose, step)
    BY <2>3 DEF Proceed, Advance, Steps
  <2>4. CASE gauge' <= MaxRequests /\ \E s \in Request : UseSession(r, s)
    BY <2>4 DEF UseSession, Proceed, Advance, Steps
  <2>5. CASE gauge' <= MaxRequests /\ Handshake(r)
    BY <2>5 DEF Handshake, Proceed, Advance, Steps
  <2> QED BY <1>1, <2>2, <2>3, <2>4, <2>5
<1>3. /\ uses[r] = NoSession /\ does[r] = "nothing" /\ pc \in [Request -> Steps]
      /\ \A s \in Request : r \notin Users(s)
  BY <1>1, SessionAssumption DEF UseOK, Users, ServerTypeOK, Steps
<1>4. /\ Pending' = Pending \cup {r} /\ r \notin Pending /\ Lost' = Lost
      /\ Admitted' = Admitted \cup (IF purpose = "nothing" THEN {} ELSE {r})
      /\ Promised' = Promised \cup (IF purpose = "init" /\ step = "reading" THEN {r} ELSE {})
  <2>1. Pending' = Pending \cup {r} /\ r \notin Pending
    BY <1>1, <1>2, <1>3 DEF Pending, Steps
  <2>2. Lost' = Lost
    BY <1>1, <1>2, <1>3 DEF Lost, ServerTypeOK, Steps
  <2>3. Admitted' = Admitted \cup (IF purpose = "nothing" THEN {} ELSE {r})
    BY <1>2, <1>3 DEF Admitted, ServerTypeOK
  <2>4. Promised' = Promised \cup (IF purpose = "init" /\ step = "reading" THEN {r} ELSE {})
    BY <1>2, <1>3 DEF Promised, ServerTypeOK
  <2> QED BY <2>1, <2>2, <2>3, <2>4
<1>5. /\ Pending \in SUBSET Request /\ Lost \in SUBSET Request
      /\ Admitted \in SUBSET Request /\ Promised \in SUBSET Admitted
      /\ Cardinality(Pending') = Cardinality(Pending) + 1
      /\ \A S \in SUBSET Request : Cardinality(S) \in Nat
  <2>1. /\ Pending \in SUBSET Request /\ Lost \in SUBSET Request
        /\ Admitted \in SUBSET Request /\ Promised \in SUBSET Admitted
    BY DEF Pending, Lost, Admitted, Promised, ServerTypeOK
  <2> QED BY <1>4, <2>1, OneMoreRequest, Finite
<1>6. ServerTypeOK'
  <2>1. /\ pc' \in [Request -> {"new", "expiring", "reading", "opening", "working", "answered", "gone"}]
        /\ does' \in [Request -> {"nothing", "call", "login", "init", "use"}] /\ gauge' \in Int
    BY <1>1, <1>2 DEF ServerTypeOK, Steps
  <2>2. /\ uses' \in [Request -> Request \cup {NoSession}] /\ inFlight' \in [Request -> Int]
        /\ sessions' \in SUBSET Request /\ idle' \in SUBSET Request
    BY <1>1 DEF ServerTypeOK, Answered, UseSession, Handshake, sessionVars
  <2> QED BY <1>1, <2>1, <2>2 DEF ServerTypeOK
<1>7. GaugeOK'
  BY <1>1, <1>4, <1>5 DEF GaugeOK, ServerTypeOK
<1>8. UseOK'
  <2>1. CASE UNCHANGED <<uses, inFlight>>
    <3>1. \A s \in Request : Users(s)' = Users(s)
      BY <1>2, <1>3, <2>1, SessionAssumption DEF Users
    <3> QED BY <1>2, <1>3, <2>1, <3>1 DEF UseOK, ServerTypeOK, Steps
  <2>2. CASE \E s \in Request : UseSession(r, s)
    <3>1. PICK s \in Request : UseSession(r, s)
      BY <2>2
    <3>2. /\ uses' = [uses EXCEPT ![r] = s] /\ inFlight' = [inFlight EXCEPT ![s] = @ + 1]
          /\ does' = [does EXCEPT ![r] = "use"] /\ pc' = [pc EXCEPT ![r] = "working"]
      BY <3>1 DEF UseSession, Proceed, Advance
    <3>3. Users(s)' = Users(s) \cup {r} /\ \A t \in Request \ {s} : Users(t)' = Users(t)
      BY <1>3, <3>2, SessionAssumption DEF Users, ServerTypeOK
    <3>4. Users(s) \in SUBSET Request
      BY DEF Users
    <3>5. Cardinality(Users(s)') = Cardinality(Users(s)) + 1
      BY <1>3, <3>3, <3>4, OneMoreRequest
    <3>6. \A t \in Request : inFlight'[t] = Cardinality(Users(t)')
      <4>1. inFlight \in [Request -> Int] /\ \A t \in Request : inFlight[t] = Cardinality(Users(t))
        BY DEF UseOK, ServerTypeOK
      <4> QED BY <3>2, <3>3, <3>5, <4>1
    <3>7. /\ \A q \in Request : pc'[q] \in {"new", "gone"} => does'[q] = "nothing"
          /\ \A q \in Request : uses'[q] # NoSession =>
                does'[q] = "use" /\ pc'[q] \in {"working", "answered"}
          /\ \A q \in Request : pc'[q] = "opening" => does'[q] = "init"
      BY <3>2 DEF UseOK, ServerTypeOK
    <3>8. \A t \in Request : Users(t)' = {q \in Request : pc'[q] = "working" /\ uses'[q] = t}
      BY DEF Users
    <3> QED BY <3>6, <3>7, <3>8 DEF UseOK, Users
  <2> QED BY <1>1, <2>1, <2>2 DEF Answered, Handshake, sessionVars
<1>9. RoomOK'
  <2>1. Cardinality(Admitted') <= MaxRequests
    <3>1. CASE purpose = "nothing"
      BY <1>4, <3>1 DEF RoomOK
    <3>2. CASE purpose # "nothing"
      <4>1. Admitted' \in SUBSET Pending' /\ Pending' \in SUBSET Request
        BY <1>2, <1>3, <1>4, <1>5 DEF Admitted, Pending, UseOK, ServerTypeOK, Steps
      <4>2. Cardinality(Admitted') <= Cardinality(Pending') /\ Cardinality(Admitted') \in Nat
        BY <4>1, Fewer, Finite
      <4> QED BY <1>2, <1>5, <1>7, <3>2, <4>2, LimitAssumption, <1>6 DEF GaugeOK, ServerTypeOK
    <3> QED BY <3>1, <3>2
  <2>2. CASE purpose = "init" /\ step = "reading"
    <3>1. Cardinality(sessions) < MaxSessions /\ sessions' = sessions
      <4>1. does'[r] = "init" /\ pc'[r] = "reading"
        BY <1>2, <2>2 DEF ServerTypeOK
      <4>2. Handshake(r)
        <5>1. \A p \in {"login", "call", "use"}, to \in Steps : Proceed(r, p, to) => does'[r] = p
          BY DEF Proceed, ServerTypeOK
        <5> QED BY <1>1, <1>3, <4>1, <5>1 DEF Answered, UseSession, Steps
      <4>3. Proceed(r, "init", "expiring") => pc'[r] = "expiring"
        BY DEF Proceed, Advance, ServerTypeOK
      <4> QED BY <4>1, <4>2, <4>3 DEF Handshake
    <3>2. Promised' \in SUBSET Admitted' /\ Admitted' \in SUBSET Request /\ sessions \in SUBSET Request
      BY <1>4, <1>5 DEF ServerTypeOK
    <3>3. /\ Cardinality(Promised') <= Cardinality(Admitted')
          /\ Cardinality(Promised') \in Nat /\ Cardinality(Admitted') \in Nat
          /\ Cardinality(sessions) \in Nat
      BY <3>2, Fewer, Finite
    <3> QED BY <2>1, <3>1, <3>3, LimitAssumption DEF RoomOK
  <2>3. CASE ~(purpose = "init" /\ step = "reading")
    <3>1. Promised' = Promised /\ sessions' \in SUBSET sessions /\ sessions \in SUBSET Request
      BY <1>1, <1>4, <2>3 DEF Handshake, Answered, UseSession, sessionVars, ServerTypeOK
    <3>2. /\ Cardinality(sessions') <= Cardinality(sessions) /\ Cardinality(sessions) \in Nat
          /\ Cardinality(sessions') \in Nat /\ Cardinality(Promised) \in Nat
      BY <1>5, <3>1, Fewer, Finite
    <3> QED BY <2>1, <3>1, <3>2, LimitAssumption DEF RoomOK
  <2> QED BY <2>2, <2>3
<1> QED BY <1>1, <1>6, <1>7, <1>8, <1>9 DEF QuietOK
\* Room for a session stays if there is less of both, if a handshake is promised
\* what is free, or if it takes up what it was promised.
LEMMA RoomStep ==
  ASSUME HInv, NEW r \in Request,
         Admitted' \in SUBSET Admitted, Promised' \in SUBSET Admitted', sessions' \in SUBSET Request,
         \/ sessions' \subseteq sessions /\ Promised' \subseteq Promised
         \/ Room /\ sessions' = sessions
         \/ r \in Promised /\ sessions' = sessions \cup {r} /\ Promised' = Promised \ {r}
  PROVE  RoomOK'
<1>1. Admitted \in SUBSET Request /\ sessions \in SUBSET Request /\ Promised \in SUBSET Request
  BY DEF Admitted, Promised, HInv, ServerTypeOK
<1>2. /\ Cardinality(sessions) \in Nat /\ Cardinality(sessions') \in Nat
      /\ Cardinality(Promised) \in Nat /\ Cardinality(Promised') \in Nat
      /\ Cardinality(Admitted) \in Nat /\ Cardinality(Admitted') \in Nat
  BY <1>1, Finite
<1>3. /\ Cardinality(Admitted') <= Cardinality(Admitted)
      /\ Cardinality(Promised') <= Cardinality(Admitted')
  BY <1>1, Fewer
<1>4. CASE sessions' \subseteq sessions /\ Promised' \subseteq Promised
  <2>1. Cardinality(sessions') <= Cardinality(sessions) /\ Cardinality(Promised') <= Cardinality(Promised)
    BY <1>1, <1>4, Fewer
  <2> QED BY <1>2, <1>3, <2>1, LimitAssumption DEF HInv, RoomOK
<1>5. CASE Room /\ sessions' = sessions
  BY <1>2, <1>3, <1>5, LimitAssumption DEF HInv, RoomOK, Room
<1>6. CASE r \in Promised /\ sessions' = sessions \cup {r} /\ Promised' = Promised \ {r}
  <2>1. /\ Cardinality(sessions') <= Cardinality(sessions) + 1
        /\ Cardinality(Promised') = Cardinality(Promised) - 1
    BY <1>1, <1>6, OneMoreRequest
  <2> QED BY <1>2, <1>3, <2>1, LimitAssumption DEF HInv, RoomOK
<1> QED BY <1>4, <1>5, <1>6

\* A request that uses no session takes its next step, other than to be gone.
LEMMA HandleStep ==
  ASSUME HInv, NEW r \in Request,
         Recheck(r) \/ ReadBody(r) \/ OpenSession(r) \/ EndCall(r) \/ EndLogin(r)
  PROVE  HInv'
<1> USE DEF HInv
<1>1. PICK step \in {"reading", "opening", "working", "answered"} :
        /\ pc' = [pc EXCEPT ![r] = step]
        /\ step = "opening" => pc[r] = "reading" /\ does[r] = "init"
        /\ step = "reading" => pc[r] = "expiring" /\ Room /\ sessions' = sessions
        /\ \/ sessions' = sessions /\ (pc[r] \in {"reading", "opening"} \/ step # "opening")
           \/ pc[r] = "opening" /\ step = "working" /\ sessions' = sessions \cup {r}
  BY DEF Recheck, ReadBody, BodyRefused, OpenSession, EndCall, EndLogin, Ends, Advance, sessionVars
<1>2. /\ pc[r] \in {"expiring", "reading", "opening", "working"}
      /\ pc[r] = "working" => does[r] # "use"
      /\ UNCHANGED <<does, uses, aborted, gauge, inFlight, phase, awaits, due, drained, timedOut>>
      /\ idle' \in SUBSET idle
  BY DEF Recheck, ReadBody, OpenSession, EndCall, EndLogin, Ends, sessionVars, serverVars
<1>3. uses[r] = NoSession /\ pc \in [Request -> Steps]
  BY <1>2 DEF UseOK, ServerTypeOK, Steps
<1>4. /\ Pending' = Pending /\ Lost' = Lost /\ Admitted' = Admitted
      /\ \A s \in Request : Users(s)' = Users(s)
  <2>1. Pending' = Pending /\ Admitted' = Admitted
    BY <1>1, <1>2, <1>3 DEF Pending, Admitted
  <2>2. Lost' = Lost
    BY <1>1, <1>2, <1>3 DEF Lost, ServerTypeOK
  <2>3. \A s \in Request : Users(s)' = Users(s)
    BY <1>1, <1>2, <1>3, SessionAssumption DEF Users
  <2> QED BY <2>1, <2>2, <2>3
<1>5. ServerTypeOK'
  <2>1. pc' \in [Request -> {"new", "expiring", "reading", "opening", "working", "answered", "gone"}]
    BY <1>1, <1>3 DEF Steps
  <2>2. sessions' \in SUBSET Request /\ tenant' \in BOOLEAN
    BY <1>1 DEF ServerTypeOK, Recheck, ReadBody, BodyRefused, OpenSession, EndCall, EndLogin, Ends, serverVars
  <2> QED BY <1>2, <2>1, <2>2 DEF ServerTypeOK
<1>6. GaugeOK'
  BY <1>2, <1>4 DEF GaugeOK
<1>7. UseOK'
  <2>1. \A s \in Request : inFlight'[s] = Cardinality(Users(s)')
    BY <1>2, <1>4 DEF UseOK
  <2>2. /\ \A q \in Request : pc'[q] \in {"new", "gone"} => does'[q] = "nothing"
        /\ \A q \in Request : uses'[q] # NoSession =>
              does'[q] = "use" /\ pc'[q] \in {"working", "answered"}
        /\ \A q \in Request : pc'[q] = "opening" => does'[q] = "init"
    BY <1>1, <1>2, <1>3 DEF UseOK
  <2> QED BY <2>1, <2>2 DEF UseOK, Users
<1>8. RoomOK'
  <2>1. Promised' \in SUBSET Admitted' /\ sessions' \in SUBSET Request
    BY <1>5 DEF Promised, Admitted, ServerTypeOK
  <2>2. CASE pc[r] = "opening"
    <3>1. r \in Promised /\ Promised' = Promised \ {r}
      <4>1. pc'[r] \in {"working", "answered"} /\ does[r] = "init"
        BY <1>1, <1>3, <2>2 DEF UseOK
      <4> QED BY <1>1, <1>2, <1>3, <2>2, <4>1 DEF Promised
    <3> QED BY <1>1, <1>4, <2>1, <3>1, RoomStep
  <2>3. CASE pc[r] # "opening" /\ step # "reading"
    <3>1. sessions' = sessions /\ Promised' \subseteq Promised
      BY <1>1, <1>2, <1>3, <2>3 DEF Promised
    <3> QED BY <1>4, <2>1, <3>1, RoomStep
  <2>4. CASE step = "reading"
    BY <1>1, <1>4, <2>1, <2>4, RoomStep
  <2> QED BY <2>2, <2>3, <2>4
<1>9. QuietOK'
  <2>1. tenant' = tenant \/ r \notin aborted
    BY DEF Recheck, ReadBody, BodyRefused, OpenSession, EndCall, EndLogin, Ends, serverVars
  <2>2. r \in Pending
    BY <1>2 DEF Pending
  <2> QED BY <1>2, <1>4, <2>1, <2>2 DEF QuietOK
<1> QED BY <1>5, <1>6, <1>7, <1>8, <1>9

\* A request that used a session gives it back.
LEMMA EndUseStep ==
  ASSUME HInv, NEW r \in Request, EndUse(r)
  PROVE  HInv'
<1> USE DEF HInv
<1> DEFINE s == uses[r]
<1>1. /\ pc[r] = "working" /\ does[r] = "use" /\ pc' = [pc EXCEPT ![r] = "answered"]
      /\ UNCHANGED <<does, uses, aborted, gauge, tenant, phase, awaits, due, drained, timedOut>>
      /\ inFlight' = [inFlight EXCEPT ![s] = @ - 1]
      /\ idle' \subseteq idle /\ sessions' \subseteq sessions
  BY DEF EndUse, Ends, Advance, serverVars
<1>2. pc \in [Request -> Steps]
  BY DEF ServerTypeOK, Steps
<1>3. Pending' = Pending /\ Admitted' = Admitted /\ Promised' = Promised
  BY <1>1, <1>2 DEF Pending, Admitted, Promised
<1>4. Lost' = Lost
  BY <1>1, <1>2 DEF Lost, ServerTypeOK
<1>5. /\ \A t \in Request : Users(t) \in SUBSET Request
      /\ s \in Request => Users(s)' = Users(s) \ {r} /\ r \in Users(s)
      /\ \A t \in Request \ {s} : Users(t)' = Users(t)
  BY <1>1, <1>2 DEF Users
<1>6. \A t \in Request : inFlight'[t] = Cardinality(Users(t)')
  <2>1. inFlight \in [Request -> Int] /\ \A t \in Request : inFlight[t] = Cardinality(Users(t))
    BY DEF UseOK, ServerTypeOK
  <2>2. s \in Request => Cardinality(Users(s)') = Cardinality(Users(s)) - 1
    BY <1>5, OneMoreRequest
  <2> QED BY <1>1, <1>5, <2>1, <2>2
<1>7. ServerTypeOK'
  <2>1. pc' \in [Request -> {"new", "expiring", "reading", "opening", "working", "answered", "gone"}]
    BY <1>1, <1>2 DEF Steps
  <2>2. inFlight' \in [Request -> Int]
    <3>1. inFlight \in [Request -> Int]
      BY DEF ServerTypeOK
    <3>2. CASE s \in Request
      <4>1. inFlight[s] - 1 \in Int
        BY <3>1, <3>2
      <4> HIDE DEF s
      <4> QED BY <1>1, <3>1, <3>2, <4>1
    <3>3. CASE s \notin Request
      <4> HIDE DEF s
      <4>1. inFlight' = inFlight
        BY <1>1, <3>1, <3>3
      <4> QED BY <3>1, <4>1
    <3> QED BY <3>2, <3>3
  <2> QED BY <1>1, <2>1, <2>2 DEF ServerTypeOK
<1>8. UseOK'
  <2>1. /\ \A q \in Request : pc'[q] \in {"new", "gone"} => does'[q] = "nothing"
        /\ \A q \in Request : uses'[q] # NoSession =>
              does'[q] = "use" /\ pc'[q] \in {"working", "answered"}
        /\ \A q \in Request : pc'[q] = "opening" => does'[q] = "init"
    BY <1>1, <1>2 DEF UseOK
  <2> QED BY <1>6, <2>1 DEF UseOK, Users
<1>9. RoomOK'
  <2>1. Promised' \in SUBSET Admitted' /\ sessions' \in SUBSET Request
    BY <1>7 DEF Promised, Admitted, ServerTypeOK
  <2> QED BY <1>1, <1>3, <2>1, RoomStep
<1> QED BY <1>1, <1>3, <1>4, <1>7, <1>8, <1>9 DEF GaugeOK, QuietOK
\* A request is gone: the gauge goes down with it, unless its client was gone first.
LEMMA FinishStep ==
  ASSUME HInv, NEW r \in Request, Finish(r)
  PROVE  HInv'
<1> USE DEF HInv
<1>1. /\ pc[r] = "answered" /\ pc' = [pc EXCEPT ![r] = "gone"]
      /\ does' = [does EXCEPT ![r] = "nothing"] /\ uses' = [uses EXCEPT ![r] = NoSession]
      /\ UNCHANGED <<aborted, sessions, inFlight, idle, tenant, phase, awaits, due, drained, timedOut>>
      /\ gauge' = gauge - 1 \/ (r \in aborted /\ gauge' = gauge)
  BY DEF Finish, Finished, Advance, sessionVars, serverVars
<1>2. /\ pc \in [Request -> Steps] /\ gauge \in Int
      /\ does \in [Request -> {"nothing", "call", "login", "init", "use"}]
      /\ uses \in [Request -> Request \cup {NoSession}]
  BY DEF ServerTypeOK, Steps
<1>3. /\ Pending' = Pending \ {r} /\ r \in Pending
      /\ Admitted' \subseteq Admitted /\ Promised' = Promised
  BY <1>1, <1>2 DEF Pending, Admitted, Promised
<1>4. r \notin Lost /\ Lost' = IF r \in aborted THEN Lost \cup {r} ELSE Lost
  BY <1>1, <1>2 DEF Lost, ServerTypeOK
<1>5. \A s \in Request : Users(s)' = Users(s)
  BY <1>1, <1>2, SessionAssumption DEF Users
<1>6. ServerTypeOK'
  <2>1. pc' \in [Request -> {"new", "expiring", "reading", "opening", "working", "answered", "gone"}]
    BY <1>1, <1>2 DEF Steps
  <2> QED BY <1>1, <1>2, <2>1 DEF ServerTypeOK
<1>7. GaugeOK'
  <2>1. Pending \in SUBSET Request /\ Lost \in SUBSET Request
    BY DEF Pending, Lost, ServerTypeOK
  <2>2. /\ Cardinality(Pending') = Cardinality(Pending) - 1
        /\ r \in aborted => Cardinality(Lost') = Cardinality(Lost) + 1
        /\ r \notin aborted => Lost' = Lost
        /\ Cardinality(Pending) \in Nat /\ Cardinality(Lost) \in Nat
    BY <1>3, <1>4, <2>1, OneMoreRequest, Finite
  <2> QED BY <1>1, <1>2, <2>2 DEF GaugeOK
<1>8. UseOK'
  <2>1. \A s \in Request : inFlight'[s] = Cardinality(Users(s)')
    BY <1>1, <1>5 DEF UseOK
  <2>2. /\ \A q \in Request : pc'[q] \in {"new", "gone"} => does'[q] = "nothing"
        /\ \A q \in Request : uses'[q] # NoSession =>
              does'[q] = "use" /\ pc'[q] \in {"working", "answered"}
        /\ \A q \in Request : pc'[q] = "opening" => does'[q] = "init"
    BY <1>1, <1>2 DEF UseOK
  <2> QED BY <2>1, <2>2 DEF UseOK, Users
<1>9. RoomOK'
  <2>1. Promised' \in SUBSET Admitted' /\ sessions' \in SUBSET Request
    BY <1>6 DEF Promised, Admitted, ServerTypeOK
  <2> QED BY <1>1, <1>3, <2>1, RoomStep
<1> QED BY <1>1, <1>3, <1>6, <1>7, <1>8, <1>9 DEF QuietOK

\* Clients that go, time, and the shutdown move no request.
LEMMA ServerStep ==
  ASSUME HInv,
         \/ \E r \in Request : Abort(r) \/ GrowIdle(r)
         \/ ExpireIdleSessions \/ ShutdownNext
  PROVE  HInv'
<1> USE DEF HInv
<1> USE DEF Abort, GrowIdle, ExpireIdleSessions, ShutdownNext, ShutdownStep, BeginShutdown,
            LoginsClosed, Drained, CloseSessions, CloseServer, ForgetTenants, Settle, Tick,
            Await, Idle, MayBeBusy, requestVars, sessionVars, serverVars
<1>1. /\ UNCHANGED <<pc, does, uses, gauge, inFlight>> /\ sessions' \subseteq sessions
      /\ idle' \subseteq Request
  BY DEF ServerTypeOK
<1>2. aborted \subseteq aborted' /\ aborted' \subseteq aborted \cup {r \in Request : pc[r] \notin {"new", "gone"}}
  BY DEF Connected
<1>3. /\ phase' \in {"serving", "logins", "writes", "transports", "connections", "clients", "closed"}
      /\ awaits' \in {"nothing", "answer", "hangs"} /\ due' \in BOOLEAN /\ drained' \in BOOLEAN
      /\ timedOut' \in BOOLEAN /\ tenant' \in BOOLEAN
  BY DEF MayClose, ServerTypeOK
<1>4. ServerTypeOK'
  BY <1>1, <1>2, <1>3 DEF ServerTypeOK
<1>5. /\ Pending' = Pending /\ Lost' = Lost /\ Admitted' = Admitted /\ Promised' = Promised
      /\ \A s \in Request : Users(s)' = Users(s)
  BY <1>1, <1>2 DEF Pending, Lost, Admitted, Promised, Users
<1>6. GaugeOK' /\ UseOK'
  BY <1>1, <1>5 DEF GaugeOK, UseOK
<1>7. RoomOK'
  <2>1. /\ Admitted \in SUBSET Request /\ Promised \in SUBSET Admitted
        /\ sessions \in SUBSET Request /\ sessions' \in SUBSET sessions
    BY <1>1 DEF Promised, Admitted, ServerTypeOK
  <2>2. /\ Cardinality(sessions') <= Cardinality(sessions) /\ Cardinality(sessions) \in Nat
        /\ Cardinality(sessions') \in Nat /\ Cardinality(Promised) \in Nat
    BY <2>1, Fewer, Finite
  <2> QED BY <1>5, <2>2, LimitAssumption DEF RoomOK
<1>8. QuietOK'
  <2>1. CASE CloseServer
    <3>1. timedOut' = (Connected # {}) /\ aborted' = aborted /\ phase' = "clients"
      BY <2>1 DEF MayClose
    <3> QED BY <1>5, <3>1 DEF Connected, Pending, QuietOK
  <2>2. CASE ForgetTenants
    BY <1>2, <1>5, <2>2 DEF QuietOK
  <2>3. CASE ~CloseServer /\ ~ForgetTenants
    <3>1. phase' \in {"clients", "closed"} => UNCHANGED <<tenant, phase, timedOut>>
      BY <2>3
    <3> QED BY <1>2, <1>5, <3>1 DEF QuietOK
  <2> QED BY <2>1, <2>2, <2>3
<1> QED BY <1>4, <1>6, <1>7, <1>8

\* Every step keeps the invariant.
THEOREM ServerNextOK == HInv /\ [ServerNext]_httpVars => HInv'
<1> SUFFICES ASSUME HInv, [ServerNext]_httpVars PROVE HInv'
  OBVIOUS
<1>1. CASE UNCHANGED httpVars
  BY <1>1 DEF httpVars, HInv, ServerTypeOK, GaugeOK, UseOK, RoomOK, QuietOK, Pending, Lost, Admitted,
              Promised, Users
<1> QED BY <1>1, ArriveStep, HandleStep, EndUseStep, FinishStep, ServerStep DEF ServerNext, Handler

\* The invariant is inductive, hence holds of every reachable state.
THEOREM ServerInvariance == ServerSpec => []HInv
  BY ServerInitOK, ServerNextOK, PTL DEF ServerSpec

\* Type correctness of the server: of its counters, sessions and requests, for any
\* number of requests.
THEOREM ServerTypeCorrect == ServerSpec => []ServerTypeOK
  BY ServerInvariance, PTL DEF HInv

(* activeRequests counts the requests under way, and sessions stay below   *)
(* both limits together, whatever handshakes race.                         *)
THEOREM LimitsHoldHolds == ServerSpec => []LimitsHold
<1>1. HInv => LimitsHold
  <2> SUFFICES ASSUME HInv PROVE LimitsHold
    OBVIOUS
  <2>1. Lost \in SUBSET aborted /\ aborted \in SUBSET Request /\ Promised \in SUBSET Request
        /\ sessions \in SUBSET Request /\ Pending \in SUBSET Request
    BY DEF HInv, ServerTypeOK, Lost, Promised, Pending
  <2>2. /\ Cardinality(Lost) <= Cardinality(aborted) /\ Cardinality(Lost) \in Nat
        /\ Cardinality(aborted) \in Nat /\ Cardinality(Promised) \in Nat
        /\ Cardinality(sessions) \in Nat /\ Cardinality(Pending) \in Nat
    BY <2>1, Fewer, Finite
  <2>3. GaugeSound
    BY <2>2 DEF HInv, ServerTypeOK, GaugeOK, GaugeSound
  <2>4. SessionBound
    BY <2>2, LimitAssumption DEF HInv, RoomOK, SessionBound
  <2> QED BY <2>3, <2>4 DEF HInv, LimitsHold
<1> QED BY <1>1, ServerInvariance, PTL

(* A shutdown that did not time out leaves nothing open and nobody waiting.*)
THEOREM ClosedIsQuietHolds == ServerSpec => []ClosedIsQuiet
<1>1. HInv => ClosedIsQuiet
  BY DEF HInv, QuietOK, ClosedIsQuiet
<1> QED BY <1>1, ServerInvariance, PTL

(* No timer and no handshake takes a session from under a request.         *)
THEOREM InUseKeptHolds == ServerSpec => InUseKept
<1> DEFINE InUse == \A s \in sessions \ sessions' :
                       phase' = "serving" => Users(s) = {} \/ Users(s)' # Users(s)
<1>1. ASSUME HInv, [ServerNext]_httpVars PROVE [InUse]_httpVars
  <2> SUFFICES ASSUME ServerNext, NEW s \in sessions, s \notin sessions', phase' = "serving",
                      Users(s)' = Users(s)
               PROVE  Users(s) = {}
    BY <1>1
  <2>1. s \in Request /\ IsFiniteSet(Users(s)) /\ inFlight[s] = Cardinality(Users(s))
    BY <1>1, Finite DEF HInv, ServerTypeOK, UseOK, Users
  <2>2. s \in Expirable => Users(s) = {}
    BY <2>1, FS_EmptySet DEF Expirable
  <2>3. ASSUME NEW r \in Request, Arrive(r) PROVE s \in Expirable
    <3>1. UNCHANGED sessions \/ sessions' = sessions \ Expirable
      BY <1>1, <2>3, ArriveCases DEF HInv, Answered, UseSession, Handshake, sessionVars
    <3> QED BY <3>1
  <2>4. ASSUME NEW r \in Request, Handler(r) PROVE FALSE
    <3>1. CASE EndUse(r)
      <4>1. pc[r] = "working" /\ pc' = [pc EXCEPT ![r] = "answered"] /\ uses' = uses /\ s = uses[r]
        BY <3>1 DEF EndUse, Ends, Advance
      <4>2. r \in Users(s) /\ r \notin Users(s)'
        BY <1>1, <4>1 DEF Users, HInv, ServerTypeOK
      <4> QED BY <4>2
    <3>2. CASE ~EndUse(r)
      BY <2>4, <3>2 DEF Handler, Recheck, ReadBody, OpenSession, EndCall, EndLogin, Finish, sessionVars
    <3> QED BY <3>1, <3>2
  <2>5. ASSUME NEW r \in Request, Abort(r) \/ GrowIdle(r) PROVE FALSE
    BY <2>5 DEF Abort, GrowIdle, sessionVars
  <2>6. CASE ExpireIdleSessions
    BY <2>2, <2>6 DEF ExpireIdleSessions
  <2>7. CASE ShutdownNext
    BY <2>7 DEF ShutdownNext, ShutdownStep, BeginShutdown, LoginsClosed, Drained, CloseSessions,
                CloseServer, ForgetTenants, Await, Settle, Tick, sessionVars
  <2> QED BY <2>2, <2>3, <2>4, <2>5, <2>6, <2>7 DEF ServerNext
<1> QED BY <1>1, ServerInvariance, PTL DEF ServerSpec, InUseKept
=============================================================================
