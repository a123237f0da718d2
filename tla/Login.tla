------------------------------- MODULE Login -------------------------------
(***************************************************************************)
(* LoginManager: QR logins in a temporary Chromium and SMS logins through  *)
(* the captcha sidecar.  begin() starts run() without waiting for it, so   *)
(* one attempt object is written by its run, by the status polls of the    *)
(* login page, by a later begin(), by logout, by the sweep timer and, when *)
(* the page's refresh button restarts a failed attempt, by two runs.       *)
(*                                                                         *)
(* A step is the code between two awaits.  closeBrowser is one step: with  *)
(* a handle it takes time, and the callers that go on after it have a step *)
(* of their own for that.  A poll that is under way when it is called is   *)
(* waited for (interactionQueue), so its result is still used.  Chromium,  *)
(* the login page in it and the sidecar are external.                      *)
(***************************************************************************)
EXTENDS Naturals, FiniteSets

CONSTANTS
    Employee,
    Provider,     \* ways to scan: dingtalk, wechat, alipay
    Phone,        \* phone numbers for SMS logins
    Maximum,      \* maxConcurrentLogins
    MaxRuns,      \* bound: runs, and so attempts, which are numbered as created
    Submits       \* callers of submitSms

ASSUME BoundAssumption == {Maximum, MaxRuns} \subseteq Nat \ {0}
ASSUME ViaAssumption == Provider \cap Phone = {}

VARIABLES
    att,         \* the LoginAttempt objects
    run,         \* where each run of an attempt is
    open,        \* the Chromium processes that live
    switching,   \* begins that wait for the attempt they replace to close
    refreshing,  \* refreshes that wait for the old browser to close
    submit,      \* where each submitSms of an attempt is
    stopped,     \* shutdown was called
    saved,       \* history: attempts that stored a session
    closed       \* history: attempts closed by a begin, a logout or shutdown

vars == <<att, run, open, switching, refreshing, submit, stopped, saved, closed>>

Attempt == 1 .. MaxRuns
Run     == 1 .. MaxRuns
Via     == Provider \cup Phone

ASSUME UserAssumption == Employee # {} /\ Via # {}

ACTIVE_LOGIN_STATES == {"starting", "waiting_scan", "waiting_sms"}
State == ACTIVE_LOGIN_STATES \cup {"none", "success", "expired", "failed"}
RunStep == {"none", "sending", "launching", "opening", "idle", "polling", "saving",
            "failing", "closing", "over"}

TypeOK ==
    /\ att \in [Attempt -> [by: Employee, via: Via, state: State, old: BOOLEAN,
                            known: BOOLEAN, handle: 0 .. MaxRuns]]
    /\ run \in [Attempt -> [Run -> RunStep]]
    /\ open \subseteq Attempt \X Run
    /\ switching \subseteq Employee \X Via
    /\ refreshing \in [Attempt -> 0 .. MaxRuns]
    /\ submit \in [Attempt -> [Submits -> {"no", "checking", "saving"}]]
    /\ stopped \in BOOLEAN
    /\ saved \subseteq Attempt /\ closed \subseteq Attempt

Init ==
    /\ att \in [Attempt -> [by: {CHOOSE e \in Employee : TRUE}, via: {CHOOSE v \in Via : TRUE},
                            state: {"none"}, old: {FALSE}, known: {FALSE}, handle: {0}]]
    /\ run = [a \in Attempt |-> [k \in Run |-> "none"]]
    /\ open = {}
    /\ switching = {}
    /\ refreshing = [a \in Attempt |-> 0]
    /\ submit = [a \in Attempt |-> [s \in Submits |-> "no"]]
    /\ stopped = FALSE
    /\ saved = {} /\ closed = {}

-----------------------------------------------------------------------------
Least(S) == CHOOSE x \in S : \A y \in S : x <= y

IsActive(t) == t.state \in ACTIVE_LOGIN_STATES

Active(as) == {a \in Attempt : as[a].known /\ IsActive(as[a])}

\* The attempt that begin() finds: the oldest one of the employee that goes on.
Existing(as, e) == {a \in Active(as) : as[a].by = e /\ ~as[a].old}

\* sweepTerminal
Swept(as) == [a \in Attempt |-> [as[a] EXCEPT !.known = @ /\ ~as[a].old]]

\* What closeAttempt does to the state before it waits.
Failed(t) == IF IsActive(t) THEN [t EXCEPT !.state = "failed"] ELSE t

\* The browsers that attempt.browser of S refers to.
Handles(S) == {<<a, att[a].handle>> : a \in S}

\* closeAttempt on the attempts of S, but for what its caller does afterwards.
ClosedAll(as, S) ==
    [a \in Attempt |-> IF a \in S THEN [Failed(as[a]) EXCEPT !.handle = 0] ELSE as[a]]

MutantMayStart(as) == TRUE                                 \* mutant: no limit
MayStart(as) == Cardinality(Active(as)) < Maximum

\* The bound is not reached.
Begun == {p \in Attempt \X Run : run[p[1]][p[2]] # "none"}

MoreRuns == Cardinality(Begun) < MaxRuns

\* A new attempt is registered and its run started, or the limit refuses it.
Start(as, e, via) ==
    LET unused == {a \in Attempt : as[a].state = "none"} IN
    IF ~MayStart(as)
    THEN att' = as /\ run' = run
    ELSE /\ MoreRuns
         /\ LET a == Least(unused) IN
            /\ att' = [as EXCEPT ![a] = [by |-> e, via |-> via, state |-> "starting",
                                         old |-> FALSE, known |-> TRUE, handle |-> 0]]
            /\ run' = [run EXCEPT ![a][1] = IF via \in Phone THEN "sending" ELSE "launching"]

\* begin, beginSms
Begin(e, via) ==
    LET swept == Swept(att)
        found == Existing(swept, e)
        first == Least(found) IN
    /\ ~stopped
    /\ IF found = {}
       THEN Start(swept, e, via) /\ UNCHANGED <<open, switching, closed>>
       ELSE IF swept[first].via = via
       THEN att' = swept /\ UNCHANGED <<run, open, switching, closed>>
       ELSE /\ closed' = closed \cup {first}
            /\ IF att[first].handle = 0
               THEN Start(ClosedAll(swept, {first}), e, via) /\ UNCHANGED <<open, switching>>
               ELSE /\ att' = ClosedAll(swept, {first})
                    /\ open' = open \ Handles({first})
                    /\ switching' = switching \cup {<<e, via>>}
                    /\ UNCHANGED run
    /\ UNCHANGED <<refreshing, submit, stopped, saved>>

\* begin goes on once the attempt it replaces is closed.
Switched(e, via) ==
    /\ <<e, via>> \in switching
    /\ switching' = switching \ {<<e, via>>}
    /\ Start(att, e, via)
    /\ UNCHANGED <<open, refreshing, submit, stopped, saved, closed>>

\* cancelEmployee of a logout
Logout(e) ==
    LET mine == {a \in Attempt : att[a].known /\ att[a].by = e} IN
    /\ ~stopped /\ mine # {}
    /\ att' = ClosedAll(att, mine)
    /\ open' = open \ Handles(mine)
    /\ closed' = closed \cup mine
    /\ UNCHANGED <<run, switching, refreshing, submit, stopped, saved>>

\* shutdown: the sweep timer is cleared.  The HTTP server is closed before it
\* is called, so no request arrives any more.
Shutdown ==
    LET all == {a \in Attempt : att[a].known} IN
    /\ ~stopped /\ stopped' = TRUE
    /\ att' = ClosedAll(att, all)
    /\ open' = open \ Handles(all)
    /\ closed' = closed \cup all
    /\ UNCHANGED <<run, switching, refreshing, submit, saved>>

-----------------------------------------------------------------------------
\* expiresAt passes.
GrowOld(a) ==
    /\ att[a].state # "none" /\ ~att[a].old
    /\ att' = [att EXCEPT ![a].old = TRUE]
    /\ UNCHANGED <<run, open, switching, refreshing, submit, stopped, saved, closed>>

\* expireIfNeeded, on any read of the status
Expire(a) ==
    /\ ~stopped /\ att[a].known /\ att[a].old /\ IsActive(att[a])
    /\ att' = [att EXCEPT ![a].state = "expired", ![a].handle = 0]
    /\ open' = open \ Handles({a})
    /\ UNCHANGED <<run, switching, refreshing, submit, stopped, saved, closed>>

\* sweepExpiredAttempts, every minute
Sweep ==
    LET gone == {a \in Attempt : att[a].known /\ att[a].old} IN
    /\ ~stopped /\ gone # {}
    /\ att' = [a \in Attempt |-> IF a \in gone
                                 THEN [att[a] EXCEPT !.known = FALSE, !.handle = 0] ELSE att[a]]
    /\ open' = open \ Handles(gone)
    /\ UNCHANGED <<run, switching, refreshing, submit, stopped, saved, closed>>

\* The provider buttons of the login page.
SelectProvider(a, via) ==
    /\ ~stopped /\ att[a].known /\ ~att[a].old /\ att[a].state = "waiting_scan"
    /\ att[a].via \in Provider /\ <<a, att[a].handle>> \in open
    /\ att' = [att EXCEPT ![a].via = via]
    /\ UNCHANGED <<run, open, switching, refreshing, submit, stopped, saved, closed>>

\* run() is called again on the attempt.
Again(a) ==
    LET unused == {k \in Run : run[a][k] = "none"} IN
    /\ MoreRuns
    /\ att' = [att EXCEPT ![a].old = FALSE, ![a].state = "starting", ![a].handle = 0]
    /\ run' = [run EXCEPT ![a][Least(unused)] = "launching"]
    /\ open' = open \ Handles({a})

\* refreshByPublicCode on a failed attempt
Refresh(a) ==
    /\ ~stopped /\ att[a].state = "failed" /\ att[a].known /\ ~att[a].old
    /\ att[a].via \in Provider
    /\ IF att[a].handle = 0
       THEN Again(a) /\ UNCHANGED refreshing
       ELSE /\ refreshing[a] < MaxRuns - 1
            /\ refreshing' = [refreshing EXCEPT ![a] = @ + 1]
            /\ UNCHANGED <<att, run, open>>
    /\ UNCHANGED <<switching, submit, stopped, saved, closed>>

\* ... goes on once the old browser is closed.
Refreshed(a) ==
    /\ refreshing[a] > 0
    /\ refreshing' = [refreshing EXCEPT ![a] = @ - 1]
    /\ Again(a)
    /\ UNCHANGED <<switching, submit, stopped, saved, closed>>

-----------------------------------------------------------------------------
\* The steps of run() and runSmsSend().
Goto(a, k, step) == run' = [run EXCEPT ![a][k] = step]
SetState(a, s)   == att' = [att EXCEPT ![a].state = s]
Untouched == UNCHANGED <<switching, refreshing, submit, stopped, closed>>

\* runSmsSend: the sidecar answers; the state is not looked at.
SmsSent(a, k) ==
    /\ run[a][k] = "sending"
    /\ \E s \in {"waiting_sms", "failed"} : SetState(a, s)
    /\ Goto(a, k, "over")
    /\ UNCHANGED <<open, saved>> /\ Untouched

\* chromium.launch
Launch(a, k) ==
    /\ run[a][k] = "launching"
    /\ att' = [att EXCEPT ![a].handle = k]
    /\ open' = open \cup {<<a, k>>}
    /\ Goto(a, k, "opening")
    /\ UNCHANGED saved /\ Untouched

\* The login page is shown; the state is not looked at.
Open(a, k) ==
    /\ run[a][k] = "opening" /\ <<a, k>> \in open
    /\ SetState(a, "waiting_scan")
    /\ Goto(a, k, "idle")
    /\ UNCHANGED <<open, saved>> /\ Untouched

\* The condition of the polling loop.
MutantGoesOn(a) == att[a].state = "waiting_scan"           \* mutant: time is not looked at
GoesOn(a) == ~att[a].old /\ att[a].state = "waiting_scan"

PollStarts(a, k) ==
    /\ run[a][k] = "idle" /\ GoesOn(a) /\ <<a, k>> \in open
    /\ Goto(a, k, "polling")
    /\ UNCHANGED <<att, open, saved>> /\ Untouched

\* Nobody has scanned yet, or the poll failed and will be retried.
PollNothing(a, k) ==
    /\ run[a][k] = "polling"
    /\ Goto(a, k, "idle")
    /\ UNCHANGED <<att, open, saved>> /\ Untouched

\* The account is there: sessions.save is called.
PollFinds(a, k) ==
    /\ run[a][k] = "polling"
    /\ Goto(a, k, "saving")
    /\ UNCHANGED <<att, open, saved>> /\ Untouched

MutantSaves(a, k) == saved' = saved                  \* mutant: success before the save
Saves(a, k) == saved' = saved \cup {a}

Saved(a, k) ==
    /\ run[a][k] = "saving"
    /\ Saves(a, k)
    /\ SetState(a, "success")
    /\ Goto(a, k, "closing")
    /\ UNCHANGED open /\ Untouched

LoopEnds(a, k) ==
    /\ run[a][k] = "idle" /\ ~GoesOn(a)
    /\ IF att[a].state = "waiting_scan" THEN SetState(a, "expired") ELSE UNCHANGED att
    /\ Goto(a, k, "closing")
    /\ UNCHANGED <<open, saved>> /\ Untouched

\* An error: of the launch, of a page whose browser is gone, of a poll, of the
\* reload after three polls that failed, of the save.
Fails(a, k) ==
    /\ run[a][k] \in {"launching", "opening", "idle", "polling", "saving"}
    /\ run[a][k] = "idle" => <<a, k>> \notin open
    /\ SetState(a, "failed")
    /\ Goto(a, k, "failing")
    /\ UNCHANGED <<open, saved>> /\ Untouched

\* killOrphanChromium: every process of the container that is named chromium.
KillOrphans(a, k) ==
    /\ run[a][k] = "failing"
    /\ open' = {}
    /\ Goto(a, k, "closing")
    /\ UNCHANGED <<att, saved>> /\ Untouched

Finally(a) == open \ Handles({a})

\* The finally: the browser that the attempt refers to by now is closed.
Close(a, k) ==
    /\ run[a][k] = "closing"
    /\ open' = Finally(a)
    /\ att' = [att EXCEPT ![a].handle = 0]
    /\ Goto(a, k, "over")
    /\ UNCHANGED saved /\ Untouched

RunNext(a, k) ==
    \/ SmsSent(a, k) \/ Launch(a, k) \/ Open(a, k)
    \/ PollStarts(a, k) \/ PollNothing(a, k) \/ PollFinds(a, k)
    \/ Saved(a, k) \/ LoopEnds(a, k) \/ Fails(a, k) \/ KillOrphans(a, k) \/ Close(a, k)

-----------------------------------------------------------------------------
\* submitSms
SubmitTo(a, s, step) == submit' = [submit EXCEPT ![a][s] = step]
Apart == UNCHANGED <<run, open, switching, refreshing, stopped, closed>>

InFlight(a) == \E s \in Submits : submit[a][s] # "no"

Submit(a, s) ==
    /\ ~stopped /\ submit[a][s] = "no"
    /\ att[a].known /\ ~att[a].old /\ att[a].state = "waiting_sms" /\ ~InFlight(a)
    /\ SubmitTo(a, s, "checking")
    /\ UNCHANGED <<att, saved>> /\ Apart

CodeAccepted(a, s) ==
    /\ submit[a][s] = "checking"
    /\ SubmitTo(a, s, "saving")
    /\ UNCHANGED <<att, saved>> /\ Apart

\* The catch: a wrong code, a sidecar or a save that fails.
SubmitFails(a, s) ==
    /\ submit[a][s] # "no"
    /\ SubmitTo(a, s, "no")
    /\ SetState(a, "waiting_sms")
    /\ UNCHANGED saved /\ Apart

SubmitSaved(a, s) ==
    /\ submit[a][s] = "saving"
    /\ SubmitTo(a, s, "no")
    /\ SetState(a, "success")
    /\ saved' = saved \cup {a}
    /\ Apart

SubmitNext(a, s) ==
    Submit(a, s) \/ CodeAccepted(a, s) \/ SubmitFails(a, s) \/ SubmitSaved(a, s)

-----------------------------------------------------------------------------
Next ==
    \/ \E e \in Employee : \E via \in Via : Begin(e, via) \/ Switched(e, via)
    \/ \E e \in Employee : Logout(e)
    \/ Shutdown \/ Sweep
    \/ \E a \in Attempt :
          \/ GrowOld(a) \/ Expire(a) \/ Refresh(a) \/ Refreshed(a)
          \/ \E via \in Provider : SelectProvider(a, via)
          \/ \E k \in Run : RunNext(a, k)
          \/ \E s \in Submits : SubmitNext(a, s)

Spec == Init /\ [][Next]_vars

\* Time passes, and what run() waits for answers in the end: the launch, the
\* navigation, the polls and the save have timeouts or are local.
Fairness ==
    \A a \in Attempt : WF_vars(GrowOld(a)) /\ WF_vars(\E k \in Run : RunNext(a, k))

FairSpec == Spec /\ Fairness

-----------------------------------------------------------------------------
(* What the logins promise.                                                *)

\* Nobody refreshed the attempt: it has one run.
Once(a) == \A k \in Run : k > 1 => run[a][k] = "none"

SuccessIsSaved == \A a \in Attempt : att[a].state = "success" => a \in saved

SuccessStays(a) == att[a].state = "success" /\ Once(a)' => att'[a].state = "success"

\* Nobody is told that the login succeeded before the session is stored,
\* whatever else writes the state of the attempt meanwhile; and no late answer of
\* another call takes the success of an attempt that was not refreshed back.
SuccessIsTrue == [][SuccessIsSaved' /\ \A a \in Attempt : SuccessStays(a)]_vars

\* The limit on logins, for the attempts that nobody closed or refreshed and
\* whose time has not passed: begins that wait for each other do not add up.
LimitHolds ==
    /\ TypeOK
    /\ Cardinality({a \in Active(att) : a \notin closed /\ ~att[a].old /\ Once(a)}) <= Maximum

\* The Chromium of such an attempt is closed in the end, even when nobody
\* scans, nobody asks for the status and no timer runs.
BrowsersClose ==
    \A a \in Attempt : <<a, 1>> \in open ~> <<a, 1>> \notin open \/ ~Once(a)
=============================================================================
