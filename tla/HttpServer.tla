----------------------------- MODULE HttpServer -----------------------------
(***************************************************************************)
(* http-server.ts: the requests of one service, the MCP sessions they open *)
(* and use, the limits on both, idle expiry and the graceful shutdown.     *)
(*                                                                         *)
(* An action is one stretch of a handler between two awaits.  A request is *)
(* named for its connection; a session for the request that opened it.     *)
(* The transport of the MCP SDK is external: its handleRequest resolves    *)
(* when the response has ended or its client is gone.  What the tools do   *)
(* is left to the modules of the stores; here they take time.              *)
(***************************************************************************)
EXTENDS Integers, FiniteSets

CONSTANTS
    Request,        \* requests that may arrive, each on its own connection
    MaxRequests,    \* maxConcurrentRequests
    MaxSessions,    \* maxMcpSessions
    MaxPerSession   \* maxRequestsPerSession

ASSUME LimitAssumption ==
    /\ MaxRequests \in Nat \ {0} /\ MaxSessions \in Nat \ {0} /\ MaxPerSession \in Nat \ {0}
    /\ IsFiniteSet(Request)

VARIABLES
    pc,        \* where the handler of each request is
    does,      \* what it was admitted for: "call", "login", "init" or "use"
    uses,      \* the session it uses
    aborted,   \* requests whose client closed the connection
    gauge,     \* metrics.activeRequests
    sessions,  \* the keys of the sessions map
    inFlight,  \* inFlight of each session's object
    idle,      \* sessions unused for mcpSessionIdleSeconds
    tenant,    \* app.getTenant holds an open database
    phase,     \* the shutdown, named for what it awaits
    awaits,    \* what that is: "nothing" more, an "answer", or one that "hangs"
    due,       \* the deadline of this await has passed
    drained,   \* writesDrained
    timedOut   \* it stopped waiting for connections

httpVars == <<pc, does, uses, aborted, gauge, sessions, inFlight, idle, tenant,
              phase, awaits, due, drained, timedOut>>
requestVars == <<pc, does, uses, aborted, gauge>>
sessionVars == <<sessions, inFlight, idle>>
serverVars == <<tenant, phase, awaits, due, drained, timedOut>>

NoSession == "no session"

ASSUME SessionAssumption == NoSession \notin Request

ServerTypeOK ==
    /\ pc \in [Request -> {"new", "expiring", "reading", "opening", "working", "answered", "gone"}]
    /\ does \in [Request -> {"nothing", "call", "login", "init", "use"}]
    /\ uses \in [Request -> Request \cup {NoSession}]
    /\ aborted \in SUBSET Request
    /\ gauge \in Int
    /\ sessions \in SUBSET Request
    /\ inFlight \in [Request -> Int]
    /\ idle \in SUBSET Request
    /\ tenant \in BOOLEAN
    /\ phase \in {"serving", "logins", "writes", "transports", "connections", "clients", "closed"}
    /\ awaits \in {"nothing", "answer", "hangs"}
    /\ due \in BOOLEAN /\ drained \in BOOLEAN /\ timedOut \in BOOLEAN

ServerInit ==
    /\ pc = [r \in Request |-> "new"]
    /\ does = [r \in Request |-> "nothing"]
    /\ uses = [r \in Request |-> NoSession]
    /\ aborted = {}
    /\ gauge = 0
    /\ sessions = {} /\ idle = {}
    /\ inFlight = [r \in Request |-> 0]
    /\ tenant = FALSE
    /\ phase = "serving" /\ awaits = "nothing"
    /\ due = FALSE /\ drained = FALSE /\ timedOut = FALSE

Advance(r, step) == pc' = [pc EXCEPT ![r] = step]

-----------------------------------------------------------------------------
(* What a request is, and whether it gets past the guards of its route.    *)

Query == [path   : {"probe", "metrics", "login", "provider", "refresh", "call", "mcp", "other"},
          method : {"GET", "POST"},
          host   : BOOLEAN,                       \* the Host header is allowed
          origin : {"none", "own", "foreign"},
          bearer : BOOLEAN, agent : BOOLEAN,      \* a valid token; a valid X-Agent-Id
          session: Request \cup {NoSession}]      \* Mcp-Session-Id

\* authenticateRequest, authenticateAny
Authenticated(q)    == q.bearer
AuthenticatedAny(q) == q.bearer \/ q.agent

\* passesOriginGuard, passesLoginOriginGuard
OriginGuard(q)      == q.origin # "foreign"
LoginOriginGuard(q) == q.origin = "own"

\* handleLoginRoute: pages, images and states are answered at once; a choice
\* of provider and a refresh call the login manager.
LoginActs(q) == q.path \in {"provider", "refresh"} /\ q.method = "POST" /\ LoginOriginGuard(q)

\* What the request will do past its guards; the others are answered at once.
Purpose(q) ==
    CASE ~q.host \/ q.path \in {"probe", "metrics", "other"} -> "nothing"
      [] q.path \in {"login", "provider", "refresh"} -> IF LoginActs(q) THEN "login" ELSE "nothing"
      [] q.path = "call" -> IF q.method = "POST" /\ AuthenticatedAny(q) THEN "call" ELSE "nothing"
      [] ~OriginGuard(q) \/ ~Authenticated(q) -> "nothing"
      [] q.session # NoSession -> "use"
      [] OTHER -> IF q.method = "POST" THEN "init" ELSE "nothing"

Admission == {[purpose |-> Purpose(q), session |-> q.session] : q \in Query}

\* The gauge counts the request that asks.
Overloaded == gauge' > MaxRequests

MutantExpirable == {s \in sessions : s \in idle}
Expirable == {s \in sessions : inFlight[s] = 0 /\ s \in idle}

Answered(r) == Advance(r, "answered") /\ UNCHANGED <<does, uses, sessionVars>>

Proceed(r, purpose, step) ==
    Advance(r, step) /\ does' = [does EXCEPT ![r] = purpose]

UseSession(r, s) ==
    /\ s \in sessions /\ inFlight[s] < MaxPerSession
    /\ Proceed(r, "use", "working")
    /\ uses' = [uses EXCEPT ![r] = s]
    /\ inFlight' = [inFlight EXCEPT ![s] = @ + 1]
    /\ idle' = idle \ {s}
    /\ UNCHANGED sessions

\* A handshake that finds no room expires the idle sessions first.
Handshake(r) ==
    /\ UNCHANGED <<uses, inFlight, idle>>
    /\ IF Cardinality(sessions) < MaxSessions
       THEN Proceed(r, "init", "reading") /\ UNCHANGED sessions
       ELSE Proceed(r, "init", "expiring") /\ sessions' = sessions \ Expirable

(* A request arrives: counted, and handled up to its first await.  What is *)
(* refused is answered at once; the draining server takes requests on its  *)
(* open connections only to refuse them.                                   *)
Arrive(r) ==
    /\ pc[r] = "new" /\ phase \in {"serving", "logins", "writes", "transports"}
    /\ gauge' = gauge + 1
    /\ \E a \in Admission :
        \/ Answered(r)
        \/ /\ phase = "serving" /\ ~Overloaded
           /\ CASE a.purpose = "nothing" -> Answered(r)
                [] a.purpose \in {"login", "call"} ->
                      /\ Proceed(r, a.purpose, IF a.purpose = "call" THEN "reading" ELSE "working")
                      /\ UNCHANGED <<uses, sessionVars>>
                [] a.purpose = "use" -> UseSession(r, a.session)
                [] a.purpose = "init" -> Handshake(r)
    /\ UNCHANGED <<aborted, serverVars>>

-----------------------------------------------------------------------------
(* The handlers after their first await.                                   *)

Room == Cardinality(sessions) < MaxSessions

\* The limit is looked at again after the idle sessions were closed, and not
\* after the body was read.
Recheck(r) ==
    /\ pc[r] = "expiring"
    /\ Advance(r, IF Room THEN "reading" ELSE "answered")
    /\ UNCHANGED <<does, uses, aborted, gauge, sessionVars, serverVars>>

\* readJsonBody: a body that is too large, no JSON or cut off is answered.
BodyRefused(r) == Advance(r, "answered") /\ UNCHANGED tenant

\* What follows the body up to the next await: one that is not what the route
\* expects is answered as well; with the others the tenant is opened.
ReadBody(r) ==
    /\ pc[r] = "reading"
    /\ \/ BodyRefused(r)
       \/ /\ r \notin aborted
          /\ Advance(r, IF does[r] = "init" THEN "opening" ELSE "working")
          /\ tenant' = TRUE
    /\ UNCHANGED <<does, uses, aborted, gauge, sessionVars, phase, awaits, due, drained, timedOut>>

\* onsessioninitialized, or a handshake the transport refuses.
OpenSession(r) ==
    /\ pc[r] = "opening"
    /\ \/ /\ sessions' = sessions \cup {r}
          /\ idle' = idle \ {r}
          /\ Advance(r, "working")
       \/ Advance(r, "answered") /\ UNCHANGED <<sessions, idle>>
    /\ UNCHANGED <<does, uses, aborted, gauge, inFlight, serverVars>>

Ends(r) == /\ pc[r] = "working"
           /\ Advance(r, "answered")
           /\ UNCHANGED <<does, uses, aborted, gauge, serverVars>>

\* callTool came back or threw; the response to a handshake has ended.
EndCall(r) == does[r] \in {"call", "init"} /\ Ends(r) /\ UNCHANGED sessionVars

\* handleLoginProvider reads a body of its own, then both ask the login manager.
EndLogin(r) == does[r] = "login" /\ Ends(r) /\ UNCHANGED sessionVars

\* The finally of a request that used a session.  A DELETE closes the
\* transport, whose onclose takes the session out of the map.
EndUse(r) ==
    /\ does[r] = "use" /\ Ends(r)
    /\ inFlight' = [inFlight EXCEPT ![uses[r]] = @ - 1]
    /\ idle' = idle \ {uses[r]}
    /\ sessions' \in {sessions, sessions \ {uses[r]}}

MutantFinished(r) ==
    IF r \in aborted THEN gauge' \in {gauge - 1, gauge - 2} ELSE gauge' = gauge - 1

\* The finish event lowers the gauge; a lost connection may never emit it.
Finished(r) ==
    IF r \in aborted THEN gauge' \in {gauge, gauge - 1} ELSE gauge' = gauge - 1

Finish(r) ==
    /\ pc[r] = "answered"
    /\ Advance(r, "gone")
    /\ Finished(r)
    /\ does' = [does EXCEPT ![r] = "nothing"] /\ uses' = [uses EXCEPT ![r] = NoSession]
    /\ UNCHANGED <<aborted, sessionVars, serverVars>>

Abort(r) ==
    /\ pc[r] \notin {"new", "gone"} /\ r \notin aborted
    /\ aborted' = aborted \cup {r}
    /\ UNCHANGED <<pc, does, uses, gauge, sessionVars, serverVars>>

-----------------------------------------------------------------------------
(* Time, and the timer of expireIdleSessions.                              *)

GrowIdle(s) ==
    /\ s \in sessions \ idle
    /\ idle' = idle \cup {s}
    /\ UNCHANGED <<pc, does, uses, aborted, gauge, sessions, inFlight, serverVars>>

ExpireIdleSessions ==
    /\ phase = "serving" /\ Expirable # {}
    /\ sessions' = sessions \ Expirable
    /\ UNCHANGED <<pc, does, uses, aborted, gauge, inFlight, idle, serverVars>>

-----------------------------------------------------------------------------
(* shutdown(): five awaits, two of them with a deadline.  The browsers of  *)
(* the login manager and the requests of the clients have none: what they  *)
(* wait for, a page and Yuque, answers or hangs.                           *)

\* The next await begins, with nothing or something to wait for.
Await(what, found) ==
    /\ phase' = what /\ awaits' \in found /\ due' = FALSE

Idle == {"nothing"}
MayBeBusy == {"nothing", "answer"}

\* Requests are refused from here on: the server takes no connection more.
\* login.shutdown awaits the queue of each attempt, then its browser.
BeginShutdown ==
    /\ phase = "serving" /\ Await("logins", MayBeBusy)
    /\ UNCHANGED <<requestVars, sessionVars, tenant, drained, timedOut>>

\* Every browser is closed; waitForIdle looks at the confirms that run.
LoginsClosed ==
    /\ phase = "logins" /\ awaits = "nothing" /\ Await("writes", MayBeBusy)
    /\ UNCHANGED <<requestVars, sessionVars, tenant, drained, timedOut>>

\* It came back; the transports are told to close.
Drained ==
    /\ phase = "writes" /\ (awaits = "nothing" \/ due)
    /\ drained' = (awaits = "nothing")
    /\ Await("transports", Idle)
    /\ UNCHANGED <<requestVars, sessionVars, tenant, timedOut>>

Connected == {r \in Request : pc[r] \notin {"new", "gone"} /\ r \notin aborted}

\* They are closed.  Writes that did not drain cost every client its
\* connection.
CloseSessions ==
    /\ phase = "transports" /\ Await("connections", Idle)
    /\ sessions' = {}
    /\ aborted' = IF drained THEN aborted ELSE aborted \cup Connected
    /\ UNCHANGED <<pc, does, uses, gauge, inFlight, idle, tenant, drained, timedOut>>

MutantMayClose == (Connected = {} \/ due) /\ timedOut' = FALSE
MutantPatient == Connected = {} /\ timedOut' = FALSE

\* The race: every connection has ended, or the timeout.
MayClose == (Connected = {} \/ due) /\ timedOut' = (Connected # {})

\* app.close awaits the requests that the tenants' clients have under way.
CloseServer ==
    /\ phase = "connections" /\ MayClose /\ Await("clients", MayBeBusy)
    /\ UNCHANGED <<requestVars, sessionVars, tenant, drained>>

ForgetTenants ==
    /\ phase = "clients" /\ awaits = "nothing" /\ Await("closed", Idle)
    /\ tenant' = FALSE
    /\ UNCHANGED <<requestVars, sessionVars, drained, timedOut>>

\* What is awaited is done, or will never be.
Settle(outcome) ==
    /\ awaits = "answer" /\ awaits' = outcome
    /\ UNCHANGED <<requestVars, sessionVars, tenant, phase, due, drained, timedOut>>

\* The deadline of waitForIdle or of the race.
Tick ==
    /\ phase \in {"writes", "connections"} /\ ~due
    /\ due' = TRUE
    /\ UNCHANGED <<requestVars, sessionVars, tenant, phase, awaits, drained, timedOut>>

-----------------------------------------------------------------------------
Handler(r) ==
    \/ Recheck(r) \/ ReadBody(r) \/ OpenSession(r)
    \/ EndCall(r) \/ EndLogin(r) \/ EndUse(r) \/ Finish(r)

ShutdownStep == LoginsClosed \/ Drained \/ CloseSessions \/ CloseServer \/ ForgetTenants

ShutdownNext == BeginShutdown \/ ShutdownStep \/ Settle("nothing") \/ Settle("hangs") \/ Tick

ServerNext ==
    \/ \E r \in Request : Arrive(r) \/ Abort(r) \/ Handler(r) \/ GrowIdle(r)
    \/ ExpireIdleSessions
    \/ ShutdownNext

ServerSpec == ServerInit /\ [][ServerNext]_httpVars

(* A continuation whose await is over runs, and time passes.  Nothing      *)
(* obliges a client to send its body, a tool or a confirm to end, or what  *)
(* is awaited to answer: it may hang instead, at any moment.               *)
FairServerSpec ==
    /\ ServerSpec
    /\ WF_httpVars(ShutdownStep)
    /\ WF_httpVars(Tick)
    /\ WF_httpVars(Settle("nothing") \/ Settle("hangs"))

-----------------------------------------------------------------------------
(* Properties                                                              *)

Pending == {r \in Request : pc[r] \notin {"new", "gone"}}

GaugeSound ==
    /\ gauge >= Cardinality(Pending)
    /\ gauge <= Cardinality(Pending) + Cardinality(aborted)

SessionBound == Cardinality(sessions) < MaxSessions + MaxRequests

\* activeRequests never counts less than the requests under way, and more
\* only by the requests whose client hung up (the finish listener).  The limit on
\* sessions is checked before the body is awaited and kept by nobody after it:
\* concurrent handshakes may pass it, but by less than the number of requests
\* that may run at once (handleRequest).
LimitsHold == ServerTypeOK /\ GaugeSound /\ SessionBound

Users(s) == {r \in Request : pc[r] = "working" /\ uses[r] = s}

\* While the service serves, a session goes when nobody uses it, or with the
\* end of a request that did: no timer and no handshake that looks for room
\* takes it from under a request (expireIdleSessions, inFlight).
InUseKept ==
    [][\A s \in sessions \ sessions' :
          phase' = "serving" => Users(s) = {} \/ Users(s)' # Users(s)]_httpVars

\* A shutdown that did not time out closes the databases under nobody who
\* still waits for an answer, and none is opened afterwards; so the runtime
\* lock, given back next, guards nothing that is open.
ClosedIsQuiet ==
    phase = "closed" /\ ~timedOut => ~tenant /\ \A r \in Pending : r \in aborted

\* Whatever clients, tools and writes do, a shutdown comes to its end, unless a
\* login page or an answer of Yuque hangs: the awaits of login.shutdown and
\* app.close have no deadline (shutdown in http-server.ts, closeBrowser).
ShutdownEnds ==
    phase = "logins" ~>
        phase = "closed" \/ (phase \in {"logins", "clients"} /\ awaits = "hangs")
=============================================================================
