------------------------------ MODULE WebServer ------------------------------
(***************************************************************************)
(* The srouter process as its pages see it (cmd/main.go): it starts,       *)
(* serves, is told to end, and loses what it had in memory: the caches and *)
(* streams of LivePages, the sampler of TrafficRates, the buckets of       *)
(* LoginLimiter.  The table of Sessions stays.  A page is loaded, and its  *)
(* stream opened, with a session that RequireAuth finds.                   *)
(***************************************************************************)
EXTENDS LivePages, TrafficRates, LoginLimiter, Sessions

CONSTANTS
  Environments,  \* the sets of doings a behaviour may have to live with
  MaxStarts

\* What the user, the network and the machine do in a behaviour.
Doings == {"page", "rows", "form", "load", "breaks", "net", "press", "traffic", "login",
           "wall", "restart", "query"}

ASSUME ServerAssumption == Environments \subseteq SUBSET Doings /\ MaxStarts \in Nat

VARIABLES
  may,       \* what this behaviour has to live with, chosen once
  phase,     \* the process: "serving", "draining", "late" or "down"
  starts     \* how often it has been started again

procVars == <<phase, starts>>
vars == <<pageVars, trafficVars, limiterVars, sessionVars, procVars, may>>

Init ==
  /\ PagesInit /\ TrafficInit /\ LimiterInit /\ SessionsInit
  /\ may \in Environments
  /\ "net" \in may \/ net = "up"
  /\ "traffic" \in may \/ counter = Nothing
  /\ "login" \in may \/ rows = {cookie}
  /\ "login" \notin may \/ rows = {}
  /\ phase = "serving"
  /\ starts = 0

-----------------------------------------------------------------------------
(* Steps of one part.                                                      *)

Pages(A) == A /\ UNCHANGED <<trafficVars, limiterVars, sessionVars, procVars, may>>
Traffic(A) == A /\ UNCHANGED <<pageVars, limiterVars, sessionVars, procVars, may>>
Limiter(A) == A /\ UNCHANGED <<pageVars, trafficVars, sessionVars, procVars, may>>
Browser(A) == A /\ UNCHANGED <<pageVars, trafficVars, limiterVars, procVars, may>>

Running == phase # "down"
LoggedIn == cookie # None /\ Valid(cookie)
Opened == stream # "none"

\* What the process does by itself, until it is down.
BroadcastRuns == Running /\ Opened /\ Pages(Broadcast)
PingRuns == Running /\ Pages(Pinging)
RequestRuns(r) == Running /\ Pages(Serve(r))
DeliverRuns == Pages(Deliver)
SamplerRuns == Running /\ "traffic" \in may /\ Traffic(Sampler)

\* The listener is closed once the process has been told to end.
Connects == phase = "serving" /\ LoggedIn /\ Pages(Connect)

\* RequireAuth redirects to the login page without a session, and when the query
\* for it fails, as it may while something else writes to the database.
IsRefused == phase = "serving" /\ (~LoggedIn \/ "query" \in may) /\ Pages(Refused)

UserAsks(r) ==
  /\ phase = "serving" /\ LoggedIn
  /\ \/ "rows" \in may /\ Opened /\ \E s \in Sources : Pages(SetRow(r, s))
     \/ "press" \in may /\ Opened /\ Pages(CheckInternet(r))
     \/ "page" \in may /\ ("load" \in may \/ stream \in {"none", "failed"}) /\ Pages(ShowDashboard(r))

CacheExpires == "net" \in may /\ Opened /\ Pages(Expires)

Surroundings ==
  \/ CacheExpires
  \/ "net" \in may /\ Opened /\ Pages(NetChanges)
  \/ "form" \in may /\ Opened /\ Pages(ToggleForm)
  \/ "breaks" \in may /\ Pages(Breaks)
  \/ "rows" \in may /\ Opened /\ \E s \in Sources : Pages(SourceChanges(s))
  \/ "traffic" \in may /\ Traffic(Kernel)
  \/ "login" \in may /\ Limiter(ClockTicks)
  \/ "wall" \in may /\ Browser(SecondPasses \/ ClockIsSet \/ CookieEnds)
  \/ "wall" \in may /\ Running /\ Browser(Cleanup)
  \/ "wall" \in may /\ phase = "serving" /\ Browser(LogOut)

-----------------------------------------------------------------------------
(* Logging in: the limiter, then PAM, then a row.                          *)

LoginAsked(a, h) ==
  /\ phase = "serving"
  /\ "login" \in may
  /\ Limiter(Arrives(a, h))

LoginAllowed(a) == Running /\ Limiter(Allow(a))

LoginAnswered(a) ==
  /\ Running
  /\ Answered(a)
  /\ UNCHANGED sessionVars \/ \E id \in Ids : CreateSession(id)
  /\ UNCHANGED <<pageVars, trafficVars, procVars, may>>

Login(a) == LoginAllowed(a) \/ LoginAnswered(a) \/ \E h \in Hosts : LoginAsked(a, h)

-----------------------------------------------------------------------------
(* The process.                                                            *)

\* SIGTERM.  No service has anything to shut down (main.go 201).
Terminate ==
  /\ "restart" \in may /\ phase = "serving"
  /\ phase' = "draining"
  /\ UNCHANGED <<pageVars, trafficVars, limiterVars, sessionVars, starts, may>>

\* The five seconds of srv.Shutdown are over.
DeadlinePasses ==
  /\ phase = "draining"
  /\ phase' = "late"
  /\ UNCHANGED <<pageVars, trafficVars, limiterVars, sessionVars, starts, may>>

Drained ==
  /\ stream # "open"
  /\ \A r \in Requests : stage[r] = "idle"
  /\ \A a \in Attempts : attempt[a].at = "idle"

Ends ==
  /\ phase' = "down"
  /\ PagesForgotten /\ LimiterForgotten /\ TrafficForgotten /\ SessionsKept
  /\ UNCHANGED <<starts, may>>

\* A bug: srv.Shutdown is given a context without a deadline.
ExitOnceDrained == phase \in {"draining", "late"} /\ Drained /\ Ends

Exit ==
  /\ phase = "late" \/ (phase = "draining" /\ Drained)
  /\ Ends

Crash == "restart" \in may /\ Running /\ Ends

Start ==
  /\ phase = "down" /\ starts < MaxStarts
  /\ phase' = "serving"
  /\ starts' = starts + 1
  /\ TrafficForgotten
  /\ UNCHANGED <<pageVars, limiterVars, sessionVars, may>>

Process == Terminate \/ DeadlinePasses \/ Exit \/ Crash \/ Start

Next ==
  \/ BroadcastRuns
  \/ PingRuns
  \/ DeliverRuns
  \/ SamplerRuns
  \/ Connects
  \/ IsRefused
  \/ Surroundings
  \/ Process
  \/ \E r \in Requests : RequestRuns(r)
  \/ \E r \in Requests : UserAsks(r)
  \/ \E a \in Attempts : Login(a)

Spec == Init /\ [][Next]_vars

\* Goroutines run, pings end (-W 2), the TTL of the cache and the deadline of
\* Shutdown pass, browsers read what they are sent and reconnect.
FairSpec ==
  /\ Spec
  /\ WF_vars(BroadcastRuns)
  /\ WF_vars(PingRuns)
  /\ WF_vars(DeliverRuns)
  /\ WF_vars(Connects)
  /\ WF_vars(CacheExpires)
  /\ WF_vars(DeadlinePasses \/ Exit)
  /\ \A r \in Requests : WF_vars(RequestRuns(r))

-----------------------------------------------------------------------------
(* Properties.                                                             *)

\* A restart by itself never costs the page its stream: when the reconnecting
\* EventSource is refused, and so gives up for good, the user has logged out, the
\* cookie is gone, the session has run for its TTL, or the query for the session
\* failed (auth.go 18-22, session.go 27-58, dashboard.html 7: sessions are rows, and
\* outlive the process that wrote them; but a failing query is taken for none).
PageSurvivesRestarts ==
  [][stream' = "failed" /\ stream # "failed" =>
       \/ cookie = None \/ cookie \in out \/ peak[cookie] >= issued[cookie] + TTL
       \/ "query" \in may]_vars

\* The process that is told to end does, though its streams never end by themselves
\* (main.go 199-208: nothing closes them, the deadline of Shutdown cuts them).
ShutdownEnds == []<>(phase \in {"serving", "down"})
=============================================================================
