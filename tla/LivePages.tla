------------------------------ MODULE LivePages ------------------------------
(***************************************************************************)
(* The live dashboard (internal/handler/dashboard.go and its broadcaster,  *)
(* internal/system/network.go, web/templates/dashboard.html): a snapshot   *)
(* is gathered by eleven goroutines, each reading one source, once per     *)
(* tick for the stream and once per request for its answer; the internet   *)
(* probe is read from a cache that pings in the background.                *)
(*                                                                         *)
(* A source is known by how often it has changed.  One device and one page *)
(* stand for each.  What the server has written and the browser has not    *)
(* read yet waits in the channel of the subscriber.                        *)
(***************************************************************************)
EXTENDS Integers, Sequences

CONSTANTS
  Sources,    \* what a row is made of: labels, blocks, limits; ARP and leases
  Requests,   \* slots for requests of the page
  MaxPings,   \* in the background at a time
  Capacity,   \* of a subscriber's channel
  MaxVersion  \* changes of a source

Loop == "loop"   \* the goroutine of DashboardBroadcaster
Unread == -1

ASSUME PagesAssumption ==
  Loop \notin Requests /\ MaxPings \in Nat /\ Capacity \in Nat /\ MaxVersion \in Nat

VARIABLES
  net,       \* whether 8.8.8.8 answers: "up" or "down"
  cache,     \* internetCache: its value, and whether it is younger than its TTL
  pings,     \* how many pings in the background are "sent", and how many have
             \* ended "up" or "down" and not stored it yet
  forced,    \* forced[r]: how the ping of r has ended, or "none"
  version,   \* version[s]: the changes of s so far
  stage,     \* where each gatherer is
  got,       \* what each gatherer has read
  want,      \* what each request answers: a "row", the "stats" or the "page"
  channel,   \* the snapshots on their way to the page
  stream,    \* the page's EventSource: "none" before the page is loaded, then
             \* "connecting", "open", or "failed" once it has been refused
  page,      \* what the page shows
  form,      \* whether a form is open on it
  streamed,  \* history: the rows of the last snapshot the stream has shown
  since      \* history: the states of net since a request pressed "Check now",
             \* empty if a ping was then under way already

pageVars == <<net, cache, pings, forced, version, stage, got, want, channel, stream, page,
              form, streamed, since>>

Reach == {"up", "down"}
Gatherers == Requests \cup {Loop}
Wants == {"row", "stats", "page"}

\* What gatherData has read: one reading per source, and the probe.
Blank == [rows |-> [s \in Sources |-> Unread], ok |-> "unread"]
Snapshots == [rows : [Sources -> Nat], ok : Reach]
Complete(g) == got[g].ok # "unread" /\ \A s \in Sources : got[g].rows[s] # Unread

ColdCache == [ok |-> "up", fresh |-> FALSE]
NoPings == [sent |-> 0, up |-> 0, down |-> 0]

PagesInit ==
  /\ net \in Reach
  /\ cache = ColdCache
  /\ pings = NoPings
  /\ forced = [r \in Requests |-> "none"]
  /\ version = [s \in Sources |-> 0]
  /\ stage = [g \in Gatherers |-> "idle"]
  /\ got = [g \in Gatherers |-> Blank]
  /\ want = [r \in Requests |-> "row"]
  /\ channel = <<>>
  /\ stream = "none"
  /\ page = [rows |-> version, ok |-> "up"]
  /\ form = FALSE
  /\ streamed = version
  /\ since = [r \in Requests |-> {}]

-----------------------------------------------------------------------------
(* The world: the network, other windows, the ARP table, the clock.        *)

NetChanges ==
  /\ net' \in Reach \ {net}
  /\ since' = [r \in Requests |-> IF since[r] = {} THEN {} ELSE since[r] \cup {net'}]
  /\ UNCHANGED <<cache, pings, forced, version, stage, got, want, channel, stream, page, form, streamed>>

Changed(s) ==
  /\ version[s] < MaxVersion
  /\ version' = [version EXCEPT ![s] = @ + 1]

SourceChanges(s) ==
  /\ Changed(s)
  /\ UNCHANGED <<net, cache, pings, forced, stage, got, want, channel, stream, page, form, streamed, since>>

\* internetCacheTTL has passed.
Expires ==
  /\ cache.fresh
  /\ cache' = [cache EXCEPT !.fresh = FALSE]
  /\ UNCHANGED <<net, pings, forced, version, stage, got, want, channel, stream, page, form, streamed, since>>

-----------------------------------------------------------------------------
(* The internet probe.                                                     *)

\* The command of a ping ends: of one in the background, of a request's own.
PingAnswers ==
  /\ pings.sent > 0
  /\ pings' = [pings EXCEPT !.sent = @ - 1, ![net] = @ + 1]
  /\ UNCHANGED <<net, cache, forced, version, stage, got, want, channel, stream, page, form, streamed, since>>

ForcedAnswers(r) ==
  /\ stage[r] = "ping" /\ forced[r] = "none"
  /\ forced' = [forced EXCEPT ![r] = net]
  /\ UNCHANGED <<net, cache, pings, version, stage, got, want, channel, stream, page, form, streamed, since>>

\* A bug: only an answer that came back is stored.
StoreSuccess(result) == IF result = "up" THEN [ok |-> "up", fresh |-> TRUE] ELSE cache

\* What a ping that has ended leaves in the cache.
Stored(result) == [ok |-> result, fresh |-> TRUE]

\* The goroutine started by CheckInternetConnectivity.
PingStores(result) ==
  /\ pings[result] > 0
  /\ cache' = Stored(result)
  /\ pings' = [pings EXCEPT ![result] = @ - 1]
  /\ UNCHANGED <<net, forced, version, stage, got, want, channel, stream, page, form, streamed, since>>

InFlight == pings.sent + pings.up + pings.down

\* A stale cache answers at once and starts a ping, whoever else has started one.
CheckInternetConnectivity(g) ==
  /\ stage[g] = "gather" /\ got[g].ok = "unread"
  /\ got' = [got EXCEPT ![g].ok = cache.ok]
  /\ pings' = IF cache.fresh \/ InFlight >= MaxPings THEN pings ELSE [pings EXCEPT !.sent = @ + 1]
  /\ UNCHANGED <<net, cache, forced, version, stage, want, channel, stream, page, form, streamed, since>>

-----------------------------------------------------------------------------
(* gatherData: each source is read at a moment of its own.                 *)

ReadSource(g, s) ==
  /\ stage[g] = "gather" /\ got[g].rows[s] = Unread
  /\ got' = [got EXCEPT ![g].rows[s] = version[s]]
  /\ UNCHANGED <<net, cache, pings, forced, version, stage, want, channel, stream, page, form, streamed, since>>

Gather(g) == CheckInternetConnectivity(g) \/ \E s \in Sources : ReadSource(g, s)

Begin(g, first) ==
  /\ stage[g] = "idle"
  /\ stage' = [stage EXCEPT ![g] = first]
  /\ got' = [got EXCEPT ![g] = Blank]

Done(g) ==
  /\ stage[g] = "gather" /\ Complete(g)
  /\ stage' = [stage EXCEPT ![g] = "idle"]
  /\ got' = [got EXCEPT ![g] = Blank]

-----------------------------------------------------------------------------
(* The broadcaster and the stream.                                         *)

Tick ==
  /\ Begin(Loop, "gather")
  /\ UNCHANGED <<net, cache, pings, forced, version, want, channel, stream, page, form, streamed, since>>

\* A non-blocking send: what does not fit is dropped.
Offer(snap) ==
  channel' = IF stream = "open" /\ Len(channel) < Capacity THEN Append(channel, snap) ELSE channel

\* A bug: a snapshot like the one last shown is not sent.
PublishIfNew ==
  /\ Done(Loop)
  /\ IF got[Loop].rows = streamed THEN UNCHANGED channel ELSE Offer(got[Loop])
  /\ UNCHANGED <<net, cache, pings, forced, version, want, stream, page, form, streamed, since>>

Publish ==
  /\ Done(Loop)
  /\ Offer(got[Loop])
  /\ UNCHANGED <<net, cache, pings, forced, version, want, stream, page, form, streamed, since>>

\* EventSource connects, and the handler subscribes.
Connect ==
  /\ stream = "connecting"
  /\ stream' = "open"
  /\ channel' = <<>>
  /\ UNCHANGED <<net, cache, pings, forced, version, stage, got, want, page, form, streamed, since>>

\* The answer is not a stream but the login page: EventSource gives up.
Refused ==
  /\ stream = "connecting"
  /\ stream' = "failed"
  /\ UNCHANGED <<net, cache, pings, forced, version, stage, got, want, channel, page, form, streamed, since>>

\* The connection breaks: the handler unsubscribes, EventSource tries again.
Breaks ==
  /\ stream = "open"
  /\ stream' = "connecting"
  /\ channel' = <<>>
  /\ UNCHANGED <<net, cache, pings, forced, version, stage, got, want, page, form, streamed, since>>

\* The page leaves its devices alone while a form is open.
Deliver ==
  /\ stream = "open" /\ channel # <<>>
  /\ channel' = Tail(channel)
  /\ page' = [rows |-> IF form THEN page.rows ELSE Head(channel).rows, ok |-> Head(channel).ok]
  /\ streamed' = Head(channel).rows
  /\ UNCHANGED <<net, cache, pings, forced, version, stage, got, want, stream, form, since>>

-----------------------------------------------------------------------------
(* The page and its requests.                                              *)

ToggleForm ==
  /\ form' = ~form
  /\ UNCHANGED <<net, cache, pings, forced, version, stage, got, want, channel, stream, page, streamed, since>>

\* A handler that changes one row: of the labels, the blocks or the limits.
SetRow(r, s) ==
  /\ Begin(r, "gather")
  /\ Changed(s)
  /\ want' = [want EXCEPT ![r] = "row"]
  /\ UNCHANGED <<net, cache, pings, forced, channel, stream, page, form, streamed, since>>

ShowDashboard(r) ==
  /\ Begin(r, "gather")
  /\ want' = [want EXCEPT ![r] = "page"]
  /\ UNCHANGED <<net, cache, pings, forced, version, channel, stream, page, form, streamed, since>>

Press(r, first) ==
  /\ Begin(r, first)
  /\ want' = [want EXCEPT ![r] = "stats"]
  /\ since' = [since EXCEPT ![r] =
       IF InFlight = 0 /\ \A q \in Requests : stage[q] # "ping" THEN {net} ELSE {}]
  /\ UNCHANGED <<net, cache, pings, forced, version, channel, stream, page, form, streamed>>

\* A bug: the button reads the cache like everybody else.
CheckInternetFromCache(r) == Press(r, "gather")

\* checkInternet: ForceCheckInternet pings before it gathers.
CheckInternet(r) == Press(r, "ping")

ForceStores(r) ==
  /\ stage[r] = "ping" /\ forced[r] # "none"
  /\ cache' = Stored(forced[r])
  /\ forced' = [forced EXCEPT ![r] = "none"]
  /\ stage' = [stage EXCEPT ![r] = "gather"]
  /\ UNCHANGED <<net, pings, version, got, want, channel, stream, page, form, streamed, since>>

\* The answer reaches the page: fetchReplace puts the row where the row is, if
\* it still is there; fetchSwap the stats; a page that is loaded starts over.
Shows(r) ==
  \/ /\ want[r] = "row"
     /\ \/ page' = [page EXCEPT !.rows = got[r].rows] /\ form' = FALSE
        \/ UNCHANGED <<page, form>>
     /\ UNCHANGED stream
  \/ /\ want[r] = "stats"
     /\ page' = [page EXCEPT !.ok = got[r].ok]
     /\ UNCHANGED <<form, stream>>
  \/ /\ want[r] = "page"
     /\ page' = got[r]
     /\ form' = FALSE
     /\ stream' = "connecting"

\* A bug: the answer is also sent to the stream, so that other pages see it sooner.
AnswerAndPublish(r) ==
  /\ Done(r)
  /\ Shows(r)
  /\ since' = [since EXCEPT ![r] = {}]
  /\ IF want[r] = "row" THEN Offer(got[r])
     ELSE channel' = IF want[r] = "page" THEN <<>> ELSE channel
  /\ want' = [want EXCEPT ![r] = "row"]
  /\ UNCHANGED <<net, cache, pings, forced, version, streamed>>

Answer(r) ==
  /\ Done(r)
  /\ Shows(r)
  /\ since' = [since EXCEPT ![r] = {}]
  /\ channel' = IF want[r] = "page" THEN <<>> ELSE channel
  /\ want' = [want EXCEPT ![r] = "row"]
  /\ UNCHANGED <<net, cache, pings, forced, version, streamed>>

\* The process ends: what it had in memory is gone, and its connections.
PagesForgotten ==
  /\ cache' = ColdCache
  /\ pings' = NoPings
  /\ forced' = [r \in Requests |-> "none"]
  /\ stage' = [g \in Gatherers |-> "idle"]
  /\ got' = [g \in Gatherers |-> Blank]
  /\ want' = [r \in Requests |-> "row"]
  /\ since' = [r \in Requests |-> {}]
  /\ channel' = <<>>
  /\ stream' = IF stream = "open" THEN "connecting" ELSE stream
  /\ UNCHANGED <<net, version, page, form, streamed>>

-----------------------------------------------------------------------------
\* What goes on by itself: the broadcaster, a ping in the background, a request.
Broadcast == Gather(Loop) \/ Tick \/ Publish
Pinging == PingAnswers \/ \E result \in Reach : PingStores(result)
Serve(r) == ForcedAnswers(r) \/ ForceStores(r) \/ Gather(r) \/ Answer(r)

World ==
  \/ NetChanges \/ Expires \/ Breaks \/ ToggleForm
  \/ \E s \in Sources : SourceChanges(s)

Asks(r) ==
  \/ \E s \in Sources : SetRow(r, s)
  \/ ShowDashboard(r)
  \/ CheckInternet(r)

PagesNext ==
  \/ World \/ Broadcast \/ Deliver \/ Connect \/ Refused \/ PagesForgotten \/ Pinging
  \/ \E r \in Requests : Asks(r) \/ Serve(r)

PagesSpec == PagesInit /\ [][PagesNext]_pageVars

-----------------------------------------------------------------------------
(* Properties.                                                             *)

PagesTypeOK ==
  /\ net \in Reach
  /\ cache \in [ok : Reach, fresh : BOOLEAN]
  /\ pings \in [{"sent"} \cup Reach -> Nat]
  /\ forced \in [Requests -> {"none"} \cup Reach]
  /\ version \in [Sources -> Nat]
  /\ stage \in [Gatherers -> {"idle", "ping", "gather"}]
  /\ got \in [Gatherers -> [rows : [Sources -> Nat \cup {Unread}], ok : Reach \cup {"unread"}]]
  /\ want \in [Requests -> Wants]
  /\ channel \in Seq(Snapshots)
  /\ Len(channel) <= Capacity
  /\ stream \in {"none", "connecting", "open", "failed"}
  /\ page \in Snapshots
  /\ form \in BOOLEAN
  /\ streamed \in [Sources -> Nat]
  /\ since \in [Requests -> SUBSET Reach]

\* The stream never shows a table older than one it has shown before, whatever
\* requests, reconnections and restarts come between (dashboard_broadcaster.go
\* 61-83: one goroutine gathers, channels keep the order).
NeverBackInTime == [][\A s \in Sources : streamed'[s] >= streamed[s]]_pageVars

\* "Check now" answers with a state the network has had since it was pressed,
\* if no other ping was under way then (dashboard.go 227-237, network.go 213-222).
ForcedAnswerIsFresh ==
  \A r \in Requests : got[r].ok \in Reach /\ since[r] # {} => got[r].ok \in since[r]

\* A page whose stream stays connected and whose forms are closed ends up with
\* what the tables say, whatever old answers and snapshots it was shown last.
PageCatchesUp == <>[](stream = "open" /\ ~form) => <>[](page.rows = version)

\* It also ends up with the state of the network, though the cache starts as
\* connected and old pings may store their result after newer ones.
InternetShownRight ==
  \A state \in Reach : <>[](stream = "open" /\ net = state) => <>[](page.ok = state)
=============================================================================
