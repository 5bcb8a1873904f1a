----------------------------- MODULE LogStream -----------------------------
(***************************************************************************)
(* The live log page: one goroutine tails /var/log/messages, keeps the     *)
(* latest lines of every category and fans new ones out to the browsers    *)
(* that are connected (internal/system/logs.go 91-231,                     *)
(* internal/handler/logs.go 57-103).                                       *)
(*                                                                         *)
(* A line is its number in the order in which syslogd wrote it; the log    *)
(* starts at the point the goroutine seeks to when it opens the file.      *)
(***************************************************************************)
EXTENDS Naturals, FiniteSets, Sequences, SequencesExt

CONSTANTS
  Clients,              \* browser connections to /logs/events
  Stuck,                \* those that may stop taking what is sent to them
  Categories,
  HistoryPerCategory,   \* 150
  Slots, Slack,         \* a channel holds HistoryPerCategory*Slots + Slack: 5 and 64
  MaxLines,             \* bound: the lines ever written
  Faults                \* what may befall the log file

All == "all"       \* no category asked for
Off == "off"       \* not connected

ASSUME LogAssumption ==
  /\ {HistoryPerCategory, Slots, Slack, MaxLines} \subseteq Nat
  /\ IsFiniteSet(Categories) /\ {All, Off} \cap Categories = {}
  /\ Slots >= 1 /\ Slots >= Cardinality(Categories)
  /\ Stuck \subseteq Clients
  /\ Faults \subseteq {"missing", "rotated"}

Filters == Categories \cup {All}
Capacity == HistoryPerCategory * Slots + Slack

VARIABLES
  written,      \* the category of every line written so far
  held,         \* how many of the lines are in the file the goroutine opens
  tail,         \* what the goroutine does: "starting", "tailing" or "ended"
  rotated,      \* whether new lines go to another file than the one it has open
  pos,          \* how many lines it has read
  skipped,      \* how many of them it has discarded
  history,      \* history[k]: the latest lines of category k
  locked,       \* whether a Subscribe is blocked with the mutex in its hands
  filter,       \* filter[c]: what client c has subscribed to
  ch,           \* ch[c]: the lines in its channel
  page,         \* page[c]: the lines sent to it on this connection
  since,        \* since[c]: pos when it subscribed (a history variable)
  short         \* the clients that missed a line, as their channel was full (history)

logVars == <<written, held, rotated>>
tailVars == <<tail, pos, skipped, history>>
clientVars == <<filter, ch, page, since, short>>
vars == <<logVars, tailVars, clientVars, locked>>

MatchesFilter(k, f) == f \in {k, All}

Init ==
  /\ written = <<>> /\ held = 0
  /\ tail = "starting" /\ rotated = FALSE /\ pos = 0 /\ skipped = 0
  /\ history = [k \in Categories |-> <<>>]
  /\ locked = FALSE
  /\ filter = [c \in Clients |-> Off]
  /\ ch = [c \in Clients |-> <<>>]
  /\ page = [c \in Clients |-> <<>>]
  /\ since = [c \in Clients |-> 0]
  /\ short = {}

-----------------------------------------------------------------------------
(* The log file, written by syslogd.                                       *)

Write(k) ==
  /\ Len(written) < MaxLines
  /\ written' = Append(written, k)
  /\ held' = IF rotated THEN held ELSE held + 1
  /\ UNCHANGED <<rotated, tailVars, clientVars, locked>>

\* The file is renamed and a new one takes its place.
Rotate ==
  /\ "rotated" \in Faults /\ tail = "tailing"
  /\ rotated' = TRUE
  /\ UNCHANGED <<written, held, tailVars, clientVars, locked>>

-----------------------------------------------------------------------------
(* The goroutine (run).                                                    *)

\* The first line after the seek point is discarded, if there is one.
Open ==
  /\ tail = "starting"
  /\ tail' = "tailing"
  /\ skipped' = IF held = 0 THEN 0 ELSE 1
  /\ pos' = skipped'
  /\ UNCHANGED <<logVars, history, clientVars, locked>>

OpenFails ==
  /\ "missing" \in Faults /\ tail = "starting" /\ held = 0
  /\ tail' = "ended"
  /\ UNCHANGED <<logVars, pos, skipped, history, clientVars, locked>>

\* Plausible bugs, for the sensitivity of the properties below: not trimming,
\* keeping the wrong end, sending the line read before.
LatestUntrimmed(s) == s
LatestKeepsOldest(s) ==
  IF Len(s) > HistoryPerCategory THEN SubSeq(s, 1, HistoryPerCategory) ELSE s
OfferTwice(s, n) ==
  IF Len(s) < Capacity THEN Append(s, IF s = <<>> THEN n ELSE Last(s)) ELSE s

Latest(s) ==
  IF Len(s) > HistoryPerCategory
  THEN SubSeq(s, Len(s) - HistoryPerCategory + 1, Len(s)) ELSE s

\* A send that does not wait: the line is dropped when the channel is full.
Offer(s, n) == IF Len(s) < Capacity THEN Append(s, n) ELSE s

\* A bug: a send that waits for room.
ReadLineWaits ==
  /\ tail = "tailing" /\ pos < held /\ ~locked
  /\ pos' = pos + 1
  /\ LET k == written[pos + 1]
         to == {c \in Clients : MatchesFilter(k, filter[c])}
     IN  /\ \A c \in to : Len(ch[c]) < Capacity
         /\ history' = [history EXCEPT ![k] = Latest(Append(@, pos + 1))]
         /\ ch' = [c \in Clients |-> IF c \in to THEN Append(ch[c], pos + 1) ELSE ch[c]]
  /\ UNCHANGED <<logVars, tail, skipped, locked, filter, page, since, short>>

\* At the end of the file the goroutine sleeps and tries again.
ReadLine ==
  /\ tail = "tailing" /\ pos < held /\ ~locked
  /\ pos' = pos + 1
  /\ LET k == written[pos + 1]
         to == {c \in Clients : MatchesFilter(k, filter[c])}
     IN  /\ history' = [history EXCEPT ![k] = Latest(Append(@, pos + 1))]
         /\ ch' = [c \in Clients |-> IF c \in to THEN Offer(ch[c], pos + 1) ELSE ch[c]]
         /\ short' = short \cup {c \in to : Len(ch[c]) = Capacity}
  /\ UNCHANGED <<logVars, tail, skipped, locked, filter, page, since>>

-----------------------------------------------------------------------------
(* The clients (LogsHandler.sseStream).                                    *)

\* The histories of the categories, one after the other.
Joined(order) ==
  LET sent[i \in 0 .. Cardinality(Categories)] ==
        IF i = 0 THEN <<>> ELSE sent[i - 1] \o history[order[i]]
  IN  sent[Cardinality(Categories)]

\* What Subscribe sends from the history before anything else can be sent. The
\* categories come in any order when none is asked for.
Replays(f) ==
  IF f # All THEN {history[f]} ELSE {Joined(order) : order \in SetToSeqs(Categories)}

\* The sends for one category wait for room that nobody can make, as the channel
\* has no reader yet; the sends for all of them drop what does not fit.
Subscribe(c, f) ==
  /\ filter[c] = Off /\ ~locked
  /\ IF f # All /\ Len(history[f]) > Capacity
     THEN /\ locked' = TRUE
          /\ UNCHANGED clientVars
     ELSE /\ filter' = [filter EXCEPT ![c] = f]
          /\ \E s \in Replays(f) :
               /\ ch' = [ch EXCEPT ![c] = SubSeq(s, 1, Min({Len(s), Capacity}))]
               /\ short' = IF Len(s) > Capacity THEN short \cup {c} ELSE short
          /\ since' = [since EXCEPT ![c] = pos]
          /\ UNCHANGED <<page, locked>>
  /\ UNCHANGED <<logVars, tailVars>>

Receive(c) ==
  /\ filter[c] # Off /\ ch[c] # <<>>
  /\ page' = [page EXCEPT ![c] = Append(@, Head(ch[c]))]
  /\ ch' = [ch EXCEPT ![c] = Tail(ch[c])]
  /\ UNCHANGED <<logVars, tailVars, filter, since, short, locked>>

\* The browser goes away: unsubscribe, which closes the channel.
Disconnect(c) ==
  /\ filter[c] # Off /\ ~locked
  /\ filter' = [filter EXCEPT ![c] = Off]
  /\ ch' = [ch EXCEPT ![c] = <<>>]
  /\ page' = [page EXCEPT ![c] = <<>>]
  /\ since' = [since EXCEPT ![c] = 0]
  /\ short' = short \ {c}
  /\ UNCHANGED <<logVars, tailVars, locked>>

Next ==
  \/ \E k \in Categories : Write(k)
  \/ Rotate
  \/ Open
  \/ OpenFails
  \/ ReadLine
  \/ \E c \in Clients, f \in Filters : Subscribe(c, f)
  \/ \E c \in Clients : Receive(c)
  \/ \E c \in Clients : Disconnect(c)

Spec == Init /\ [][Next]_vars

\* The goroutine polls the file for ever; a client that is not stuck takes what
\* it is sent.
Fairness ==
  /\ WF_vars(Open)
  /\ WF_vars(ReadLine)
  /\ \A c \in Clients \ Stuck : WF_vars(Receive(c))

FairSpec == Spec /\ Fairness

-----------------------------------------------------------------------------
Lines == 1 .. MaxLines

\* Replaying a category never waits for room in the channel: the mutex would
\* stay locked and every stream would stop for good (logs.go 130-142).
NeverBlocksWithLock == ~locked

\* What client c has been sent, read or not.
Sent(c) == page[c] \o ch[c]

\* How many lines of the category of line n come after it, up to line p.
After(w, n, p) == Cardinality({m \in n + 1 .. p : w[m] = w[n]})

\* The lines client c should see: of what it asked for, the latest when it
\* connected, and every line after.
Due(c) ==
  {n \in skipped + 1 .. pos :
     /\ MatchesFilter(written[n], filter[c])
     /\ n > since[c] \/ After(written, n, since[c]) < HistoryPerCategory}

Connected == {c \in Clients : filter[c] # Off}

\* Between the replay and the live lines no line is lost: as long as its channel
\* has had room for every line, a client has been sent the latest lines of its categories
\* when it connected and every line since (logs.go 127-165, 205-220).
PageIsComplete == \A c \in Connected \ short : ToSet(Sent(c)) = Due(c)

\* No line is sent twice, nor one the client did not ask for, and one category
\* comes in the order in which it was written, even to a client that is so slow
\* that lines are dropped.
NoLineTwice ==
  \A c \in Connected :
    /\ Cardinality(ToSet(Sent(c))) = Len(Sent(c))
    /\ ToSet(Sent(c)) \subseteq Due(c)
    /\ filter[c] # All =>
         \A i, j \in 1 .. Len(Sent(c)) : i < j => Sent(c)[i] < Sent(c)[j]

\* A line the goroutine has read but could not put in the channel of c.
Dropped(c, n) == n <= pos /\ n \notin ToSet(Sent(c))

\* "Live-streaming /var/log/messages" (README.md 35): a line written to the file
\* that is tailed, while a client is connected, reaches it unless it disconnects
\* or its own channel is full, whatever the other clients do (logs.go 213-220:
\* nobody waits).
LineReachesReader ==
  \A c \in Clients \ Stuck, n \in Lines :
    (/\ filter[c] # Off /\ held >= n /\ n > since[c]
     /\ tail = "tailing" /\ n > skipped /\ MatchesFilter(written[n], filter[c]))
      ~> (filter[c] = Off \/ n \in ToSet(page[c]) \/ Dropped(c, n))
=============================================================================
