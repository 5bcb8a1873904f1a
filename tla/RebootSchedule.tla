--------------------------- MODULE RebootSchedule ---------------------------
(***************************************************************************)
(* The daily reboot: the row the HTTP handlers write, the one-slot channel *)
(* they wake the watch loop with, and the loop that arms a timer for it    *)
(* (internal/system/reboot.go, internal/handler/system.go, cmd/main.go).   *)
(*                                                                         *)
(* Every HTTP request runs in a goroutine of its own, so a handler is cut  *)
(* at each access to the row or the channel.  Time is abstracted: an armed *)
(* timer may expire at any moment.                                         *)
(***************************************************************************)
EXTENDS Naturals, FiniteSets

CONSTANTS
  Requests,     \* slots for HTTP requests in flight
  Times,        \* the valid HH:MM values
  NoTime,       \* no row, or no timer
  ReadError,    \* what the loop holds after a query that failed
  RebootFails,  \* whether the reboot command may fail
  ReadFails     \* whether the loop's query may fail (SQLITE_BUSY, ...)

ASSUME TimesAssumption == {NoTime, ReadError} \cap Times = {} /\ NoTime # ReadError
ASSUME FlagsAssumption == {RebootFails, ReadFails} \subseteq BOOLEAN

VARIABLES
  schedule,  \* time_of_day of the row scheduled_reboot, or NoTime
  wake,      \* messages in resetCh, a channel of capacity 1
  loop,      \* where RebootWatchLoop is
  armed,     \* tod in RebootWatchLoop, the time its timer is set for
  request,   \* where each handler is
  power      \* "down" once a reboot command has succeeded

vars == <<schedule, wake, loop, armed, request, power>>

TypeOK ==
  /\ schedule \in Times \cup {NoTime}
  /\ wake \in 0..1
  /\ loop \in {"read", "got", "parked", "armed", "firing", "exited"}
  /\ armed \in Times \cup {NoTime, ReadError}
  /\ request \in [Requests -> {"idle", "saved", "cancelling"}]
  /\ power \in {"up", "down"}

Init ==
  /\ schedule \in Times \cup {NoTime}
  /\ wake = 0
  /\ loop = "read"
  /\ armed = NoTime
  /\ request = [r \in Requests |-> "idle"]
  /\ power = "up"

Waiting == loop \in {"parked", "armed"}

-----------------------------------------------------------------------------
(* Plausible bugs, for the sensitivity of the properties below.            *)

SendUnbuffered == wake' = IF Waiting THEN 1 ELSE wake

RebootIfReplaced ==
  /\ loop = "firing"
  /\ IF armed # schedule THEN power' = "down" /\ loop' = "exited"
                         ELSE power' = power /\ loop' = "read"
  /\ UNCHANGED <<schedule, wake, armed, request>>

-----------------------------------------------------------------------------
(* The handlers.  A save the database refuses changes nothing and is left  *)
(* out; a delete it refuses comes after the wake-up.                       *)

\* select { case rebootCh <- struct{}{}: default: }
Send == wake' = 1

Schedule(r, t) ==
  /\ request[r] = "idle"
  /\ schedule' = t
  /\ request' = [request EXCEPT ![r] = "saved"]
  /\ UNCHANGED <<wake, loop, armed, power>>

ScheduleSignals(r) ==
  /\ request[r] = "saved"
  /\ Send
  /\ request' = [request EXCEPT ![r] = "idle"]
  /\ UNCHANGED <<schedule, loop, armed, power>>

\* cancelSchedule wakes the loop first and deletes the row afterwards.
CancelSignals(r) ==
  /\ request[r] = "idle"
  /\ Send
  /\ request' = [request EXCEPT ![r] = "cancelling"]
  /\ UNCHANGED <<schedule, loop, armed, power>>

CancelDeletes(r) ==
  /\ request[r] = "cancelling"
  /\ schedule' \in {NoTime, schedule}
  /\ request' = [request EXCEPT ![r] = "idle"]
  /\ UNCHANGED <<wake, loop, armed, power>>

\* The "reboot now" button: go system.ExecuteReboot().
ManualReboot ==
  /\ power' = "down"
  /\ UNCHANGED <<schedule, wake, loop, armed, request>>

-----------------------------------------------------------------------------
(* RebootWatchLoop.                                                        *)

ReadSchedule ==
  /\ loop = "read"
  /\ loop' = "got"
  /\ armed' \in {schedule} \cup (IF ReadFails THEN {ReadError} ELSE {})
  /\ UNCHANGED <<schedule, wake, request, power>>

\* A failed query and an absent row are treated alike: wait for resetCh alone.
Wait ==
  /\ loop = "got"
  /\ loop' = IF armed \in Times THEN "armed" ELSE "parked"
  /\ UNCHANGED <<schedule, wake, armed, request, power>>

WakeUp ==
  /\ Waiting
  /\ wake = 1
  /\ wake' = 0
  /\ loop' = "read"
  /\ armed' = NoTime
  /\ UNCHANGED <<schedule, request, power>>

\* select chooses freely when the timer and resetCh are both ready.
TimerFires ==
  /\ loop = "armed"
  /\ loop' = "firing"
  /\ UNCHANGED <<schedule, wake, armed, request, power>>

\* The error of ExecuteReboot is dropped and the loop returns either way.
LoopReboots ==
  /\ loop = "firing"
  /\ power' \in {"down"} \cup (IF RebootFails THEN {power} ELSE {})
  /\ loop' = "exited"
  /\ UNCHANGED <<schedule, wake, armed, request>>

\* The service starts again: the machine booted, the updater restarted it, or
\* it crashed.  Only the database survives.
Restart ==
  /\ wake' = 0
  /\ loop' = "read"
  /\ armed' = NoTime
  /\ request' = [r \in Requests |-> "idle"]
  /\ power' = "up"
  /\ UNCHANGED schedule

Handler(r) == ScheduleSignals(r) \/ CancelDeletes(r)
LoopStep   == ReadSchedule \/ Wait \/ WakeUp \/ LoopReboots

Next ==
  \/ \E r \in Requests, t \in Times : Schedule(r, t)
  \/ \E r \in Requests : ScheduleSignals(r)
  \/ \E r \in Requests : CancelSignals(r)
  \/ \E r \in Requests : CancelDeletes(r)
  \/ ManualReboot
  \/ ReadSchedule
  \/ Wait
  \/ WakeUp
  \/ TimerFires
  \/ LoopReboots
  \/ Restart

Spec == Init /\ [][Next]_vars

(***************************************************************************)
(* Goroutines are scheduled and a machine told to reboot comes back.  The  *)
(* timer needs strong fairness: a wake-up or a restart stops it, but the   *)
(* loop re-arms it for the same wall-clock moment, so they do not put it   *)
(* off for ever; nor does a restart always strike between the query and    *)
(* the wait, or between the expiry of the timer and the reboot command.    *)
(***************************************************************************)
Fairness ==
  /\ \A r \in Requests : WF_vars(Handler(r))
  /\ WF_vars(LoopStep)
  /\ SF_vars(Wait) /\ SF_vars(TimerFires) /\ SF_vars(LoopReboots)
  /\ WF_vars(power = "down" /\ Restart)

FairSpec == Spec /\ Fairness

-----------------------------------------------------------------------------
(* Properties.                                                             *)

SavePending == wake = 1 \/ \E r \in Requests : request[r] = "saved"

\* A schedule the user saved is never missed: when the loop waits, or is about to
\* wait, for another time than the saved one, a wake-up is in the channel or its
\* handler is about to send it, however the handlers interleave with the loop.
NoLostSave ==
  /\ loop \in {"got", "parked", "armed"}
  /\ schedule # NoTime /\ armed \notin {ReadError, schedule}
  => SavePending

\* A saved time is due to be armed, unless the loop is parked by a query that failed
\* and nobody is about to wake it (reboot.go:53).
Due(t) == schedule = t /\ (armed = ReadError => SavePending)

\* The loop gives up when its query fails, until the next save, and when the reboot
\* command does, until the service starts again (reboot.go:68).
GaveUp == (loop = "got" /\ armed = ReadError) \/ (loop = "exited" /\ power = "up")

\* A saved time is eventually the one the loop's timer is set for, unless another one
\* replaces it or the loop gives up, through restarts and concurrent requests; a save
\* that finds the loop parked by a failed query wakes it.
SavedIsArmed ==
  \A t \in Times : Due(t) ~> (schedule # t \/ (loop = "armed" /\ armed = t) \/ GaveUp)

\* A schedule nobody changes makes the machine reboot, unless the loop gives up.
ScheduledRebootHappens ==
  \A t \in Times : Due(t) ~> (schedule # t \/ power = "down" \/ GaveUp)

\* reboot.go:48 says the channel is written after saving or canceling: then
\* once no request is in flight and no wake-up is pending, the loop waits for
\* what the row says.
InSyncWhenQuiet ==
  Waiting /\ wake = 0 /\ (\A r \in Requests : request[r] = "idle")
    => armed \in {schedule, ReadError}
=============================================================================
