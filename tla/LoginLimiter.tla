---------------------------- MODULE LoginLimiter ----------------------------
(***************************************************************************)
(* The limiter of login attempts (internal/middleware/ratelimit.go): a     *)
(* fixed window per address, opened by the first attempt after the last    *)
(* one is over.  The clock is read before the mutex is locked.             *)
(***************************************************************************)
EXTENDS Integers, Sequences

CONSTANTS
  Hosts,      \* source addresses
  Attempts,   \* slots for login requests in flight
  Limit, Window,
  MaxDelay,   \* between the reading of the clock and the mutex
  MaxClock

ASSUME LimiterAssumption ==
  Limit \in Nat \ {0} /\ Window \in Nat /\ MaxDelay \in Nat /\ MaxClock \in Nat

VARIABLES
  clock,     \* the monotonic clock
  bucket,    \* bucket[h]: the attempts counted and the end of the window
  attempt,   \* attempt[a]: where it is, from which host, and its reading
  passed     \* history: passed[h], the moments at which h was let through

limiterVars == <<clock, bucket, attempt, passed>>

\* A host without a bucket is like one whose window is over.
NoBucket == [count |-> 0, reset |-> -1]
Freed(t) == [t EXCEPT !.at = "idle", !.read = 0]

LimiterInit ==
  /\ clock = 0
  /\ bucket = [h \in Hosts |-> NoBucket]
  /\ attempt \in [Attempts -> [at : {"idle"}, host : Hosts, read : {0}]]
  /\ passed = [h \in Hosts |-> <<>>]

ClockTicks ==
  /\ clock < MaxClock
  /\ \A a \in Attempts : attempt[a].at = "allow" => clock < attempt[a].read + MaxDelay
  /\ clock' = clock + 1
  /\ UNCHANGED <<bucket, attempt, passed>>

\* allow reads the clock.
Arrives(a, h) ==
  /\ attempt[a].at = "idle"
  /\ attempt' = [attempt EXCEPT ![a] = [at |-> "allow", host |-> h, read |-> clock]]
  /\ UNCHANGED <<clock, bucket, passed>>

\* A bug: one attempt too many.
FullLate(b) == b.count > Limit

Full(b) == b.count >= Limit

\* The rest of allow, with the mutex locked.
Lets(a, through) ==
  /\ attempt[a].at = "allow"
  /\ attempt' = [attempt EXCEPT ![a] = IF through THEN [@ EXCEPT !.at = "login"] ELSE Freed(@)]
  /\ LET h == attempt[a].host
     IN  passed' = IF through THEN [passed EXCEPT ![h] = Append(@, clock)] ELSE passed
  /\ UNCHANGED clock

WindowOver(a) == attempt[a].read > bucket[attempt[a].host].reset

OpensBucket(a) ==
  /\ WindowOver(a)
  /\ Lets(a, TRUE)
  /\ bucket' = [bucket EXCEPT ![attempt[a].host] = [count |-> 1, reset |-> attempt[a].read + Window]]

Counted(a) ==
  /\ ~WindowOver(a) /\ ~Full(bucket[attempt[a].host])
  /\ Lets(a, TRUE)
  /\ bucket' = [bucket EXCEPT ![attempt[a].host].count = @ + 1]

TooMany(a) ==
  /\ ~WindowOver(a) /\ Full(bucket[attempt[a].host])
  /\ Lets(a, FALSE)
  /\ UNCHANGED bucket

\* The login handler has answered.
Answered(a) ==
  /\ attempt[a].at = "login"
  /\ attempt' = [attempt EXCEPT ![a] = Freed(@)]
  /\ UNCHANGED <<clock, bucket, passed>>

\* A new process knows no buckets.
LimiterForgotten ==
  /\ bucket' = [h \in Hosts |-> NoBucket]
  /\ attempt' = [a \in Attempts |-> Freed(attempt[a])]
  /\ passed' = [h \in Hosts |-> <<>>]
  /\ UNCHANGED clock

Allow(a) == OpensBucket(a) \/ Counted(a) \/ TooMany(a)

LimiterNext ==
  \/ ClockTicks \/ LimiterForgotten
  \/ \E a \in Attempts : Allow(a) \/ Answered(a) \/ \E h \in Hosts : Arrives(a, h)

LimiterSpec == LimiterInit /\ [][LimiterNext]_limiterVars

-----------------------------------------------------------------------------
(* Properties.                                                             *)

LimiterTypeOK ==
  /\ clock \in Nat
  /\ bucket \in [Hosts -> [count : Nat, reset : Int]]
  /\ attempt \in [Attempts -> [at : {"idle", "allow", "login"}, host : Hosts, read : Nat]]
  /\ passed \in [Hosts -> Seq(Nat)]

\* Of 2 * Limit + 1 attempts that a host is let through, one after the other, the
\* last comes more than a window after the first, give or take the delay of one
\* attempt: a fixed window lets twice the limit through around its end, and
\* readings that reach the mutex late, or out of order, add no third one
\* (ratelimit.go 48-63; its comment at 22 promises the limit per window).
AttemptsBounded ==
  \A h \in Hosts : \A k \in DOMAIN passed[h] :
    k + 2 * Limit \in DOMAIN passed[h] => passed[h][k] + Window < passed[h][k + 2 * Limit] + MaxDelay
=============================================================================
