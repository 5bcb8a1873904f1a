---------------------------- MODULE TrafficRates ----------------------------
(***************************************************************************)
(* The sampler of the bandwidth page (internal/system/bandwidth.go and its *)
(* handler): once per tick it reads the byte counters of /proc/net/dev and *)
(* sends the difference to the last reading of every interface.            *)
(*                                                                         *)
(* A counter is an unsigned integer of 64 bits, here modulo Modulus; it    *)
(* starts at zero whenever the interface is created, as ppp0 is at every   *)
(* reconnection.  A sample carries the bytes of its interval; dividing     *)
(* them by its length, and the second counter of an interface, are left    *)
(* out.                                                                    *)
(***************************************************************************)
EXTENDS Integers, FiniteSets, Sequences, SequencesExt

CONSTANTS
  Ifaces,
  Modulus,    \* 2^64
  QueueSize   \* of a subscriber's channel

ASSUME TrafficAssumption ==
  IsFiniteSet(Ifaces) /\ Modulus \in Nat \ {0} /\ QueueSize \in Nat

VARIABLES
  counter,   \* counter[i]: the counter of i, or Absent
  prev,      \* the reading the sampler has kept
  watching,  \* whether the page is subscribed
  queue,     \* its channel
  moved,     \* history: the bytes each interface has moved since the last tick
  fate       \* history: whether at that tick it was "absent", or else is
             \* still the "same", or has been "recreated"

trafficVars == <<counter, prev, watching, queue, moved, fate>>

Absent == -1
Counters == 0 .. Modulus - 1
Nothing == [i \in Ifaces |-> Absent]

Fates == {"absent", "same", "recreated"}
FateAfter(reading) == [i \in Ifaces |-> IF reading[i] = Absent THEN "absent" ELSE "same"]

\* run reads the counters once before its first tick.
Started ==
  /\ prev' = counter
  /\ watching' = FALSE
  /\ queue' = <<>>
  /\ moved' = [i \in Ifaces |-> 0]
  /\ fate' = FateAfter(counter)

TrafficInit ==
  /\ counter \in [Ifaces -> {Absent, 0}]
  /\ prev = counter
  /\ watching = FALSE
  /\ queue = <<>>
  /\ moved = [i \in Ifaces |-> 0]
  /\ fate = FateAfter(counter)

-----------------------------------------------------------------------------
(* The kernel.                                                             *)

\* A byte; less than Modulus of them in an interval.
Moves(i) ==
  /\ counter[i] # Absent
  /\ moved[i] + 1 < Modulus
  /\ counter' = [counter EXCEPT ![i] = (@ + 1) % Modulus]
  /\ moved' = [moved EXCEPT ![i] = @ + 1]
  /\ UNCHANGED <<prev, watching, queue, fate>>

Removed(i) ==
  /\ counter[i] # Absent
  /\ counter' = [counter EXCEPT ![i] = Absent]
  /\ fate' = [fate EXCEPT ![i] = IF @ = "absent" THEN "absent" ELSE "recreated"]
  /\ UNCHANGED <<prev, watching, queue, moved>>

Created(i) ==
  /\ counter[i] = Absent
  /\ counter' = [counter EXCEPT ![i] = 0]
  /\ moved' = [moved EXCEPT ![i] = 0]
  /\ UNCHANGED <<prev, watching, queue, fate>>

-----------------------------------------------------------------------------
(* The sampler.                                                            *)

\* What /proc/net/dev says, or nothing when it cannot be read.
Readings == {counter, Nothing}

Sample(i, reading) ==
  [iface |-> i, bytes |-> (reading[i] - prev[i]) % Modulus, moved |-> moved[i], fate |-> fate[i]]

Samples(reading) ==
  {Sample(i, reading) : i \in {j \in Ifaces : prev[j] # Absent /\ reading[j] # Absent}}

\* A bug: an interface that is gone keeps its last reading.
KeptOfGone(reading) == [i \in Ifaces |-> IF reading[i] = Absent THEN prev[i] ELSE reading[i]]

Kept(reading) == reading

Fitting(samples) ==
  IF Len(samples) <= QueueSize THEN samples ELSE SubSeq(samples, 1, QueueSize)

\* The samples are sent in any order; what does not fit is dropped.
SampleTick(reading) ==
  /\ \E samples \in SetToSeqs(Samples(reading)) :
       queue' = IF watching THEN Fitting(queue \o samples) ELSE queue
  /\ prev' = Kept(reading)
  /\ moved' = [i \in Ifaces |-> 0]
  /\ fate' = FateAfter(reading)
  /\ UNCHANGED <<counter, watching>>

Watch ==
  /\ ~watching
  /\ watching' = TRUE
  /\ UNCHANGED <<counter, prev, queue, moved, fate>>

Unwatch ==
  /\ watching
  /\ watching' = FALSE
  /\ queue' = <<>>
  /\ UNCHANGED <<counter, prev, moved, fate>>

TakeSample ==
  /\ queue # <<>>
  /\ queue' = Tail(queue)
  /\ UNCHANGED <<counter, prev, watching, moved, fate>>

Kernel == \E i \in Ifaces : Removed(i) \/ Created(i) \/ Moves(i)

Sampler ==
  \/ \E reading \in Readings : SampleTick(reading)
  \/ Watch \/ Unwatch \/ TakeSample

\* A new process.
TrafficForgotten == Started /\ UNCHANGED counter

TrafficNext == Kernel \/ Sampler \/ TrafficForgotten

TrafficSpec == TrafficInit /\ [][TrafficNext]_trafficVars

-----------------------------------------------------------------------------
(* Properties.                                                             *)

TrafficTypeOK ==
  /\ counter \in [Ifaces -> {Absent} \cup Counters]
  /\ prev \in [Ifaces -> {Absent} \cup Counters]
  /\ watching \in BOOLEAN
  /\ queue \in Seq([iface : Ifaces, bytes : Counters, moved : Counters, fate : Fates])
  /\ moved \in [Ifaces -> Counters]
  /\ fate \in [Ifaces -> Fates]

\* What the page is sent of an interface is what it has moved since the last
\* tick, through counters that wrap, readings that fail and interfaces that come
\* and go, unless it was removed and created again between two ticks
\* (bandwidth.go 78-93: then the difference of the counters means nothing).
RatesAreTraffic ==
  \A k \in DOMAIN queue :
    /\ queue[k].fate # "absent"
    /\ queue[k].fate = "same" => queue[k].bytes = queue[k].moved
=============================================================================
