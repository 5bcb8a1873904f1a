--------------------------- MODULE WebServer_proofs ---------------------------
(***************************************************************************)
(* AttemptsBounded and ValidExactly for any number of hosts, attempts and  *)
(* sessions, any limit, window, delay and TTL; NeverBackInTime and         *)
(* RatesAreTraffic for any number of sources, requests, interfaces and any *)
(* capacity; and that every behaviour of the process is one of each of its *)
(* parts, so that what is proved of a part is true of the process through  *)
(* crashes and restarts.                                                   *)
(***************************************************************************)
EXTENDS WebServer, FiniteSetTheorems, TLAPS

-----------------------------------------------------------------------------
(* The limiter.  A window begins with the attempt that opens its bucket:   *)
(* its moment is the reading it was opened with, or up to MaxDelay later.  *)
(* Two beginnings are at most Limit attempts apart, and the reading of the *)
(* later one is beyond the end of the earlier one's window.                *)

\* The attempts of b, the bucket of a host let through at the moments P: the
\* place of the first, when it was, and how long before it those were that are
\* Limit or more places further ahead.
First(P, b) == Len(P) - b.count + 1

WindowKept(P, b) ==
  /\ b.count <= Limit
  /\ First(P, b) \in 1 .. Len(P)
  /\ P[First(P, b)] + Window <= b.reset + MaxDelay
  /\ \A i \in 1 .. Len(P) :
       i + Limit <= First(P, b) => P[i] + Window < P[First(P, b)] + MaxDelay

Spread(P) ==
  \A k \in 1 .. Len(P) : k + 2 * Limit <= Len(P) => P[k] + Window < P[k + 2 * Limit] + MaxDelay

HostKept(P, b, now) ==
  /\ \A k \in 1 .. Len(P) : P[k] <= now
  /\ \A j, k \in 1 .. Len(P) : j <= k => P[j] <= P[k]
  /\ b.count = 0 => P = <<>> /\ b.reset = -1
  /\ b.count > 0 => WindowKept(P, b)
  /\ Spread(P)

LimiterInv ==
  /\ LimiterTypeOK
  /\ \A a \in Attempts :
       attempt[a].at = "allow" => attempt[a].read <= clock /\ clock <= attempt[a].read + MaxDelay
  /\ \A h \in Hosts : HostKept(passed[h], bucket[h], clock)

\* What appending does to a sequence, place by place.
LEMMA Appended ==
  ASSUME NEW P \in Seq(Nat), NEW t \in Nat
  PROVE  /\ Append(P, t) \in Seq(Nat)
         /\ Len(Append(P, t)) = Len(P) + 1
         /\ \A i \in 1 .. Len(P) : Append(P, t)[i] = P[i]
         /\ Append(P, t)[Len(P) + 1] = t
OBVIOUS

\* Moments p and f of one window that ends at r, a reading beyond it, a moment now.
LEMMA Later ==
  ASSUME NEW p \in Int, NEW f \in Int, NEW r \in Int, NEW read \in Int, NEW now \in Int,
         p <= f, f + Window <= r + MaxDelay, r < read, read <= now
  PROVE  p + Window < now + MaxDelay
BY LimiterAssumption DEF LimiterAssumption

\* An attempt that opens a bucket keeps the host's invariant.
LEMMA OpeningKeeps ==
  ASSUME NEW P \in Seq(Nat), NEW b \in [count : Nat, reset : Int], NEW now \in Nat,
         NEW read \in Nat, HostKept(P, b, now), read <= now, now <= read + MaxDelay,
         read > b.reset
  PROVE  HostKept(Append(P, now), [count |-> 1, reset |-> read + Window], now)
<1> DEFINE Q == Append(P, now)
           n == Len(P)
           new == [count |-> 1, reset |-> read + Window]
<1> USE LimiterAssumption DEF LimiterAssumption
<1>1. /\ Q \in Seq(Nat) /\ Len(Q) = n + 1 /\ Q[n + 1] = now
      /\ \A i \in 1 .. n : Q[i] = P[i] /\ P[i] \in Nat
      /\ n \in Nat
  BY Appended
<1>2. /\ \A k \in 1 .. n : P[k] <= now
      /\ \A j, k \in 1 .. n : j <= k => P[j] <= P[k]
      /\ b.count = 0 => n = 0
      /\ b.count > 0 => WindowKept(P, b)
      /\ Spread(P)
  BY DEF HostKept
<1> HIDE DEF Q, n
<1>3. First(Q, new) = n + 1
  BY <1>1 DEF First
<1>4. \A i \in 1 .. n : i + Limit <= n + 1 => P[i] + Window < now + MaxDelay
  <2> SUFFICES ASSUME NEW i \in 1 .. n, i + Limit <= n + 1 PROVE P[i] + Window < now + MaxDelay
    OBVIOUS
  <2>1. b.count \in Nat /\ b.count > 0 /\ b.reset \in Int
    BY <1>1, <1>2
  <2>2. /\ First(P, b) \in 1 .. n /\ b.count <= Limit
        /\ P[First(P, b)] + Window <= b.reset + MaxDelay
        /\ First(P, b) = n - b.count + 1
    BY <1>2, <2>1 DEF WindowKept, First, n
  <2>3. i <= First(P, b)
    BY <1>1, <2>1, <2>2
  <2>4. P[i] <= P[First(P, b)]
    BY <1>2, <2>2, <2>3
  <2>5. P[i] \in Nat /\ P[First(P, b)] \in Nat
    BY <1>1, <2>2
  <2> DEFINE p == P[i]
             f == P[First(P, b)]
             r == b.reset
  <2>6. p \in Int /\ f \in Int /\ r \in Int /\ p <= f /\ f + Window <= r + MaxDelay /\ r < read
    BY SMTT(20), <2>1, <2>2, <2>4, <2>5
  <2> HIDE DEF p, f, r
  <2>7. p + Window < now + MaxDelay
    BY <2>6, Later
  <2> QED BY <2>7 DEF p
<1>5. WindowKept(Q, new)
  <2>1. /\ new.count <= Limit /\ First(Q, new) \in 1 .. Len(Q)
        /\ Q[First(Q, new)] + Window <= new.reset + MaxDelay
    BY <1>1, <1>3
  <2>2. ASSUME NEW i \in 1 .. Len(Q), i + Limit <= n + 1
        PROVE  Q[i] + Window < now + MaxDelay
    <3>1. i \in 1 .. n
      BY <1>1, <2>2
    <3> QED BY <1>1, <1>4, <2>2, <3>1
  <2> QED BY <1>1, <1>3, <2>1, <2>2 DEF WindowKept
<1>6. Spread(Q)
  <2> SUFFICES ASSUME NEW k \in 1 .. Len(Q), k + 2 * Limit <= Len(Q)
               PROVE  Q[k] + Window < Q[k + 2 * Limit] + MaxDelay
    BY DEF Spread
  <2>1. k \in 1 .. n
    BY <1>1
  <2>2. CASE k + 2 * Limit = n + 1
    <3>1. k + Limit <= n + 1
      BY <1>1, <2>2
    <3> QED BY <1>1, <1>4, <2>1, <2>2, <3>1
  <2>3. CASE k + 2 * Limit # n + 1
    <3>1. k + 2 * Limit \in 1 .. n
      BY <1>1, <2>1, <2>3
    <3>2. P[k] + Window < P[k + 2 * Limit] + MaxDelay
      BY <1>2, <2>1, <3>1 DEF Spread, n
    <3>3. Q[k] = P[k] /\ Q[k + 2 * Limit] = P[k + 2 * Limit]
      BY <1>1, <2>1, <3>1
    <3> QED BY <3>2, <3>3
  <2> QED BY <2>2, <2>3
<1>7. \A k \in 1 .. Len(Q) : Q[k] <= now
  <2> SUFFICES ASSUME NEW k \in 1 .. Len(Q) PROVE Q[k] <= now
    OBVIOUS
  <2>1. CASE k = n + 1
    BY <1>1, <2>1
  <2>2. CASE k # n + 1
    <3>1. k \in 1 .. n
      BY <1>1, <2>2
    <3> QED BY <1>1, <1>2, <3>1
  <2> QED BY <2>1, <2>2
<1>8. \A j, k \in 1 .. Len(Q) : j <= k => Q[j] <= Q[k]
  <2> SUFFICES ASSUME NEW j \in 1 .. Len(Q), NEW k \in 1 .. Len(Q), j <= k PROVE Q[j] <= Q[k]
    OBVIOUS
  <2>1. CASE k = n + 1
    BY <1>1, <1>7, <2>1
  <2>2. CASE k # n + 1
    <3>1. j \in 1 .. n /\ k \in 1 .. n
      BY <1>1, <2>2
    <3>2. Q[j] = P[j] /\ Q[k] = P[k] /\ P[j] <= P[k]
      BY <1>1, <1>2, <3>1
    <3> QED BY <3>2
  <2> QED BY <2>1, <2>2
<1> QED BY SMTT(20), <1>5, <1>6, <1>7, <1>8 DEF HostKept, Q

\* An attempt that is counted in its bucket does, too.
LEMMA CountingKeeps ==
  ASSUME NEW P \in Seq(Nat), NEW b \in [count : Nat, reset : Int], NEW now \in Nat,
         NEW c \in [count : Nat, reset : Int], c.count = b.count + 1, c.reset = b.reset,
         HostKept(P, b, now), b.count > 0, b.count < Limit
  PROVE  HostKept(Append(P, now), c, now)
<1> DEFINE Q == Append(P, now)
           n == Len(P)
           f == First(P, b)
<1> USE LimiterAssumption DEF LimiterAssumption
<1>1. /\ Q \in Seq(Nat) /\ Len(Q) = n + 1 /\ Q[n + 1] = now
      /\ \A i \in 1 .. n : Q[i] = P[i] /\ P[i] \in Nat
      /\ n \in Nat
  BY Appended
<1>2. /\ \A k \in 1 .. n : P[k] <= now
      /\ \A j, k \in 1 .. n : j <= k => P[j] <= P[k]
      /\ Spread(P)
  BY DEF HostKept
<1>3. /\ f \in 1 .. n /\ f = n - b.count + 1
      /\ P[f] + Window <= b.reset + MaxDelay
      /\ \A i \in 1 .. n : i + Limit <= f => P[i] + Window < P[f] + MaxDelay
  BY DEF HostKept, WindowKept, First
<1>4. First(Q, c) = f
  BY <1>1, <1>3 DEF First
<1> HIDE DEF Q, n, f
<1>5. WindowKept(Q, c)
  <2>1. c.count <= Limit
    OBVIOUS
  <2>5. f \in 1 .. Len(Q)
    BY <1>1, <1>3
  <2>3. Q[f] = P[f]
    BY <1>1, <1>3
  <2>4. Q[f] + Window <= c.reset + MaxDelay
    BY <1>3, <2>3
  <2>2. ASSUME NEW i \in 1 .. Len(Q), i + Limit <= f PROVE Q[i] + Window < Q[f] + MaxDelay
    <3>1. i \in 1 .. n
      BY <1>1, <1>3, <2>2
    <3>2. Q[i] = P[i] /\ P[i] + Window < P[f] + MaxDelay
      BY <1>1, <1>3, <2>2, <3>1
    <3> QED BY <2>3, <3>2
  <2> QED BY <1>4, <2>1, <2>2, <2>4, <2>5 DEF WindowKept
<1>6. Spread(Q)
  <2> SUFFICES ASSUME NEW k \in 1 .. Len(Q), k + 2 * Limit <= Len(Q)
               PROVE  Q[k] + Window < Q[k + 2 * Limit] + MaxDelay
    BY DEF Spread
  <2>1. k \in 1 .. n
    BY <1>1
  <2>2. CASE k + 2 * Limit = n + 1
    <3>1. k + Limit <= f
      BY <1>1, <1>3, <2>2
    <3>2. P[k] + Window < P[f] + MaxDelay
      BY <1>3, <2>1, <3>1
    <3>3. P[f] <= now /\ P[f] \in Nat /\ P[k] \in Nat
      BY <1>1, <1>2, <1>3, <2>1
    <3> DEFINE p == P[k]
               at == P[f]
    <3> HIDE DEF p, at
    <3>6. p \in Nat /\ at \in Nat /\ p + Window < at + MaxDelay /\ at <= now
      BY <3>2, <3>3 DEF p, at
    <3>7. p + Window < now + MaxDelay
      BY <3>6
    <3>4. P[k] + Window < now + MaxDelay
      BY <3>7 DEF p
    <3>5. Q[k] = P[k] /\ Q[k + 2 * Limit] = now
      BY <1>1, <2>1, <2>2
    <3> QED BY <3>4, <3>5
  <2>3. CASE k + 2 * Limit # n + 1
    <3>1. k + 2 * Limit \in 1 .. n
      BY <1>1, <2>1, <2>3
    <3>2. P[k] + Window < P[k + 2 * Limit] + MaxDelay
      BY <1>2, <2>1, <3>1 DEF Spread, n
    <3>3. Q[k] = P[k] /\ Q[k + 2 * Limit] = P[k + 2 * Limit]
      BY <1>1, <2>1, <3>1
    <3> QED BY <3>2, <3>3
  <2> QED BY <2>2, <2>3
<1>7. \A k \in 1 .. Len(Q) : Q[k] <= now
  <2> SUFFICES ASSUME NEW k \in 1 .. Len(Q) PROVE Q[k] <= now
    OBVIOUS
  <2>1. CASE k = n + 1
    BY <1>1, <2>1
  <2>2. CASE k # n + 1
    <3>1. k \in 1 .. n
      BY <1>1, <2>2
    <3> QED BY <1>1, <1>2, <3>1
  <2> QED BY <2>1, <2>2
<1>8. \A j, k \in 1 .. Len(Q) : j <= k => Q[j] <= Q[k]
  <2> SUFFICES ASSUME NEW j \in 1 .. Len(Q), NEW k \in 1 .. Len(Q), j <= k PROVE Q[j] <= Q[k]
    OBVIOUS
  <2>1. CASE k = n + 1
    BY <1>1, <1>7, <2>1
  <2>2. CASE k # n + 1
    <3>1. j \in 1 .. n /\ k \in 1 .. n
      BY <1>1, <2>2
    <3>2. Q[j] = P[j] /\ Q[k] = P[k] /\ P[j] <= P[k]
      BY <1>1, <1>2, <3>1
    <3> QED BY <3>2
  <2> QED BY <2>1, <2>2
<1> QED BY <1>5, <1>6, <1>7, <1>8 DEF HostKept, Q

\* A host that has not been let through.
LEMMA NobodyKept ==
  ASSUME NEW now PROVE HostKept(<<>>, NoBucket, now)
<1>1. NoBucket.count = 0 /\ NoBucket.reset = -1
  BY DEF NoBucket
<1>2. Len(<<>>) = 0
  OBVIOUS
<1>3. \A k \in 1 .. Len(<<>>) : FALSE
  BY <1>2
<1>4. ~(NoBucket.count > 0)
  BY <1>1
<1> QED BY <1>1, <1>3, <1>4 DEF HostKept, Spread

\* A slot that is free again.
LEMMA FreedIsIdle ==
  ASSUME NEW t \in [at : {"idle", "allow", "login"}, host : Hosts, read : Nat]
  PROVE  /\ Freed(t) \in [at : {"idle", "allow", "login"}, host : Hosts, read : Nat]
         /\ Freed(t).at = "idle"
BY DEF Freed

LEMMA LimiterInitially == LimiterInit => LimiterInv
<1> SUFFICES ASSUME LimiterInit PROVE LimiterInv
  OBVIOUS
<1>1. LimiterTypeOK
  BY DEF LimiterInit, LimiterTypeOK, NoBucket
<1>2. \A h \in Hosts : HostKept(passed[h], bucket[h], clock)
  <2> SUFFICES ASSUME NEW h \in Hosts PROVE HostKept(passed[h], bucket[h], clock)
    OBVIOUS
  <2>1. passed[h] = <<>> /\ bucket[h] = NoBucket
    BY DEF LimiterInit
  <2> QED BY <2>1, NobodyKept
<1>3. \A a \in Attempts : attempt[a].at # "allow"
  BY DEF LimiterInit
<1> QED BY <1>1, <1>2, <1>3 DEF LimiterInv

\* Time that passes keeps the invariant of a host.
LEMMA TickKeeps ==
  ASSUME NEW P \in Seq(Nat), NEW b, NEW now \in Nat, HostKept(P, b, now)
  PROVE  HostKept(P, b, now + 1)
<1>1. \A k \in 1 .. Len(P) : P[k] \in Nat /\ P[k] <= now
  BY DEF HostKept
<1>2. \A k \in 1 .. Len(P) : P[k] <= now + 1
  BY <1>1
<1> QED BY <1>2 DEF HostKept

\* The steps of allow, one host's bucket and moments at a time.
LEMMA AllowKeeps ==
  ASSUME LimiterInv, NEW a \in Attempts, Allow(a)
  PROVE  LimiterInv'
<1> DEFINE h == attempt[a].host
           read == attempt[a].read
<1> USE DEF LimiterInv, LimiterTypeOK
<1>1. /\ attempt[a].at = "allow" /\ h \in Hosts /\ read \in Nat
      /\ read <= clock /\ clock <= read + MaxDelay
  BY DEF Allow, OpensBucket, Counted, TooMany, Lets
<1>2. /\ clock' = clock /\ clock \in Nat
      /\ passed[h] \in Seq(Nat) /\ bucket[h] \in [count : Nat, reset : Int]
      /\ HostKept(passed[h], bucket[h], clock)
  BY <1>1 DEF Allow, OpensBucket, Counted, TooMany, Lets
<1>3. /\ attempt' \in [Attempts -> [at : {"idle", "allow", "login"}, host : Hosts, read : Nat]]
      /\ \A c \in Attempts : attempt'[c].at = "allow" => attempt'[c] = attempt[c]
  <2>1. attempt \in [Attempts -> [at : {"idle", "allow", "login"}, host : Hosts, read : Nat]]
    OBVIOUS
  <2>2. PICK new \in [at : {"idle", "allow", "login"}, host : Hosts, read : Nat] :
          attempt' = [attempt EXCEPT ![a] = new] /\ new.at # "allow"
    <3>1. Freed(attempt[a]) \in [at : {"idle", "allow", "login"}, host : Hosts, read : Nat]
          /\ Freed(attempt[a]).at = "idle"
      BY <2>1, FreedIsIdle
    <3>2. CASE TooMany(a)
      BY <3>1, <3>2 DEF TooMany, Lets
    <3>3. CASE OpensBucket(a) \/ Counted(a)
      <4>1. attempt' = [attempt EXCEPT ![a] = [@ EXCEPT !.at = "login"]]
        BY <3>3 DEF OpensBucket, Counted, Lets
      <4>2. [attempt[a] EXCEPT !.at = "login"]
              \in [at : {"idle", "allow", "login"}, host : Hosts, read : Nat]
            /\ [attempt[a] EXCEPT !.at = "login"].at = "login"
        BY <2>1
      <4> QED BY <4>1, <4>2
    <3> QED BY <3>2, <3>3 DEF Allow
  <2> HIDE DEF LimiterInv
  <2> QED BY <2>1, <2>2
<1>4. \A c \in Attempts :
        attempt'[c].at = "allow" => attempt'[c].read <= clock' /\ clock' <= attempt'[c].read + MaxDelay
  BY <1>2, <1>3
<1>5. SUFFICES /\ passed' \in [Hosts -> Seq(Nat)]
               /\ bucket' \in [Hosts -> [count : Nat, reset : Int]]
               /\ \A g \in Hosts : HostKept(passed'[g], bucket'[g], clock')
  BY <1>2, <1>3, <1>4
<1> HIDE DEF LimiterInv
<1>6. CASE TooMany(a)
  BY <1>6, <1>2 DEF TooMany, Lets, LimiterInv
<1>7. ASSUME NEW new \in [count : Nat, reset : Int],
             passed' = [passed EXCEPT ![h] = Append(@, clock)],
             bucket' = [bucket EXCEPT ![h] = new],
             HostKept(Append(passed[h], clock), new, clock)
      PROVE  /\ passed' \in [Hosts -> Seq(Nat)]
             /\ bucket' \in [Hosts -> [count : Nat, reset : Int]]
             /\ \A g \in Hosts : HostKept(passed'[g], bucket'[g], clock')
  <2>1. /\ passed \in [Hosts -> Seq(Nat)] /\ bucket \in [Hosts -> [count : Nat, reset : Int]]
        /\ \A g \in Hosts : HostKept(passed[g], bucket[g], clock)
    BY DEF LimiterInv
  <2>2. Append(passed[h], clock) \in Seq(Nat)
    BY <1>2, Appended
  <2>3. /\ passed' \in [Hosts -> Seq(Nat)]
        /\ bucket' \in [Hosts -> [count : Nat, reset : Int]]
    BY <1>1, <1>7, <2>1, <2>2
  <2>4. ASSUME NEW g \in Hosts PROVE HostKept(passed'[g], bucket'[g], clock')
    <3>1. CASE g = h
      BY <1>1, <1>2, <1>7, <2>1, <3>1
    <3>2. CASE g # h
      BY <1>1, <1>2, <1>7, <2>1, <3>2
    <3> QED BY <3>1, <3>2
  <2> QED BY <2>3, <2>4
<1>8. CASE OpensBucket(a)
  <2> DEFINE new == [count |-> 1, reset |-> read + Window]
  <2>1. new \in [count : Nat, reset : Int]
    BY <1>1, LimiterAssumption DEF LimiterAssumption
  <2>2. /\ passed' = [passed EXCEPT ![h] = Append(@, clock)]
        /\ bucket' = [bucket EXCEPT ![h] = new]
        /\ read > bucket[h].reset
    BY <1>8 DEF OpensBucket, Lets, WindowOver
  <2>3. HostKept(Append(passed[h], clock), new, clock)
    BY <1>1, <1>2, <2>2, OpeningKeeps
  <2> QED BY <1>7, <2>1, <2>2, <2>3
<1>9. CASE Counted(a)
  <2> DEFINE new == [bucket[h] EXCEPT !.count = @ + 1]
  <2>1. /\ passed' = [passed EXCEPT ![h] = Append(@, clock)]
        /\ bucket' = [bucket EXCEPT ![h].count = @ + 1]
        /\ ~(read > bucket[h].reset) /\ ~(bucket[h].count >= Limit)
    BY <1>9 DEF Counted, Lets, WindowOver, Full
  <2>2. bucket' = [bucket EXCEPT ![h] = new]
    BY <2>1
  <2>3. /\ new \in [count : Nat, reset : Int]
        /\ new.count = bucket[h].count + 1 /\ new.reset = bucket[h].reset
    BY <1>2
  <2>4. bucket[h].count \in Nat /\ bucket[h].reset \in Int
    BY <1>2
  <2>5. bucket[h].count > 0
    BY <1>1, <1>2, <2>1, <2>4 DEF HostKept
  <2>6. bucket[h].count < Limit
    BY <2>1, <2>4, LimiterAssumption DEF LimiterAssumption
  <2> HIDE DEF new
  <2>7. HostKept(Append(passed[h], clock), new, clock)
    BY <1>2, <2>3, <2>5, <2>6, CountingKeeps
  <2> QED BY <1>7, <2>1, <2>2, <2>3, <2>7
<1> QED BY <1>6, <1>8, <1>9 DEF Allow

LEMMA LimiterStep == LimiterInv /\ [LimiterNext]_limiterVars => LimiterInv'
<1> SUFFICES ASSUME LimiterInv, [LimiterNext]_limiterVars PROVE LimiterInv'
  OBVIOUS
<1>1. ASSUME ClockTicks PROVE LimiterInv'
  <2>1. LimiterTypeOK'
    BY <1>1 DEF ClockTicks, LimiterInv, LimiterTypeOK
  <2>2. \A h \in Hosts : HostKept(passed'[h], bucket'[h], clock')
    <3> SUFFICES ASSUME NEW h \in Hosts PROVE HostKept(passed[h], bucket[h], clock + 1)
      BY <1>1 DEF ClockTicks
    <3>1. passed[h] \in Seq(Nat) /\ clock \in Nat /\ HostKept(passed[h], bucket[h], clock)
      BY DEF LimiterInv, LimiterTypeOK
    <3> QED BY <3>1, TickKeeps
  <2>3. \A a \in Attempts : attempt[a].at = "allow" =>
           attempt[a].read <= clock + 1 /\ clock + 1 <= attempt[a].read + MaxDelay
    BY <1>1, LimiterAssumption DEF ClockTicks, LimiterInv, LimiterTypeOK, LimiterAssumption
  <2> QED BY <1>1, <2>1, <2>2, <2>3 DEF ClockTicks, LimiterInv
<1>2. ASSUME LimiterForgotten PROVE LimiterInv'
  <2>1. LimiterTypeOK'
    <3>1. /\ attempt \in [Attempts -> [at : {"idle", "allow", "login"}, host : Hosts, read : Nat]]
          /\ clock \in Nat
      BY DEF LimiterInv, LimiterTypeOK
    <3>2. attempt' \in [Attempts -> [at : {"idle", "allow", "login"}, host : Hosts, read : Nat]]
      BY <1>2, <3>1, FreedIsIdle DEF LimiterForgotten
    <3>3. NoBucket \in [count : Nat, reset : Int]
      BY DEF NoBucket
    <3>4. <<>> \in Seq(Nat)
      OBVIOUS
    <3> QED BY <1>2, <3>1, <3>2, <3>3, <3>4 DEF LimiterForgotten, LimiterTypeOK
  <2>2. \A h \in Hosts : HostKept(passed'[h], bucket'[h], clock')
    BY <1>2, NobodyKept DEF LimiterForgotten
  <2>3. \A a \in Attempts : attempt'[a].at = "idle"
    BY <1>2, FreedIsIdle DEF LimiterForgotten, LimiterInv, LimiterTypeOK
  <2> QED BY <2>1, <2>2, <2>3 DEF LimiterInv
<1>3. ASSUME NEW a \in Attempts, Allow(a) PROVE LimiterInv'
  BY <1>3, AllowKeeps
<1>4. ASSUME NEW a \in Attempts, Answered(a) PROVE LimiterInv'
  BY <1>4 DEF Answered, Freed, LimiterInv, LimiterTypeOK
<1>5. ASSUME NEW a \in Attempts, NEW h \in Hosts, Arrives(a, h) PROVE LimiterInv'
  BY <1>5, LimiterAssumption DEF Arrives, LimiterInv, LimiterTypeOK, LimiterAssumption
<1>6. ASSUME UNCHANGED limiterVars PROVE LimiterInv'
  BY <1>6 DEF limiterVars, LimiterInv, LimiterTypeOK
<1> QED BY <1>1, <1>2, <1>3, <1>4, <1>5, <1>6 DEF LimiterNext

\* Whatever the delays, no host is let through more than twice the limit in a
\* window (ratelimit.go 48-63).
THEOREM AttemptsAlwaysBounded == LimiterSpec => []AttemptsBounded
<1>1. LimiterInv => AttemptsBounded
  <2> SUFFICES ASSUME LimiterInv, NEW h \in Hosts, NEW k \in DOMAIN passed[h],
                      k + 2 * Limit \in DOMAIN passed[h]
               PROVE  passed[h][k] + Window < passed[h][k + 2 * Limit] + MaxDelay
    BY DEF AttemptsBounded
  <2>1. passed[h] \in Seq(Nat) /\ Spread(passed[h])
    BY DEF LimiterInv, LimiterTypeOK, HostKept
  <2>2. k \in 1 .. Len(passed[h]) /\ k + 2 * Limit <= Len(passed[h])
    BY <2>1, LimiterAssumption DEF LimiterAssumption
  <2> QED BY <2>1, <2>2 DEF Spread
<1> QED BY <1>1, LimiterInitially, LimiterStep, PTL DEF LimiterSpec

-----------------------------------------------------------------------------
(* The sessions.  A row that is neither there nor logged out was cleaned   *)
(* up, so the wall clock has been beyond its end.                          *)

SessionsInv ==
  /\ SessionsTypeOK
  /\ rows \cap out = {}
  /\ \A id \in created : expires[id] = issued[id] + TTL /\ wall <= peak[id]
  /\ \A id \in created \ (rows \cup out) : peak[id] > issued[id] + TTL

LEMMA SessionsInitially == SessionsInit => SessionsInv
BY SessionsAssumption DEF SessionsAssumption, SessionsInit, SessionsInv, SessionsTypeOK

\* Whatever the wall clock shows next.
LEMMA WallKeeps ==
  ASSUME SessionsInv, NEW t \in Nat, WallShows(t)
  PROVE  SessionsInv'
<1> USE DEF SessionsInv, SessionsTypeOK, WallShows
<1>1. ASSUME NEW id \in Ids
      PROVE  /\ peak'[id] \in Nat /\ peak'[id] >= peak[id]
             /\ id \in created => t <= peak'[id]
  OBVIOUS
<1>2. SessionsTypeOK'
  BY <1>1
<1>3. \A id \in created : expires[id] = issued[id] + TTL /\ t <= peak'[id]
  BY <1>1
<1>4. ASSUME NEW id \in created \ (rows \cup out) PROVE peak'[id] > issued[id] + TTL
  <2>1. id \in Ids /\ peak[id] \in Nat /\ peak[id] > issued[id] + TTL /\ issued[id] \in Nat
    OBVIOUS
  <2>2. peak'[id] \in Nat /\ peak'[id] >= peak[id]
    BY <1>1, <2>1
  <2> HIDE DEF SessionsInv, SessionsTypeOK, WallShows
  <2> QED BY <2>1, <2>2, SessionsAssumption DEF SessionsAssumption
<1> QED BY <1>2, <1>3, <1>4

LEMMA SessionsStep == SessionsInv /\ [SessionsNext]_sessionVars => SessionsInv'
<1> SUFFICES ASSUME SessionsInv, [SessionsNext]_sessionVars PROVE SessionsInv'
  OBVIOUS
<1> USE DEF SessionsInv, SessionsTypeOK
<1>1. ASSUME SecondPasses PROVE SessionsInv'
  <2> HIDE DEF SessionsInv
  <2>1. wall + 1 \in Nat
    BY DEF SessionsInv
  <2> QED BY <1>1, <2>1, WallKeeps DEF SecondPasses
<1>2. ASSUME ClockIsSet PROVE SessionsInv'
  <2> HIDE DEF SessionsInv
  <2>1. PICK t \in 0 .. MaxWall : WallShows(t)
    BY <1>2 DEF ClockIsSet
  <2>2. t \in Nat
    BY SessionsAssumption DEF SessionsAssumption
  <2> QED BY <2>1, <2>2, WallKeeps
<1>3. ASSUME NEW id \in Ids, CreateSession(id) PROVE SessionsInv'
  BY <1>3, SessionsAssumption DEF CreateSession, SessionsAssumption
<1>4. ASSUME LogOut PROVE SessionsInv'
  BY <1>4 DEF LogOut
<1>5. ASSUME CookieEnds PROVE SessionsInv'
  BY <1>5 DEF CookieEnds
<1>6. ASSUME Cleanup PROVE SessionsInv'
  BY <1>6 DEF Cleanup, Over
<1>7. ASSUME UNCHANGED sessionVars PROVE SessionsInv'
  BY <1>7 DEF sessionVars
<1> QED BY <1>1, <1>2, <1>3, <1>4, <1>5, <1>6, <1>7 DEF SessionsNext, SessionsKept

\* A session is let in for its TTL and no longer, whatever logouts, clean-ups and
\* restarts come between and however the wall clock is set (session.go 27-74).
THEOREM SessionsAlwaysExact == SessionsSpec => []ValidExactly
<1>1. SessionsInv => ValidExactly
  BY SessionsAssumption DEF SessionsInv, SessionsTypeOK, ValidExactly, Valid, SessionsAssumption
<1> QED BY <1>1, SessionsInitially, SessionsStep, PTL DEF SessionsSpec

-----------------------------------------------------------------------------
(* The live page.  What is shown, what is on its way, what the broadcaster *)
(* has read and what is: each is at least as new as the one before.        *)

InOrder(shown, sent, read, now, s) ==
  /\ shown[s] <= now[s]
  /\ \A i \in 1 .. Len(sent) : shown[s] <= sent[i].rows[s] /\ sent[i].rows[s] <= now[s]
  /\ \A i, j \in 1 .. Len(sent) : i <= j => sent[i].rows[s] <= sent[j].rows[s]
  /\ read[s] # Unread =>
       /\ shown[s] <= read[s] /\ read[s] <= now[s]
       /\ \A i \in 1 .. Len(sent) : sent[i].rows[s] <= read[s]

PagesInv ==
  /\ PagesTypeOK
  /\ \A s \in Sources : InOrder(streamed, channel, got[Loop].rows, version, s)

Gathered == [rows : [Sources -> Nat \cup {Unread}], ok : Reach \cup {"unread"}]

LEMMA BlankIsRead == Blank \in Gathered /\ \A s \in Sources : Blank.rows[s] = Unread
BY DEF Blank, Gathered, Unread

LEMMA CompleteIsSnapshot ==
  ASSUME NEW g, got[g] \in Gathered, Complete(g)
  PROVE  got[g] \in Snapshots
<1>1. got[g] = [rows |-> got[g].rows, ok |-> got[g].ok]
  BY DEF Gathered
<1>2. got[g].ok \in Reach
  BY DEF Complete, Gathered
<1>3. got[g].rows \in [Sources -> Nat]
  BY DEF Complete, Gathered
<1> QED BY <1>1, <1>2, <1>3 DEF Snapshots

LEMMA PagesInitially == PagesInit => PagesInv
<1> SUFFICES ASSUME PagesInit PROVE PagesInv
  OBVIOUS
<1> USE PagesAssumption DEF PagesAssumption, PagesInit
<1>1. version \in [Sources -> Nat] /\ channel = <<>> /\ Len(<<>>) = 0 /\ Loop \in Gatherers
  BY DEF Gatherers
<1>2. PagesTypeOK
  <2>1. NoPings \in [{"sent"} \cup Reach -> Nat]
    BY DEF NoPings, Reach
  <2>2. got \in [Gatherers -> Gathered]
    BY BlankIsRead
  <2>3. page \in Snapshots
    BY <1>1 DEF Snapshots, Reach
  <2>4. cache \in [ok : Reach, fresh : BOOLEAN]
    BY DEF ColdCache, Reach
  <2>5. channel \in Seq(Snapshots) /\ Len(channel) <= Capacity
    BY <1>1
  <2>6. since \in [Requests -> SUBSET Reach]
    OBVIOUS
  <2> QED BY <1>1, <2>1, <2>2, <2>3, <2>4, <2>5, <2>6 DEF PagesTypeOK, Gathered, Wants
<1>3. ASSUME NEW s \in Sources PROVE InOrder(streamed, channel, got[Loop].rows, version, s)
  <2>1. got[Loop].rows[s] = Unread /\ streamed[s] = version[s] /\ version[s] \in Nat
    BY <1>1, BlankIsRead
  <2>2. \A i \in 1 .. Len(channel) : FALSE
    BY <1>1
  <2> QED BY <2>1, <2>2 DEF InOrder
<1> QED BY <1>2, <1>3 DEF PagesInv

\* Every step of the pages keeps the types.
LEMMA PagesTyped ==
  ASSUME PagesTypeOK, [PagesNext]_pageVars
  PROVE  PagesTypeOK'
<1> USE PagesAssumption DEF PagesAssumption, PagesTypeOK
<1>a. <<>> \in Seq(Snapshots) /\ Len(<<>>) <= Capacity
  OBVIOUS
<1>b. got \in [Gatherers -> Gathered] /\ Blank \in Gathered /\ Loop \in Gatherers
      /\ Requests \subseteq Gatherers
  BY BlankIsRead DEF Gathered, Gatherers
<1>1. ASSUME NetChanges PROVE PagesTypeOK'
  BY <1>1 DEF NetChanges
<1>2. ASSUME Expires PROVE PagesTypeOK'
  BY <1>2 DEF Expires
<1>3. ASSUME Breaks \/ Connect \/ Refused PROVE PagesTypeOK'
  BY <1>3, <1>a DEF Breaks, Connect, Refused
<1>4. ASSUME ToggleForm PROVE PagesTypeOK'
  BY <1>4 DEF ToggleForm
<1>5. ASSUME NEW s \in Sources, SourceChanges(s) PROVE PagesTypeOK'
  BY <1>5 DEF SourceChanges, Changed
<1>6. ASSUME NEW g \in Gatherers, CheckInternetConnectivity(g) PROVE PagesTypeOK'
  <2>1. got' \in [Gatherers -> Gathered]
    BY <1>6, <1>b DEF CheckInternetConnectivity, Gathered
  <2>2. pings' \in [{"sent"} \cup Reach -> Nat]
    <3>1. pings \in [{"sent"} \cup Reach -> Nat] /\ pings.sent \in Nat
      OBVIOUS
    <3>2. pings' = pings \/ pings' = [pings EXCEPT !.sent = @ + 1]
      BY <1>6 DEF CheckInternetConnectivity
    <3> HIDE DEF PagesTypeOK
    <3>3. pings.sent + 1 \in Nat
      BY <3>1
    <3> QED BY <3>1, <3>2, <3>3
  <2> QED BY <1>6, <2>1, <2>2 DEF CheckInternetConnectivity, Gathered
<1>7. ASSUME NEW g \in Gatherers, NEW s \in Sources, ReadSource(g, s) PROVE PagesTypeOK'
  <2>1. got' \in [Gatherers -> Gathered]
    BY <1>7, <1>b DEF ReadSource, Gathered
  <2>2. UNCHANGED <<net, cache, pings, forced, version, stage, want, channel, stream, page, form, streamed, since>>
    BY <1>7 DEF ReadSource
  <2> QED BY <2>1, <2>2 DEF Gathered
<1>8. ASSUME Tick PROVE PagesTypeOK'
  <2>1. got' \in [Gatherers -> Gathered]
    BY <1>8, <1>b DEF Tick, Begin
  <2> QED BY <1>8, <1>b, <2>1 DEF Tick, Begin, Gathered
<1>9. ASSUME Publish PROVE PagesTypeOK'
  <2>1. got' \in [Gatherers -> Gathered]
    BY <1>9, <1>b DEF Publish, Done
  <2>2. got[Loop] \in Snapshots
    BY <1>9, <1>b, CompleteIsSnapshot DEF Publish, Done
  <2>3. channel' \in Seq(Snapshots) /\ Len(channel') <= Capacity
    BY <1>9, <2>2 DEF Publish, Offer
  <2> QED BY <1>9, <1>b, <2>1, <2>3 DEF Publish, Done, Gathered
<1>10. ASSUME Deliver PROVE PagesTypeOK'
  <2>1. Head(channel) \in Snapshots
    BY <1>10 DEF Deliver
  <2>2. channel' \in Seq(Snapshots) /\ Len(channel') <= Capacity
    BY <1>10 DEF Deliver
  <2>3. page' \in Snapshots /\ streamed' \in [Sources -> Nat]
    BY <1>10, <2>1 DEF Deliver, Snapshots
  <2> QED BY <1>10, <2>2, <2>3 DEF Deliver
<1>11. ASSUME PingAnswers PROVE PagesTypeOK'
  BY <1>11 DEF PingAnswers
<1>12. ASSUME NEW result \in Reach, PingStores(result) PROVE PagesTypeOK'
  BY <1>12 DEF PingStores, Stored
<1>13. ASSUME NEW r \in Requests, Asks(r) PROVE PagesTypeOK'
  <2>1. ASSUME NEW first \in {"ping", "gather"}, Begin(r, first)
        PROVE  /\ got' \in [Gatherers -> Gathered]
               /\ stage' \in [Gatherers -> {"idle", "ping", "gather"}]
    BY <2>1, <1>b DEF Begin
  <2>2. ASSUME NEW s \in Sources, SetRow(r, s) PROVE PagesTypeOK'
    BY <2>1, <2>2 DEF SetRow, Changed, Wants, Gathered
  <2>3. ASSUME ShowDashboard(r) PROVE PagesTypeOK'
    BY <2>1, <2>3 DEF ShowDashboard, Wants, Gathered
  <2>4. ASSUME CheckInternet(r) PROVE PagesTypeOK'
    <3>1. since' \in [Requests -> SUBSET Reach]
      BY <2>4 DEF CheckInternet, Press
    <3> QED BY <2>1, <2>4, <3>1 DEF CheckInternet, Press, Wants, Gathered
  <2> QED BY <1>13, <2>2, <2>3, <2>4 DEF Asks
<1>14. ASSUME NEW r \in Requests, ForcedAnswers(r) PROVE PagesTypeOK'
  BY <1>14 DEF ForcedAnswers
<1>15. ASSUME NEW r \in Requests, ForceStores(r) PROVE PagesTypeOK'
  BY <1>15 DEF ForceStores, Stored
<1>16. ASSUME NEW r \in Requests, Answer(r) PROVE PagesTypeOK'
  <2>1. got' \in [Gatherers -> Gathered] /\ stage' \in [Gatherers -> {"idle", "ping", "gather"}]
    BY <1>16, <1>b DEF Answer, Done
  <2>2. got[r] \in Snapshots
    BY <1>16, <1>b, CompleteIsSnapshot DEF Answer, Done
  <2>3. page' \in Snapshots /\ form' \in BOOLEAN
        /\ stream' \in {"none", "connecting", "open", "failed"}
    BY <1>16, <2>2 DEF Answer, Shows, Snapshots
  <2>4. channel' \in Seq(Snapshots) /\ Len(channel') <= Capacity
    BY <1>16, <1>a DEF Answer
  <2>5. want' \in [Requests -> Wants] /\ since' \in [Requests -> SUBSET Reach]
    BY <1>16 DEF Answer, Wants
  <2> QED BY <1>16, <2>1, <2>3, <2>4, <2>5 DEF Answer, Gathered
<1>17. ASSUME PagesForgotten PROVE PagesTypeOK'
  <2>1. pings' \in [{"sent"} \cup Reach -> Nat] /\ cache' \in [ok : Reach, fresh : BOOLEAN]
    BY <1>17 DEF PagesForgotten, NoPings, ColdCache, Reach
  <2>2. got' \in [Gatherers -> Gathered] /\ stage' \in [Gatherers -> {"idle", "ping", "gather"}]
    BY <1>17, <1>b DEF PagesForgotten
  <2>3. want' \in [Requests -> Wants] /\ since' \in [Requests -> SUBSET Reach]
        /\ forced' \in [Requests -> {"none"} \cup Reach]
    BY <1>17 DEF PagesForgotten, Wants
  <2> QED BY <1>17, <1>a, <2>1, <2>2, <2>3 DEF PagesForgotten, Gathered
<1>18. ASSUME UNCHANGED pageVars PROVE PagesTypeOK'
  BY <1>18 DEF pageVars
<1> HIDE DEF PagesTypeOK
<1> QED BY <1>1, <1>2, <1>3, <1>4, <1>5, <1>6, <1>7, <1>8, <1>9, <1>10, <1>11, <1>12, <1>13,
           <1>14, <1>15, <1>16, <1>17, <1>18
        DEF PagesNext, World, Broadcast, Pinging, Serve, Gather, Gatherers

LEMMA SentIsRead ==
  ASSUME PagesTypeOK, NEW i \in 1 .. Len(channel), NEW s \in Sources
  PROVE  channel[i].rows[s] \in Nat
<1>1. channel \in Seq(Snapshots)
  BY DEF PagesTypeOK
<1>2. channel[i] \in Snapshots
  BY <1>1
<1>3. channel[i].rows \in [Sources -> Nat]
  BY <1>2 DEF Snapshots
<1> QED BY <1>3

\* A step that forgets what is on its way, or what was read, or neither, while the
\* source may have changed.
LEMMA QuietKeeps ==
  ASSUME PagesInv, PagesTypeOK', NEW s \in Sources,
         streamed' = streamed, version'[s] >= version[s],
         channel' = channel \/ channel' = <<>>,
         got'[Loop].rows = got[Loop].rows \/ got'[Loop].rows = Blank.rows
  PROVE  InOrder(streamed', channel', got'[Loop].rows, version', s)
<1> DEFINE read == got[Loop].rows
<1>1. /\ streamed[s] \in Nat /\ version[s] \in Nat /\ version'[s] \in Nat
      /\ InOrder(streamed, channel, read, version, s)
  BY DEF PagesInv, PagesTypeOK
<1>2. \A i \in 1 .. Len(channel) : channel[i].rows[s] \in Nat
  BY SentIsRead DEF PagesInv
<1>3. read[s] # Unread => read[s] \in Nat
  BY DEF PagesInv, PagesTypeOK, Gatherers
<1>4. Blank.rows[s] = Unread
  BY BlankIsRead
<1>5. CASE channel' = <<>>
  <2>1. \A i \in 1 .. Len(channel') : FALSE
    BY <1>5
  <2>2. got'[Loop].rows[s] # Unread =>
          streamed[s] <= got'[Loop].rows[s] /\ got'[Loop].rows[s] <= version'[s]
    BY <1>1, <1>3, <1>4 DEF InOrder
  <2>3. streamed[s] <= version'[s]
    BY <1>1 DEF InOrder
  <2> QED BY <2>1, <2>2, <2>3 DEF InOrder
<1>6. CASE channel' = channel
  <2>1. got'[Loop].rows[s] # Unread =>
          /\ streamed[s] <= got'[Loop].rows[s] /\ got'[Loop].rows[s] <= version'[s]
          /\ \A i \in 1 .. Len(channel) : channel[i].rows[s] <= got'[Loop].rows[s]
    BY <1>1, <1>3, <1>4 DEF InOrder
  <2>2. \A i \in 1 .. Len(channel) : channel[i].rows[s] <= version'[s]
    BY <1>1, <1>2 DEF InOrder
  <2>3. streamed[s] <= version'[s]
    BY <1>1 DEF InOrder
  <2> QED BY <1>1, <1>6, <2>1, <2>2, <2>3 DEF InOrder
<1> QED BY <1>5, <1>6

\* The broadcaster reads the newest there is.
LEMMA ReadingKeeps ==
  ASSUME PagesInv, NEW t \in Sources, ReadSource(Loop, t), NEW s \in Sources
  PROVE  InOrder(streamed', channel', got'[Loop].rows, version', s)
<1>1. /\ streamed' = streamed /\ channel' = channel /\ version' = version
      /\ InOrder(streamed, channel, got[Loop].rows, version, s)
      /\ version[s] \in Nat
  BY DEF ReadSource, PagesInv, PagesTypeOK
<1>2. got'[Loop].rows[s] = IF s = t THEN version[s] ELSE got[Loop].rows[s]
  BY DEF ReadSource, PagesInv, PagesTypeOK, Gatherers
<1>3. CASE s = t
  BY <1>1, <1>2, <1>3 DEF InOrder
<1>4. CASE s # t
  BY <1>1, <1>2, <1>4 DEF InOrder
<1> QED BY <1>3, <1>4

\* What it sends is at least as new as what it sent before.
LEMMA PublishKeeps ==
  ASSUME PagesInv, Publish, NEW s \in Sources
  PROVE  InOrder(streamed', channel', got'[Loop].rows, version', s)
<1> DEFINE read == got[Loop].rows
           n == Len(channel)
<1>1. /\ streamed' = streamed /\ version' = version /\ got'[Loop] = Blank
      /\ InOrder(streamed, channel, read, version, s)
      /\ channel \in Seq(Snapshots) /\ got[Loop] \in Gathered
      /\ streamed[s] \in Nat /\ version[s] \in Nat /\ n \in Nat
  BY DEF Publish, Done, PagesInv, PagesTypeOK, Gatherers, Gathered
<1>2. Blank.rows[s] = Unread /\ read[s] # Unread /\ got[Loop] \in Snapshots
  BY <1>1, BlankIsRead, CompleteIsSnapshot DEF Publish, Done, Complete
<1>3. /\ streamed[s] <= version[s] /\ streamed[s] <= read[s] /\ read[s] <= version[s]
      /\ read[s] \in Nat
      /\ \A i \in 1 .. n : /\ streamed[s] <= channel[i].rows[s] /\ channel[i].rows[s] <= version[s]
                           /\ channel[i].rows[s] <= read[s]
      /\ \A i, j \in 1 .. n : i <= j => channel[i].rows[s] <= channel[j].rows[s]
  BY <1>1, <1>2 DEF InOrder, Snapshots
<1>4. CASE channel' = channel
  BY <1>1, <1>2, <1>3, <1>4 DEF InOrder
<1>5. CASE channel' = Append(channel, got[Loop])
  <2>1. /\ Len(channel') = n + 1
        /\ \A i \in 1 .. n : channel'[i] = channel[i]
        /\ channel'[n + 1] = got[Loop]
    BY <1>1, <1>2, <1>5
  <2>2. \A i \in 1 .. n + 1 : i \in 1 .. n \/ i = n + 1
    BY <1>1
  <2> HIDE DEF n
  <2>3. ASSUME NEW i \in 1 .. n + 1
        PROVE  streamed[s] <= channel'[i].rows[s] /\ channel'[i].rows[s] <= version[s]
    BY <1>3, <2>1, <2>2
  <2>4. ASSUME NEW i \in 1 .. n + 1, NEW j \in 1 .. n + 1, i <= j
        PROVE  channel'[i].rows[s] <= channel'[j].rows[s]
    <3>1. CASE j = n + 1
      BY <1>3, <2>1, <2>2, <3>1
    <3>2. CASE j # n + 1
      <4>1. i \in 1 .. n /\ j \in 1 .. n
        BY <1>1, <2>4, <3>2
      <4> QED BY <1>3, <2>1, <2>4, <4>1
    <3> QED BY <3>1, <3>2
  <2> QED BY <1>1, <1>2, <1>3, <2>1, <2>3, <2>4 DEF InOrder
<1> QED BY <1>4, <1>5 DEF Publish, Offer

\* What the page shows next was behind what it shows now, and before the rest.
LEMMA DeliverKeeps ==
  ASSUME PagesInv, Deliver, NEW s \in Sources
  PROVE  /\ InOrder(streamed', channel', got'[Loop].rows, version', s)
         /\ streamed'[s] >= streamed[s]
<1> DEFINE read == got[Loop].rows
           n == Len(channel)
<1>1. /\ version' = version /\ got' = got /\ channel # <<>>
      /\ channel' = Tail(channel) /\ streamed' = Head(channel).rows
      /\ InOrder(streamed, channel, read, version, s)
      /\ channel \in Seq(Snapshots)
  BY DEF Deliver, PagesInv, PagesTypeOK
<1>2. /\ n \in Nat /\ n > 0 /\ Len(channel') = n - 1
      /\ \A i \in 1 .. n - 1 : channel'[i] = channel[i + 1]
      /\ streamed' = channel[1].rows
  BY <1>1
<1>3. /\ \A i \in 1 .. n : /\ channel[1].rows[s] <= channel[i].rows[s]
                           /\ channel[i].rows[s] <= version[s]
      /\ \A i, j \in 1 .. n : i <= j => channel[i].rows[s] <= channel[j].rows[s]
      /\ read[s] # Unread => /\ read[s] <= version[s]
                             /\ \A i \in 1 .. n : channel[i].rows[s] <= read[s]
  BY <1>1, <1>2 DEF InOrder
<1>4. streamed[s] <= channel[1].rows[s] /\ channel[1].rows[s] \in Nat /\ streamed[s] \in Nat
  <2>1. channel[1].rows[s] \in Nat
    BY <1>2, SentIsRead DEF PagesInv
  <2>2. streamed[s] \in Nat
    BY DEF PagesInv, PagesTypeOK
  <2> QED BY <1>1, <1>2, <2>1, <2>2 DEF InOrder
<1>5. \A i \in 1 .. n - 1 : i + 1 \in 1 .. n /\ i \in Nat
  BY <1>2
<1>6. 1 \in 1 .. n
  BY <1>2
<1> HIDE DEF n
<1>7. \A i, j \in 1 .. n - 1 : i <= j => channel'[i].rows[s] <= channel'[j].rows[s]
  <2> SUFFICES ASSUME NEW i \in 1 .. n - 1, NEW j \in 1 .. n - 1, i <= j
               PROVE  channel[i + 1].rows[s] <= channel[j + 1].rows[s]
    BY <1>2
  <2>1. i + 1 \in 1 .. n /\ j + 1 \in 1 .. n /\ i + 1 <= j + 1
    BY <1>5
  <2> QED BY <1>3, <2>1
<1>8. InOrder(streamed', channel', got'[Loop].rows, version', s)
  BY <1>1, <1>2, <1>3, <1>5, <1>6, <1>7 DEF InOrder
<1> QED BY <1>2, <1>4, <1>8

LEMMA PagesStep == PagesInv /\ [PagesNext]_pageVars =>
  PagesInv' /\ [\A s \in Sources : streamed'[s] >= streamed[s]]_pageVars
<1> SUFFICES ASSUME PagesInv, [PagesNext]_pageVars
             PROVE  /\ PagesInv'
                    /\ \A s \in Sources : streamed'[s] >= streamed[s]
  OBVIOUS
<1>1. PagesTypeOK /\ PagesTypeOK' /\ \A s \in Sources : streamed[s] \in Nat /\ version[s] \in Nat
  BY PagesTyped DEF PagesInv, PagesTypeOK
<1>2. SUFFICES ASSUME NEW s \in Sources
               PROVE  /\ InOrder(streamed', channel', got'[Loop].rows, version', s)
                      /\ streamed'[s] >= streamed[s]
  BY <1>1 DEF PagesInv
<1> DEFINE Goal == /\ InOrder(streamed', channel', got'[Loop].rows, version', s)
                   /\ streamed'[s] >= streamed[s]
           Quiet == /\ streamed' = streamed /\ version'[s] >= version[s]
                    /\ channel' = channel \/ channel' = <<>>
                    /\ got'[Loop].rows = got[Loop].rows \/ got'[Loop].rows = Blank.rows
<1>3. Quiet => Goal
  BY <1>1, QuietKeeps
<1>4. /\ Loop \notin Requests /\ got \in [Gatherers -> Gathered] /\ Loop \in Gatherers
      /\ Requests \subseteq Gatherers /\ version \in [Sources -> Nat]
  BY <1>1, PagesAssumption DEF PagesAssumption, PagesTypeOK, Gatherers, Gathered
<1>5. ASSUME NetChanges \/ Expires \/ Breaks \/ ToggleForm \/ Connect \/ Refused \/ Pinging
      PROVE  Quiet
  BY <1>1, <1>5 DEF NetChanges, Expires, Breaks, ToggleForm, Connect, Refused, Pinging,
                    PingAnswers, PingStores
<1>6. ASSUME NEW t \in Sources, Changed(t) PROVE version'[s] >= version[s]
  BY <1>1, <1>4, <1>6 DEF Changed
<1>7. ASSUME NEW t \in Sources, SourceChanges(t) PROVE Quiet
  BY <1>6, <1>7 DEF SourceChanges
<1>8. ASSUME NEW g \in Gatherers, CheckInternetConnectivity(g) PROVE Quiet
  BY <1>1, <1>4, <1>8 DEF CheckInternetConnectivity, Gathered
<1>9. ASSUME NEW t \in Sources, ReadSource(Loop, t) PROVE Goal
  <2>1. streamed' = streamed
    BY <1>9 DEF ReadSource
  <2>2. streamed'[s] >= streamed[s]
    BY <1>1, <2>1
  <2> QED BY <1>9, <2>2, ReadingKeeps
<1>10. ASSUME NEW r \in Requests, NEW t \in Sources, ReadSource(r, t) PROVE Quiet
  BY <1>1, <1>4, <1>10 DEF ReadSource
<1>11. ASSUME Tick PROVE Quiet
  BY <1>1, <1>4, <1>11 DEF Tick, Begin
<1>12. ASSUME Publish PROVE Goal
  BY <1>1, <1>12, PublishKeeps DEF Publish
<1>13. ASSUME Deliver PROVE Goal
  BY <1>13, DeliverKeeps
<1>14. ASSUME NEW r \in Requests, Asks(r) PROVE Quiet
  <2>1. ASSUME NEW first, Begin(r, first) PROVE got'[Loop] = got[Loop]
    BY <1>4, <2>1 DEF Begin
  <2>2. ASSUME NEW t \in Sources, SetRow(r, t) PROVE Quiet
    BY <1>6, <2>1, <2>2 DEF SetRow
  <2>3. ASSUME ShowDashboard(r) PROVE Quiet
    BY <1>1, <2>1, <2>3 DEF ShowDashboard
  <2>4. ASSUME CheckInternet(r) PROVE Quiet
    BY <1>1, <2>1, <2>4 DEF CheckInternet, Press
  <2> QED BY <1>14, <2>2, <2>3, <2>4 DEF Asks
<1>15. ASSUME NEW r \in Requests, ForcedAnswers(r) \/ ForceStores(r) PROVE Quiet
  BY <1>1, <1>15 DEF ForcedAnswers, ForceStores
<1>16. ASSUME NEW r \in Requests, Answer(r) PROVE Quiet
  BY <1>1, <1>4, <1>16 DEF Answer, Done
<1>17. ASSUME PagesForgotten PROVE Quiet
  BY <1>1, <1>4, <1>17 DEF PagesForgotten
<1>18. ASSUME UNCHANGED pageVars PROVE Quiet
  BY <1>1, <1>18 DEF pageVars
<1> HIDE DEF Goal, Quiet
<1>19. Goal
  BY <1>3, <1>5, <1>7, <1>8, <1>9, <1>10, <1>11, <1>12, <1>13, <1>14, <1>15, <1>16, <1>17, <1>18
     DEF PagesNext, World, Broadcast, Serve, Gather, Gatherers
<1> QED BY <1>19 DEF Goal

\* Whatever requests, reconnections, crashes and restarts come between, the stream
\* never takes a row of the page back (dashboard_broadcaster.go 61-83).
THEOREM PagesNeverGoBack == PagesSpec => NeverBackInTime
<1> QED BY PagesInitially, PagesStep, PTL DEF PagesSpec, NeverBackInTime

-----------------------------------------------------------------------------
(* "Check now".  Since it was pressed with no ping under way, whatever a   *)
(* ping, the cache or the answer may say is a state the network has had.   *)

AllSince(r) ==
  /\ net \in since[r]
  /\ \A result \in Reach : pings[result] > 0 => result \in since[r]
  /\ \A q \in Requests : forced[q] # "none" => forced[q] \in since[r]
  /\ stage[r] = "gather" => cache.ok \in since[r]
  /\ got[r].ok \in Reach => got[r].ok \in since[r]

Fresh(r) ==
  /\ forced[r] # "none" => stage[r] = "ping"
  /\ stage[r] = "ping" => got[r].ok \notin Reach
  /\ stage[r] = "idle" => since[r] = {}
  /\ since[r] # {} => AllSince(r)

LEMMA FreshStep ==
  ASSUME PagesTypeOK, \A r \in Requests : Fresh(r), [PagesNext]_pageVars, NEW r \in Requests
  PROVE  Fresh(r)'
<1> USE DEF Fresh, AllSince
<1>0. /\ got \in [Gatherers -> Gathered] /\ stage \in [Gatherers -> {"idle", "ping", "gather"}]
      /\ pings \in [{"sent"} \cup Reach -> Nat] /\ forced \in [Requests -> {"none"} \cup Reach]
      /\ since \in [Requests -> SUBSET Reach] /\ net \in Reach /\ cache.ok \in Reach
      /\ Loop \in Gatherers /\ Requests \subseteq Gatherers /\ Loop \notin Requests
      /\ "none" \notin Reach /\ Blank.ok \notin Reach /\ Blank \in Gathered
  BY PagesAssumption, BlankIsRead
     DEF PagesTypeOK, Gathered, Gatherers, Reach, Blank, PagesAssumption
<1>1. CASE NetChanges
  BY <1>0, <1>1 DEF NetChanges
<1>2. CASE Expires
  BY <1>0, <1>2 DEF Expires
<1>3. CASE Breaks \/ Connect \/ Refused \/ ToggleForm \/ Deliver
  BY <1>0, <1>3 DEF Breaks, Connect, Refused, ToggleForm, Deliver
<1>4. ASSUME NEW s \in Sources, SourceChanges(s) PROVE Fresh(r)'
  BY <1>0, <1>4 DEF SourceChanges
<1>5. ASSUME NEW g \in Gatherers, CheckInternetConnectivity(g) PROVE Fresh(r)'
  BY <1>0, <1>5 DEF CheckInternetConnectivity, Gathered, Reach
<1>6. ASSUME NEW g \in Gatherers, NEW s \in Sources, ReadSource(g, s) PROVE Fresh(r)'
  BY <1>0, <1>6 DEF ReadSource, Gathered
<1>7. CASE Tick
  BY <1>0, <1>7 DEF Tick, Begin
<1>8. CASE Publish
  BY <1>0, <1>8 DEF Publish, Done
<1>9. CASE PingAnswers
  BY <1>0, <1>9 DEF PingAnswers, Reach
<1>10. ASSUME NEW result \in Reach, PingStores(result) PROVE Fresh(r)'
  BY <1>0, <1>10 DEF PingStores, Stored, Reach
<1>11. ASSUME NEW q \in Requests, NEW s \in Sources, SetRow(q, s) PROVE Fresh(r)'
  BY <1>0, <1>11 DEF SetRow, Begin
<1>12. ASSUME NEW q \in Requests, ShowDashboard(q) PROVE Fresh(r)'
  BY <1>0, <1>12 DEF ShowDashboard, Begin
<1>13. ASSUME NEW q \in Requests, CheckInternet(q) PROVE Fresh(r)'
  <2>1. /\ stage[q] = "idle" /\ stage' = [stage EXCEPT ![q] = "ping"]
        /\ got' = [got EXCEPT ![q] = Blank]
        /\ UNCHANGED <<net, cache, pings, forced>>
        /\ \A p \in Requests : p # q => since'[p] = since[p]
    BY <1>0, <1>13 DEF CheckInternet, Press, Begin
  <2>2. CASE r # q
    BY <1>0, <2>1, <2>2
  <2>3. CASE r = q /\ since'[r] # {}
    <3>1. since'[r] = {net} /\ InFlight = 0 /\ \A p \in Requests : stage[p] # "ping"
      BY <1>0, <1>13, <2>3 DEF CheckInternet, Press
    <3>2. pings.up = 0 /\ pings.down = 0
      <4>1. pings.sent \in Nat /\ pings.up \in Nat /\ pings.down \in Nat
        BY <1>0 DEF Reach
      <4> QED BY <3>1, <4>1 DEF InFlight
    <3>3. \A result \in Reach : pings[result] = 0
      BY <3>2 DEF Reach
    <3>4. \A p \in Requests : forced[p] = "none"
      BY <3>1
    <3> QED BY <1>0, <2>1, <2>3, <3>1, <3>3, <3>4
  <2>4. CASE r = q /\ since'[r] = {}
    <3>1. forced[r] = "none"
      BY <2>1, <2>4
    <3> QED BY <1>0, <2>1, <2>4, <3>1
  <2> QED BY <2>2, <2>3, <2>4
<1>14. ASSUME NEW q \in Requests, ForcedAnswers(q) PROVE Fresh(r)'
  BY <1>0, <1>14 DEF ForcedAnswers
<1>15. ASSUME NEW q \in Requests, ForceStores(q) PROVE Fresh(r)'
  BY <1>0, <1>15 DEF ForceStores, Stored
<1>16. ASSUME NEW q \in Requests, Answer(q) PROVE Fresh(r)'
  BY <1>0, <1>16 DEF Answer, Done
<1>17. CASE PagesForgotten
  BY <1>0, <1>17 DEF PagesForgotten
<1>18. CASE UNCHANGED pageVars
  BY <1>0, <1>18 DEF pageVars
<1> HIDE DEF Fresh, AllSince
<1> QED BY <1>1, <1>2, <1>3, <1>4, <1>5, <1>6, <1>7, <1>8, <1>9, <1>10, <1>11, <1>12, <1>13,
           <1>14, <1>15, <1>16, <1>17, <1>18
        DEF PagesNext, World, Broadcast, Pinging, Serve, Asks, Gather, Gatherers

LEMMA FreshInitially == PagesInit => \A r \in Requests : Fresh(r)
<1> SUFFICES ASSUME PagesInit, NEW r \in Requests PROVE Fresh(r)
  OBVIOUS
<1>1. /\ forced[r] = "none" /\ stage[r] = "idle" /\ since[r] = {}
  BY DEF PagesInit, Gatherers
<1> QED BY <1>1 DEF Fresh

\* "Check now" answers with a state the network has had since it was pressed, for
\* any number of requests and of pings in the background (network.go 213-222).
THEOREM ForcedAnswersAreFresh == PagesSpec => []ForcedAnswerIsFresh
<1> DEFINE Inv == PagesInv /\ \A r \in Requests : Fresh(r)
<1>1. PagesInit => Inv
  BY PagesInitially, FreshInitially
<1>2. Inv /\ [PagesNext]_pageVars => Inv'
  <2> SUFFICES ASSUME Inv, [PagesNext]_pageVars PROVE Inv'
    OBVIOUS
  <2>1. PagesInv' /\ PagesTypeOK
    BY PagesStep DEF PagesInv
  <2> QED BY <2>1, FreshStep
<1>3. Inv => ForcedAnswerIsFresh
  BY DEF Fresh, AllSince, ForcedAnswerIsFresh
<1> QED BY <1>1, <1>2, <1>3, PTL DEF PagesSpec

-----------------------------------------------------------------------------
(* The rates.  An interface that the sampler knows and that is still the   *)
(* same has moved, modulo Modulus, what its counter differs from the last  *)
(* reading by.                                                             *)

Sent == [iface : Ifaces, bytes : Counters, moved : Counters, fate : Fates]
Honest(sample) ==
  sample.fate # "absent" /\ (sample.fate = "same" => sample.bytes = sample.moved)
HonestSent == {sample \in Sent : Honest(sample)}

Tallies(i) ==
  /\ fate[i] = "absent" <=> prev[i] = Absent
  /\ fate[i] = "same" =>
       /\ counter[i] # Absent
       /\ counter[i] = prev[i] + moved[i] \/ counter[i] = prev[i] + moved[i] - Modulus

TrafficInv ==
  /\ TrafficTypeOK
  /\ \A i \in Ifaces : Tallies(i)
  /\ queue \in Seq(HonestSent)

\* What a sample says of an interface that has tallied.
LEMMA SampleIsHonest ==
  ASSUME TrafficInv, NEW i \in Ifaces, prev[i] # Absent, counter[i] # Absent
  PROVE  Sample(i, counter) \in HonestSent
<1> USE TrafficAssumption DEF TrafficAssumption
<1>1. /\ prev[i] \in Counters /\ counter[i] \in Counters /\ moved[i] \in Counters
      /\ fate[i] \in Fates /\ Tallies(i)
  BY DEF TrafficInv, TrafficTypeOK
<1> DEFINE c == counter[i]
           p == prev[i]
           m == moved[i]
           bytes == (c - p) % Modulus
<1>2. c \in 0 .. Modulus - 1 /\ p \in 0 .. Modulus - 1 /\ m \in 0 .. Modulus - 1
  BY <1>1 DEF Counters
<1>3. fate[i] # "absent" /\ (fate[i] = "same" => c - p = m \/ c - p = m - Modulus)
  <2>1. fate[i] = "same" => c = p + m \/ c = p + m - Modulus
    BY <1>1 DEF Tallies
  <2> HIDE DEF c, p, m
  <2>2. fate[i] = "same" => c - p = m \/ c - p = m - Modulus
    BY <1>2, <2>1
  <2> QED BY <1>1, <2>2 DEF Tallies
<1>4. bytes \in Counters /\ (c - p = m \/ c - p = m - Modulus => bytes = m)
  <2> HIDE DEF c, p, m
  <2>1. m % Modulus = m /\ (m - Modulus) % Modulus = m
    BY <1>2
  <2>2. c - p \in Int
    BY <1>2
  <2>3. (c - p) % Modulus \in 0 .. Modulus - 1
    BY <2>2
  <2> QED BY <2>1, <2>3 DEF Counters
<1>5. Sample(i, counter) = [iface |-> i, bytes |-> bytes, moved |-> m, fate |-> fate[i]]
  BY DEF Sample
<1> HIDE DEF c, p, m, bytes
<1>6. m \in Counters
  BY <1>2 DEF Counters
<1> QED BY <1>1, <1>3, <1>4, <1>5, <1>6 DEF HonestSent, Sent, Honest

\* The samples of a tick, in any order, are a sequence of such.
LEMMA SamplesAreHonest ==
  ASSUME TrafficInv, NEW reading \in Readings, NEW samples \in SetToSeqs(Samples(reading))
  PROVE  samples \in Seq(HonestSent)
<1> DEFINE D == {j \in Ifaces : prev[j] # Absent /\ reading[j] # Absent}
           S == Samples(reading)
           f == [i \in D |-> Sample(i, reading)]
<1>1. S \subseteq HonestSent
  <2> SUFFICES ASSUME NEW i \in D PROVE Sample(i, reading) \in HonestSent
    BY DEF Samples
  <2>1. reading = counter
    BY DEF Readings, Nothing
  <2> QED BY <2>1, SampleIsHonest
<1>2. IsFiniteSet(S)
  <2>1. IsFiniteSet(D)
    BY TrafficAssumption, FS_Subset DEF TrafficAssumption
  <2>2. f \in Surjection(D, S)
    BY DEF Surjection, Samples
  <2> HIDE DEF D, S, f
  <2> QED BY <2>1, <2>2, FS_Surjection
<1>3. Cardinality(S) \in Nat
  BY <1>2, FS_CardinalityType
<1>4. samples \in [1 .. Cardinality(S) -> S]
  BY DEF SetToSeqs
<1> HIDE DEF S
<1>5. samples \in Seq(S)
  BY <1>3, <1>4
<1> QED BY <1>1, <1>5

\* After a tick every interface has tallied and moved nothing since.
LEMMA TickTallies ==
  ASSUME NEW reading \in [Ifaces -> {Absent} \cup Counters], prev' = reading,
         moved' = [i \in Ifaces |-> 0], fate' = FateAfter(reading),
         \A i \in Ifaces : counter'[i] = reading[i] \/ reading[i] = Absent
  PROVE  /\ prev' \in [Ifaces -> {Absent} \cup Counters]
         /\ moved' \in [Ifaces -> Counters] /\ fate' \in [Ifaces -> Fates]
         /\ \A i \in Ifaces : Tallies(i)'
<1> USE TrafficAssumption DEF TrafficAssumption
<1>1. prev' \in [Ifaces -> {Absent} \cup Counters] /\ fate' \in [Ifaces -> Fates]
  BY DEF FateAfter, Fates
<1>2. moved' \in [Ifaces -> Counters]
  BY DEF Counters
<1>3. ASSUME NEW i \in Ifaces PROVE Tallies(i)'
  <2>1. /\ fate'[i] = IF reading[i] = Absent THEN "absent" ELSE "same"
        /\ prev'[i] = reading[i] /\ moved'[i] = 0
    BY DEF FateAfter
  <2>2. reading[i] # Absent => counter'[i] = reading[i] /\ reading[i] \in Nat
    BY DEF Counters
  <2> QED BY <2>1, <2>2 DEF Tallies
<1> QED BY <1>1, <1>2, <1>3

LEMMA HonestIsSent == HonestSent \subseteq Sent
BY DEF HonestSent

LEMMA TrafficInitially == TrafficInit => TrafficInv
<1> SUFFICES ASSUME TrafficInit PROVE TrafficInv
  OBVIOUS
<1> USE TrafficAssumption DEF TrafficAssumption, TrafficInit
<1>1. counter \in [Ifaces -> {Absent} \cup Counters]
  BY DEF Counters
<1>2. moved \in [Ifaces -> Counters] /\ fate \in [Ifaces -> Fates]
  BY DEF Counters, FateAfter, Fates
<1>3. <<>> \in Seq(HonestSent) /\ <<>> \in Seq(Sent)
  OBVIOUS
<1>4. ASSUME NEW i \in Ifaces PROVE Tallies(i)
  <2>1. /\ fate[i] = IF counter[i] = Absent THEN "absent" ELSE "same"
        /\ prev[i] = counter[i] /\ moved[i] = 0
    BY DEF FateAfter
  <2>2. counter[i] # Absent => counter[i] \in Nat
    BY <1>1 DEF Counters
  <2> QED BY <2>1, <2>2 DEF Tallies
<1> QED BY <1>1, <1>2, <1>3, <1>4 DEF TrafficInv, TrafficTypeOK, Sent

\* A byte, through the wrap of the counter.
LEMMA MovesTallies ==
  ASSUME TrafficInv, NEW i \in Ifaces, Moves(i)
  PROVE  /\ counter' \in [Ifaces -> {Absent} \cup Counters]
         /\ moved' \in [Ifaces -> Counters]
         /\ \A j \in Ifaces : Tallies(j)'
<1> USE TrafficAssumption DEF TrafficAssumption
<1>1. /\ counter \in [Ifaces -> {Absent} \cup Counters] /\ moved \in [Ifaces -> Counters]
      /\ prev' = prev /\ fate' = fate /\ prev \in [Ifaces -> {Absent} \cup Counters]
      /\ counter' = [counter EXCEPT ![i] = (counter[i] + 1) % Modulus]
      /\ moved' = [moved EXCEPT ![i] = moved[i] + 1]
      /\ counter[i] # Absent /\ moved[i] + 1 < Modulus
      /\ \A j \in Ifaces : Tallies(j)
  BY DEF Moves, TrafficInv, TrafficTypeOK
<1> DEFINE c == counter[i]
           p == prev[i]
           m == moved[i]
           next == (c + 1) % Modulus
<1>2. c \in 0 .. Modulus - 1 /\ m \in 0 .. Modulus - 1 /\ m + 1 < Modulus
  BY <1>1 DEF Counters
<1>3. next \in Counters /\ next # Absent /\ m + 1 \in Counters
      /\ (next = c + 1 \/ (c + 1 = Modulus /\ next = 0))
  <2> HIDE DEF c, m
  <2>1. CASE c + 1 = Modulus
    <3>1. Modulus % Modulus = 0
      OBVIOUS
    <3> QED BY <1>2, <2>1, <3>1 DEF Counters, Absent
  <2>2. CASE c + 1 # Modulus
    <3>1. c + 1 \in 0 .. Modulus - 1
      BY <1>2, <2>2
    <3>2. (c + 1) % Modulus = c + 1
      BY <3>1
    <3> QED BY <1>2, <3>1, <3>2 DEF Counters, Absent
  <2> QED BY <2>1, <2>2
<1>4. counter'[i] = next /\ moved'[i] = m + 1
  BY <1>1
<1>5. p # Absent => p \in 0 .. Modulus - 1
  BY <1>1 DEF Counters
<1>6. fate[i] = "same" => p # Absent /\ (c = p + m \/ c = p + m - Modulus)
  BY <1>1 DEF Tallies
<1>7. Tallies(i)'
  <2> HIDE DEF c, p, m, next
  <2>1. fate[i] = "same" => next = p + (m + 1) \/ next = p + (m + 1) - Modulus
    BY <1>2, <1>3, <1>5, <1>6
  <2>2. fate[i] = "absent" <=> p = Absent
    BY <1>1 DEF Tallies, p
  <2> QED BY <1>1, <1>3, <1>4, <2>1, <2>2 DEF Tallies, p
<1>8. ASSUME NEW j \in Ifaces, j # i PROVE Tallies(j)'
  <2>1. counter'[j] = counter[j] /\ moved'[j] = moved[j] /\ Tallies(j)
    BY <1>1, <1>8
  <2> QED BY <1>1, <2>1 DEF Tallies
<1>9. counter' \in [Ifaces -> {Absent} \cup Counters] /\ moved' \in [Ifaces -> Counters]
  BY <1>1, <1>3
<1> QED BY <1>7, <1>8, <1>9

LEMMA TrafficStep == TrafficInv /\ [TrafficNext]_trafficVars => TrafficInv'
<1> SUFFICES ASSUME TrafficInv, [TrafficNext]_trafficVars PROVE TrafficInv'
  OBVIOUS
<1> USE TrafficAssumption DEF TrafficAssumption
<1>1. /\ counter \in [Ifaces -> {Absent} \cup Counters] /\ moved \in [Ifaces -> Counters]
      /\ prev \in [Ifaces -> {Absent} \cup Counters] /\ fate \in [Ifaces -> Fates]
      /\ watching \in BOOLEAN /\ queue \in Seq(HonestSent)
      /\ \A i \in Ifaces : Tallies(i)
  BY DEF TrafficInv, TrafficTypeOK
<1>2. ASSUME queue' \in Seq(HonestSent) PROVE queue' \in Seq(Sent)
  BY <1>2, HonestIsSent
<1>3. ASSUME NEW i \in Ifaces, Removed(i) PROVE TrafficInv'
  <2>1. counter' \in [Ifaces -> {Absent} \cup Counters] /\ fate' \in [Ifaces -> Fates]
    BY <1>1, <1>3 DEF Removed, Fates
  <2>2. ASSUME NEW j \in Ifaces PROVE Tallies(j)'
    BY <1>1, <1>3 DEF Removed, Tallies, Fates
  <2> QED BY <1>1, <1>2, <1>3, <2>1, <2>2 DEF Removed, TrafficInv, TrafficTypeOK, Sent
<1>4. ASSUME NEW i \in Ifaces, Created(i) PROVE TrafficInv'
  <2>1. counter' \in [Ifaces -> {Absent} \cup Counters] /\ moved' \in [Ifaces -> Counters]
    BY <1>1, <1>4 DEF Created, Counters
  <2>2. ASSUME NEW j \in Ifaces PROVE Tallies(j)'
    BY <1>1, <1>4 DEF Created, Tallies
  <2> QED BY <1>1, <1>2, <1>4, <2>1, <2>2 DEF Created, TrafficInv, TrafficTypeOK, Sent
<1>5. ASSUME NEW i \in Ifaces, Moves(i) PROVE TrafficInv'
  BY <1>1, <1>2, <1>5, MovesTallies DEF Moves, TrafficInv, TrafficTypeOK, Sent
<1>6. ASSUME NEW reading \in Readings, SampleTick(reading) PROVE TrafficInv'
  <2>1. reading \in [Ifaces -> {Absent} \cup Counters]
        /\ \A i \in Ifaces : counter[i] = reading[i] \/ reading[i] = Absent
    BY <1>1 DEF Readings, Nothing
  <2>2. PICK samples \in SetToSeqs(Samples(reading)) :
          queue' = IF watching THEN Fitting(queue \o samples) ELSE queue
    BY <1>6 DEF SampleTick
  <2>3. samples \in Seq(HonestSent)
    BY SamplesAreHonest
  <2>4. queue \o samples \in Seq(HonestSent)
    BY <1>1, <2>3
  <2>5. ASSUME NEW q \in Seq(HonestSent) PROVE Fitting(q) \in Seq(HonestSent)
    <3>1. CASE Len(q) <= QueueSize
      BY <3>1 DEF Fitting
    <3>2. CASE ~(Len(q) <= QueueSize)
      <4>1. Len(q) \in Nat /\ QueueSize \in Nat /\ QueueSize <= Len(q)
        BY <3>2
      <4>2. \A k \in 1 .. QueueSize : q[k] \in HonestSent
        BY <4>1
      <4>3. SubSeq(q, 1, QueueSize) \in Seq(HonestSent)
        BY <4>1, <4>2
      <4> QED BY <3>2, <4>3 DEF Fitting
    <3> QED BY <3>1, <3>2
  <2>6. queue' \in Seq(HonestSent)
    BY <1>1, <2>2, <2>4, <2>5
  <2>7. /\ prev' = reading /\ moved' = [i \in Ifaces |-> 0] /\ fate' = FateAfter(reading)
        /\ counter' = counter /\ watching' = watching
    BY <1>6 DEF SampleTick, Kept
  <2>8. /\ prev' \in [Ifaces -> {Absent} \cup Counters]
        /\ moved' \in [Ifaces -> Counters] /\ fate' \in [Ifaces -> Fates]
        /\ \A i \in Ifaces : Tallies(i)'
    BY <2>1, <2>7, TickTallies
  <2> QED BY <1>1, <1>2, <2>6, <2>7, <2>8 DEF TrafficInv, TrafficTypeOK, Sent
<1>7. ASSUME Watch \/ Unwatch \/ TakeSample PROVE TrafficInv'
  <2>1. queue' \in Seq(HonestSent) /\ watching' \in BOOLEAN
    <3>1. CASE Watch \/ Unwatch
      <4>1. queue' = queue \/ queue' = <<>>
        BY <3>1 DEF Watch, Unwatch
      <4>2. <<>> \in Seq(HonestSent)
        OBVIOUS
      <4>3. queue' \in Seq(HonestSent)
        BY <1>1, <4>1, <4>2, Zenon
      <4> QED BY <3>1, <4>3 DEF Watch, Unwatch
    <3>2. CASE TakeSample
      <4>1. queue # <<>> /\ queue' = Tail(queue) /\ watching' = watching
        BY <3>2 DEF TakeSample
      <4>2. Tail(queue) \in Seq(HonestSent)
        BY <1>1, <4>1
      <4> QED BY <1>1, <4>1, <4>2
    <3> QED BY <1>7, <3>1, <3>2
  <2>2. UNCHANGED <<counter, prev, moved, fate>>
    BY <1>7 DEF Watch, Unwatch, TakeSample
  <2> QED BY <1>1, <1>2, <2>1, <2>2 DEF TrafficInv, TrafficTypeOK, Sent, Tallies
<1>8. ASSUME TrafficForgotten PROVE TrafficInv'
  <2>1. /\ prev' = counter /\ moved' = [i \in Ifaces |-> 0] /\ fate' = FateAfter(counter)
        /\ counter' = counter /\ watching' = FALSE /\ queue' = <<>>
    BY <1>8 DEF TrafficForgotten, Started
  <2>2. /\ prev' \in [Ifaces -> {Absent} \cup Counters]
        /\ moved' \in [Ifaces -> Counters] /\ fate' \in [Ifaces -> Fates]
        /\ \A i \in Ifaces : Tallies(i)'
    BY <1>1, <2>1, TickTallies
  <2>3. queue' \in Seq(HonestSent)
    BY <2>1
  <2> QED BY <1>1, <1>2, <2>1, <2>2, <2>3 DEF TrafficInv, TrafficTypeOK, Sent
<1>9. ASSUME UNCHANGED trafficVars PROVE TrafficInv'
  BY <1>9 DEF trafficVars, TrafficInv, TrafficTypeOK, Tallies
<1> QED BY <1>3, <1>4, <1>5, <1>6, <1>7, <1>8, <1>9 DEF TrafficNext, Kernel, Sampler

\* What the page is sent is what was moved, for counters of any width and any
\* number of interfaces (bandwidth.go 78-93).
THEOREM RatesAlwaysTraffic == TrafficSpec => []RatesAreTraffic
<1>1. TrafficInv => RatesAreTraffic
  <2> SUFFICES ASSUME TrafficInv, NEW k \in DOMAIN queue PROVE Honest(queue[k])
    BY DEF RatesAreTraffic, Honest
  <2>1. queue \in Seq(HonestSent) /\ k \in 1 .. Len(queue)
    BY DEF TrafficInv
  <2> QED BY <2>1 DEF HonestSent
<1> QED BY <1>1, TrafficInitially, TrafficStep, PTL DEF TrafficSpec

-----------------------------------------------------------------------------
(* The process.  Each of its steps is a step of a part, or of several at   *)
(* once (a login that ends, a process that ends), and leaves the others.   *)

\* Steps of one part.
LEMMA OnePart ==
  /\ BroadcastRuns \/ PingRuns \/ DeliverRuns \/ Connects \/ IsRefused \/ CacheExpires =>
       PagesNext /\ UNCHANGED <<trafficVars, limiterVars, sessionVars>>
  /\ \A r \in Requests :
       RequestRuns(r) \/ UserAsks(r) =>
         PagesNext /\ UNCHANGED <<trafficVars, limiterVars, sessionVars>>
  /\ SamplerRuns => TrafficNext /\ UNCHANGED <<pageVars, limiterVars, sessionVars>>
<1>1. ASSUME BroadcastRuns \/ PingRuns \/ DeliverRuns \/ Connects \/ IsRefused \/ CacheExpires
      PROVE  PagesNext /\ UNCHANGED <<trafficVars, limiterVars, sessionVars>>
  BY <1>1 DEF BroadcastRuns, PingRuns, DeliverRuns, Connects, IsRefused, CacheExpires, Pages,
              PagesNext, World
<1>2. ASSUME NEW r \in Requests, RequestRuns(r) \/ UserAsks(r)
      PROVE  PagesNext /\ UNCHANGED <<trafficVars, limiterVars, sessionVars>>
  BY <1>2 DEF RequestRuns, UserAsks, Pages, PagesNext, Asks
<1>3. ASSUME SamplerRuns PROVE TrafficNext /\ UNCHANGED <<pageVars, limiterVars, sessionVars>>
  BY <1>3 DEF SamplerRuns, Traffic, TrafficNext
<1> QED BY <1>1, <1>2, <1>3

PartsNext ==
  /\ [PagesNext]_pageVars
  /\ [TrafficNext]_trafficVars
  /\ [LimiterNext]_limiterVars
  /\ [SessionsNext]_sessionVars

LEMMA SurroundingsStep == Surroundings => PartsNext
<1> SUFFICES ASSUME Surroundings PROVE PartsNext
  OBVIOUS
<1>1. ASSUME CacheExpires PROVE PartsNext
  BY <1>1, OnePart DEF PartsNext
<1>2. ASSUME Pages(NetChanges) \/ Pages(ToggleForm) \/ Pages(Breaks)
             \/ \E s \in Sources : Pages(SourceChanges(s))
      PROVE  PartsNext
  BY <1>2 DEF PartsNext, Pages, PagesNext, World
<1>3. ASSUME Traffic(Kernel) PROVE PartsNext
  BY <1>3 DEF PartsNext, Traffic, TrafficNext
<1>4. ASSUME Limiter(ClockTicks) PROVE PartsNext
  BY <1>4 DEF PartsNext, Limiter, LimiterNext
<1>5. ASSUME Browser(SecondPasses \/ ClockIsSet \/ CookieEnds) \/ Browser(Cleanup) \/ Browser(LogOut)
      PROVE  PartsNext
  BY <1>5 DEF PartsNext, Browser, SessionsNext
<1> QED BY <1>1, <1>2, <1>3, <1>4, <1>5 DEF Surroundings

LEMMA LoginStep == ASSUME NEW a \in Attempts, Login(a) PROVE PartsNext
<1>1. ASSUME LoginAllowed(a) PROVE PartsNext
  BY <1>1 DEF PartsNext, LoginAllowed, Limiter, LimiterNext
<1>2. ASSUME NEW h \in Hosts, LoginAsked(a, h) PROVE PartsNext
  BY <1>2 DEF PartsNext, LoginAsked, Limiter, LimiterNext
<1>3. ASSUME LoginAnswered(a) PROVE PartsNext
  BY <1>3 DEF PartsNext, LoginAnswered, LimiterNext, SessionsNext
<1> QED BY <1>1, <1>2, <1>3 DEF Login

LEMMA ProcessStep == Process => PartsNext
<1> SUFFICES ASSUME Process PROVE PartsNext
  OBVIOUS
<1>1. ASSUME Terminate \/ DeadlinePasses PROVE PartsNext
  BY <1>1 DEF PartsNext, Terminate, DeadlinePasses
<1>2. ASSUME Exit \/ Crash PROVE PartsNext
  BY <1>2 DEF PartsNext, Exit, Crash, Ends, PagesNext, LimiterNext, TrafficNext, SessionsNext
<1>3. ASSUME Start PROVE PartsNext
  BY <1>3 DEF PartsNext, Start, TrafficNext
<1> QED BY <1>1, <1>2, <1>3 DEF Process

LEMMA NextStep == [Next]_vars => PartsNext
<1> SUFFICES ASSUME [Next]_vars PROVE PartsNext
  OBVIOUS
<1>1. ASSUME BroadcastRuns \/ PingRuns \/ DeliverRuns \/ Connects \/ IsRefused \/ SamplerRuns
      PROVE  PartsNext
  BY <1>1, OnePart DEF PartsNext
<1>2. ASSUME NEW r \in Requests, RequestRuns(r) \/ UserAsks(r) PROVE PartsNext
  BY <1>2, OnePart DEF PartsNext
<1>3. ASSUME UNCHANGED vars PROVE PartsNext
  BY <1>3 DEF PartsNext, vars
<1> QED BY <1>1, <1>2, <1>3, SurroundingsStep, LoginStep, ProcessStep DEF Next

\* Only a refusal ends the stream for good.
LEMMA RefusedOnly ==
  ASSUME Next, stream' = "failed", stream # "failed"
  PROVE  IsRefused
<1>1. ASSUME NEW r \in Requests, RequestRuns(r) \/ UserAsks(r) PROVE FALSE
  BY <1>1 DEF RequestRuns, UserAsks, Pages, Serve, ForcedAnswers, ForceStores, Gather,
              CheckInternetConnectivity, ReadSource, Answer, Shows, SetRow, CheckInternet,
              Press, ShowDashboard
<1>2. ASSUME BroadcastRuns \/ PingRuns \/ DeliverRuns \/ Connects PROVE FALSE
  BY <1>2 DEF BroadcastRuns, PingRuns, DeliverRuns, Connects, Pages, Broadcast, Gather, Tick,
              CheckInternetConnectivity, ReadSource, Publish, Pinging, PingAnswers, PingStores,
              Deliver, Connect
<1>3. ASSUME Surroundings PROVE FALSE
  BY <1>3 DEF Surroundings, CacheExpires, Pages, Traffic, Limiter, Browser, pageVars, Expires,
              NetChanges, ToggleForm, Breaks, SourceChanges
<1>4. ASSUME Process PROVE FALSE
  BY <1>4 DEF Process, Terminate, DeadlinePasses, Exit, Crash, Ends, Start, PagesForgotten, pageVars
<1>5. ASSUME NEW a \in Attempts, Login(a) PROVE FALSE
  BY <1>5 DEF Login, LoginAllowed, LoginAnswered, LoginAsked, Limiter, pageVars
<1>6. ASSUME SamplerRuns PROVE FALSE
  BY <1>6 DEF SamplerRuns, Traffic, pageVars
<1> QED BY <1>1, <1>2, <1>3, <1>4, <1>5, <1>6 DEF Next

\* The process implements each of its parts (main.go 48-208 starts, stops and
\* connects them).
THEOREM SpecImplementsParts ==
  Spec => PagesSpec /\ TrafficSpec /\ LimiterSpec /\ SessionsSpec
<1>1. Init => PagesInit /\ TrafficInit /\ LimiterInit /\ SessionsInit
  BY DEF Init
<1> QED BY <1>1, NextStep, PTL
        DEF Spec, PartsNext, PagesSpec, TrafficSpec, LimiterSpec, SessionsSpec

\* A refused reconnection has a reason of its own: the user has logged out, the
\* cookie is gone, the session has run for its TTL, or the query for it may have
\* failed (auth.go 18-22, session.go 27-58).
THEOREM PagesSurviveRestarts == Spec => PageSurvivesRestarts
<1>1. Spec => SessionsSpec
  BY SpecImplementsParts
<1>2. SessionsSpec => []SessionsInv
  BY SessionsInitially, SessionsStep, PTL DEF SessionsSpec
<1>3. SessionsInv /\ [Next]_vars =>
        [stream' = "failed" /\ stream # "failed" =>
           \/ cookie = None \/ cookie \in out \/ peak[cookie] >= issued[cookie] + TTL
           \/ "query" \in may]_vars
  <2> SUFFICES ASSUME SessionsInv, Next, stream' = "failed", stream # "failed",
                      cookie # None, cookie \notin out, "query" \notin may
               PROVE  peak[cookie] >= issued[cookie] + TTL
    OBVIOUS
  <2>1. IsRefused
    BY RefusedOnly
  <2>2. ~Valid(cookie) /\ cookie \in created
    BY <2>1 DEF IsRefused, LoggedIn, SessionsInv, SessionsTypeOK
  <2> QED BY <2>2, SessionsAssumption
          DEF Valid, SessionsInv, SessionsTypeOK, SessionsAssumption
<1> QED BY <1>1, <1>2, <1>3, PTL DEF Spec, PageSurvivesRestarts

\* So the process has their properties.
COROLLARY ServerKeepsParts ==
  Spec => /\ NeverBackInTime /\ []ForcedAnswerIsFresh
          /\ []RatesAreTraffic /\ []AttemptsBounded /\ []ValidExactly
<1> QED BY SpecImplementsParts, PagesNeverGoBack, ForcedAnswersAreFresh,
           RatesAlwaysTraffic, AttemptsAlwaysBounded, SessionsAlwaysExact, PTL

=============================================================================
