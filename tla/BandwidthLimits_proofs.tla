----------------------- MODULE BandwidthLimits_proofs -----------------------
(***************************************************************************)
(* Bandwidth limits, for any finite set of devices, any rates and any      *)
(* class numbers.                                                          *)
(*                                                                         *)
(* First the numbering: two devices never share a class, and a device's    *)
(* number depends on the devices before it only.  Then the script: its     *)
(* commands are in an order (InOrder) and leave no device out (Complete),  *)
(* so that what the kernel holds after each command is known, whatever it  *)
(* held before (Built).  Last the applies: one that nothing overlaps has   *)
(* the table in its snapshot and a kernel that is Built as far as its      *)
(* script has run (Tracked), which makes InSyncWhenIdle inductive.         *)
(***************************************************************************)
EXTENDS BandwidthLimits, FiniteSetTheorems, WellFoundedInduction, SequenceTheorems, TLAPS

Before(limits, m) == {n \in Limited(limits) : n < m}

LEMMA BeforeFinite ==
  ASSUME NEW limits, NEW m
  PROVE  IsFiniteSet(Before(limits, m)) /\ Cardinality(Before(limits, m)) \in Nat
<1>1. Before(limits, m) \subseteq MACs
  BY DEF Before, Limited
<1>2. IsFiniteSet(Before(limits, m))
  BY <1>1, LimitsAssumption, FS_Subset
<1> QED
  BY <1>2, FS_CardinalityType

\* A limited device comes strictly before every later one in the numbering.
LEMMA ClassIDMonotonic ==
  ASSUME NEW limits, NEW m \in Limited(limits), NEW n \in Limited(limits), m < n
  PROVE  ClassID(limits, m) < ClassID(limits, n)
<1> DEFINE A == Before(limits, m)
           B == Before(limits, n)
<1>1. m \in Nat /\ n \in Nat /\ Limited(limits) \subseteq Nat
  BY LimitsAssumption DEF Limited
<1>2. A \subseteq B /\ m \in B /\ m \notin A
  BY <1>1 DEF Before
<1>3. A # B
  BY <1>2
<1>4. Cardinality(A) < Cardinality(B)
  BY <1>2, <1>3, BeforeFinite, FS_Subset
<1>5. Cardinality(A) \in Nat /\ Cardinality(B) \in Nat /\ classIDStart \in Nat
  BY BeforeFinite, LimitsAssumption
<1>6. ClassID(limits, m) = classIDStart + Cardinality(A)
      /\ ClassID(limits, n) = classIDStart + Cardinality(B)
  BY DEF ClassID, Before
<1> HIDE DEF A, B
<1> QED
  BY <1>4, <1>5, <1>6

\* generateBandwidthScript gives no two limited devices the same class and
\* fwmark, whatever the table.
THEOREM ClassIDsDistinct ==
  ASSUME NEW limits, NEW m \in Limited(limits), NEW n \in Limited(limits), m # n
  PROVE  ClassID(limits, m) # ClassID(limits, n)
<1>1. m \in Nat /\ n \in Nat
  BY LimitsAssumption DEF Limited
<1>2. ClassID(limits, m) \in Nat /\ ClassID(limits, n) \in Nat
  <2>1. classIDStart \in Nat
    BY LimitsAssumption
  <2>2. Cardinality(Before(limits, m)) \in Nat /\ Cardinality(Before(limits, n)) \in Nat
    BY BeforeFinite
  <2> QED
    BY <2>1, <2>2 DEF ClassID, Before
<1>3. CASE m < n
  BY <1>2, <1>3, ClassIDMonotonic
<1>4. CASE n < m
  BY <1>2, <1>4, ClassIDMonotonic
<1> QED
  BY <1>1, <1>3, <1>4

\* The stability the comment at bandwidth_limits.go:135 can rely on: a device
\* keeps its class as long as the same devices before it are limited.
THEOREM ClassIDStableAgainstLaterDevices ==
  ASSUME NEW before, NEW after, NEW m \in MACs,
         \A n \in MACs : n < m => (n \in Limited(before) <=> n \in Limited(after))
  PROVE  ClassID(before, m) = ClassID(after, m)
<1>1. {n \in Limited(before) : n < m} = {n \in Limited(after) : n < m}
  BY DEF Limited
<1> QED
  BY <1>1 DEF ClassID

\* Every class the script installs lies between classIDStart and classIDMax.
THEOREM InstalledClassesInRange ==
  ASSUME NEW limits, NEW m \in Installed(limits)
  PROVE  ClassID(limits, m) \in classIDStart..classIDMax
<1>1. Cardinality({n \in Limited(limits) : n < m}) \in Nat
  BY BeforeFinite DEF Before
<1> QED
  BY <1>1, LimitsAssumption DEF Installed, ClassID

-----------------------------------------------------------------------------
(* Induction on the indices of a script, and loops over them.              *)

LEMMA UpTo ==
  ASSUME NEW N \in Nat, NEW S, 0 \in S, \A n \in 1 .. N : n - 1 \in S => n \in S
  PROVE  0 .. N \subseteq S
<1> SUFFICES ASSUME (0 .. N) \ S # {} PROVE FALSE
  OBVIOUS
<1> DEFINE T == (0 .. N) \ S
<1>1. T # {} /\ T \subseteq Nat
  OBVIOUS
<1> HIDE DEF T
<1>2. \E x \in T : \A y \in T : <<y, x>> \notin OpToRel(<, Nat)
  BY <1>1, NatLessThanWellFounded, WFMin
<1>3. PICK x \in T : \A y \in T : ~(y < x)
  BY <1>1, <1>2 DEF OpToRel
<1>4. x \in 1 .. N /\ x - 1 \in Nat /\ x - 1 < x
  BY DEF T
<1>5. x - 1 \in T
  BY <1>4 DEF T
<1> QED BY <1>3, <1>4, <1>5

IsLoop(N, V, v0, next) ==
  N \in Nat /\ v0 \in V /\ next \in [V \X (1 .. N) -> V]

IsRun(f, N, V, v0, next) ==
  /\ f \in [0 .. N -> V] /\ f[0] = v0
  /\ \A n \in 1 .. N : f[n] = next[<<f[n - 1], n>>]

LEMMA Loop ==
  ASSUME NEW N, NEW V, NEW v0, NEW next, IsLoop(N, V, v0, next)
  PROVE  \E f : IsRun(f, N, V, v0, next)
<1>0. N \in Nat /\ v0 \in V /\ next \in [V \X (1 .. N) -> V]
  BY DEF IsLoop
<1> DEFINE Runs(f, m) == f[0] = v0 /\ \A n \in 1 .. m : f[n] = next[<<f[n - 1], n>>]
           S == {m \in 0 .. N : \E f \in [0 .. m -> V] : Runs(f, m)}
<1>1. 0 \in S
  <2> USE <1>0
  <2> DEFINE f == [n \in 0 .. 0 |-> v0]
  <2>1. f \in [0 .. 0 -> V] /\ Runs(f, 0)
    OBVIOUS
  <2> HIDE DEF f, Runs
  <2> QED BY <2>1
<1>2. ASSUME NEW n \in 1 .. N, n - 1 \in S PROVE n \in S
  <2> USE <1>0
  <2>1. PICK f \in [0 .. n - 1 -> V] : Runs(f, n - 1)
    BY <1>2
  <2> DEFINE g == [i \in 0 .. n |-> IF i = n THEN next[<<f[n - 1], n>>] ELSE f[i]]
  <2>2. next[<<f[n - 1], n>>] \in V
    OBVIOUS
  <2>3. g \in [0 .. n -> V]
    BY <2>2
  <2>4. Runs(g, n)
    <3>1. g[0] = v0
      BY <2>1
    <3>2. ASSUME NEW i \in 1 .. n PROVE g[i] = next[<<g[i - 1], i>>]
      <4>1. CASE i = n
        <5>1. n \in 0 .. n /\ n - 1 \in 0 .. n /\ n - 1 # n
          OBVIOUS
        <5>2. g[n] = next[<<f[n - 1], n>>] /\ g[n - 1] = f[n - 1]
          BY <5>1
        <5> QED BY <4>1, <5>2
      <4>2. CASE i # n
        <5>1. i \in 1 .. n - 1
          BY <4>2
        <5>2. g[i] = f[i] /\ g[i - 1] = f[i - 1]
          BY <5>1
        <5> QED BY <2>1, <5>1, <5>2
      <4> QED BY <4>1, <4>2
    <3> HIDE DEF g
    <3> QED BY <3>1, <3>2
  <2> HIDE DEF g, Runs
  <2> QED BY <2>3, <2>4
<1> HIDE DEF S
<1>3. N \in S
  BY <1>0, <1>1, <1>2, UpTo
<1>4. PICK f \in [0 .. N -> V] : Runs(f, N)
  BY <1>3 DEF S
<1> QED BY <1>4 DEF IsRun

-----------------------------------------------------------------------------
(* The places of the devices in a script.                                  *)

Limits == [MACs -> {NoLimit} \cup Mbps]
Count(l) == Cardinality(Installed(l))
Ahead(S, m) == {n \in S : n < m}

LEMMA AheadFinite ==
  ASSUME NEW S \in SUBSET MACs, NEW m
  PROVE  /\ IsFiniteSet(S) /\ IsFiniteSet(Ahead(S, m))
         /\ Cardinality(S) \in Nat /\ Cardinality(Ahead(S, m)) \in Nat
<1>1. IsFiniteSet(S)
  BY LimitsAssumption, FS_Subset
<1>2. Ahead(S, m) \subseteq S
  BY DEF Ahead
<1> QED BY <1>1, <1>2, FS_Subset, FS_CardinalityType

LEMMA AheadGrows ==
  ASSUME NEW S \in SUBSET MACs, NEW m \in S, NEW n \in S, m < n
  PROVE  Cardinality(Ahead(S, m)) < Cardinality(Ahead(S, n))
<1>1. S \subseteq Nat
  BY LimitsAssumption
<1>2. Ahead(S, m) \subseteq Ahead(S, n) /\ m \in Ahead(S, n) /\ m \notin Ahead(S, m)
  <2>1. m \in Nat /\ n \in Nat /\ ~(m < m)
    BY <1>1
  <2>2. \A x \in S : x < m => x < n
    BY <1>1, <2>1
  <2> QED BY <2>1, <2>2 DEF Ahead
<1>3. Ahead(S, m) # Ahead(S, n)
  BY <1>2
<1> QED BY <1>2, <1>3, AheadFinite, FS_Subset

\* Of a finite set of numbers, each has its own place, and every place is taken.
LEMMA Places ==
  ASSUME NEW S \in SUBSET MACs
  PROVE  /\ \A m \in S : Cardinality(Ahead(S, m)) < Cardinality(S)
         /\ \A m, n \in S : Cardinality(Ahead(S, m)) = Cardinality(Ahead(S, n)) => m = n
         /\ \A i \in 1 .. Cardinality(S) : \E m \in S : Cardinality(Ahead(S, m)) = i - 1
<1>0. S \subseteq Nat /\ IsFiniteSet(S) /\ Cardinality(S) \in Nat
      /\ \A m : Cardinality(Ahead(S, m)) \in Nat
  BY LimitsAssumption, AheadFinite
<1>1. ASSUME NEW m \in S PROVE Cardinality(Ahead(S, m)) < Cardinality(S)
  <2>1. Ahead(S, m) \subseteq S /\ m \notin Ahead(S, m)
    BY <1>0 DEF Ahead
  <2>2. Ahead(S, m) # S
    BY <2>1
  <2> QED BY <1>0, <2>1, <2>2, FS_Subset
<1>2. ASSUME NEW m \in S, NEW n \in S, Cardinality(Ahead(S, m)) = Cardinality(Ahead(S, n))
      PROVE  m = n
  <2>1. m \in Nat /\ n \in Nat
    BY <1>0
  <2>2. ~(m < n) /\ ~(n < m)
    BY <1>0, <1>2, AheadGrows
  <2> QED BY <2>1, <2>2
<1>3. ASSUME NEW T \in SUBSET S, S \ T # {}
      PROVE  \E m \in S \ T : \A n \in S \ T : ~(n < m)
  <2>1. \E m \in S \ T : \A n \in S \ T : <<n, m>> \notin OpToRel(<, Nat)
    BY <1>0, <1>3, NatLessThanWellFounded, WFMin
  <2> QED BY <1>0, <2>1 DEF OpToRel
<1>4. \A i \in 1 .. Cardinality(S) : \E m \in S : Cardinality(Ahead(S, m)) = i - 1
  <2> DEFINE N == Cardinality(S)
             Taken == {i \in 0 .. N : i = 0 \/ \E m \in S : Cardinality(Ahead(S, m)) = i - 1}
  <2>1. 0 \in Taken /\ N \in Nat
    BY <1>0
  <2>2. ASSUME NEW i \in 1 .. N, i - 1 \in Taken PROVE i \in Taken
    <3>1. CASE i = 1
      <4>1. S # {}
        <5>1. N # 0
          BY <1>0, <3>1
        <5> QED BY <5>1, FS_EmptySet
      <4>2. PICK m \in S : \A n \in S : ~(n < m)
        BY <1>3, <4>1
      <4>3. Ahead(S, m) = {}
        BY <4>2 DEF Ahead
      <4>4. Cardinality(Ahead(S, m)) = i - 1
        BY <3>1, <4>3, FS_EmptySet
      <4> QED BY <4>4
    <3>2. CASE i # 1
      <4>1. PICK m \in S : Cardinality(Ahead(S, m)) = i - 2
        BY <2>2, <3>2
      <4> DEFINE T == Ahead(S, m) \cup {m}
      <4>2. T \subseteq S /\ IsFiniteSet(T) /\ Cardinality(T) = i - 1
        <5>1. m \notin Ahead(S, m) /\ Ahead(S, m) \subseteq S
          BY <1>0 DEF Ahead
        <5>2. IsFiniteSet(Ahead(S, m))
          BY AheadFinite
        <5> QED BY <4>1, <5>1, <5>2, FS_AddElement
      <4>3. S \ T # {}
        BY <4>2
      <4>4. PICK n \in S \ T : \A x \in S \ T : ~(x < n)
        BY <1>3, <4>2, <4>3
      <4>5. Ahead(S, n) = T
        <5>1. ASSUME NEW x \in S, x < n PROVE x \in T
          BY <4>4, <5>1
        <5>2. m < n
          BY <1>0, <4>4 DEF Ahead
        <5>3. ASSUME NEW x \in T PROVE x \in S /\ x < n
          BY <1>0, <5>2 DEF Ahead
        <5> HIDE DEF T
        <5> QED BY <4>2, <5>1, <5>3 DEF Ahead
      <4> QED BY <4>2, <4>5
    <3> QED BY <3>1, <3>2
  <2> HIDE DEF Taken, N
  <2>3. 0 .. N \subseteq Taken
    BY <2>1, <2>2, UpTo
  <2> QED BY <2>1, <2>3 DEF Taken, N
<1> QED BY <1>1, <1>2, <1>4

LEMMA NthOf ==
  ASSUME NEW l
  PROVE  /\ Count(l) \in Nat
         /\ \A i \in 1 .. Count(l) : Nth(l, i) \in Installed(l)
         /\ \A m \in Installed(l) : \E i \in 1 .. Count(l) : Nth(l, i) = m
<1>1. Installed(l) \in SUBSET MACs
  BY DEF Installed, Limited
<1>2. Count(l) \in Nat /\ \A m : Cardinality(Ahead(Installed(l), m)) \in Nat
  BY <1>1, AheadFinite DEF Count
<1>3. \A i : Nth(l, i) = CHOOSE m \in Installed(l) : Cardinality(Ahead(Installed(l), m)) = i - 1
  BY DEF Nth, Ahead
<1>4. \A i \in 1 .. Count(l) :
        Nth(l, i) \in Installed(l) /\ Cardinality(Ahead(Installed(l), Nth(l, i))) = i - 1
  <2> TAKE i \in 1 .. Count(l)
  <2>1. \E m \in Installed(l) : Cardinality(Ahead(Installed(l), m)) = i - 1
    BY <1>1, Places DEF Count
  <2> QED BY <1>3, <2>1
<1>5. ASSUME NEW m \in Installed(l) PROVE \E i \in 1 .. Count(l) : Nth(l, i) = m
  <2> DEFINE i == Cardinality(Ahead(Installed(l), m)) + 1
  <2>1. i \in 1 .. Count(l)
    BY <1>1, <1>2, Places DEF Count
  <2>2. Cardinality(Ahead(Installed(l), Nth(l, i))) = Cardinality(Ahead(Installed(l), m))
    BY <1>2, <1>4, <2>1
  <2>3. Nth(l, i) = m
    BY <1>1, <1>4, <2>1, <2>2, Places
  <2> QED BY <2>1, <2>3
<1> QED BY <1>2, <1>4, <1>5

-----------------------------------------------------------------------------
(* What the script of a table holds.                                       *)

IsCommand(c, l) ==
  \/ c = [op |-> "resetMarks"]
  \/ c = [op |-> "resetTc"]
  \/ \E m \in Installed(l) :
       c \in {[op |-> "mark", mac |-> m, id |-> ClassID(l, m)],
              [op |-> "class", id |-> ClassID(l, m), mbps |-> l[m]],
              [op |-> "filter", id |-> ClassID(l, m)]}

\* The marks are reset first and set before the classes are; every device that is
\* installed is marked and gets its class and its filter.
InOrder(s, reset) ==
  \A k \in 1 .. Len(s) :
    /\ s[k].op = "resetMarks" <=> k = 1
    /\ s[k].op = "resetTc" <=> k = reset
    /\ s[k].op \in {"class", "filter"} => k > reset

Complete(s, l) ==
  \A m \in Installed(l) :
    /\ \E k \in 1 .. Len(s) : s[k] = [op |-> "mark", mac |-> m, id |-> ClassID(l, m)]
    /\ \E k \in 1 .. Len(s) : s[k] = [op |-> "class", id |-> ClassID(l, m), mbps |-> l[m]]
    /\ \E k \in 1 .. Len(s) : s[k] = [op |-> "filter", id |-> ClassID(l, m)]

IsScript(s, l, reset) ==
  /\ Len(s) \in Nat /\ reset \in 2 .. Len(s)
  /\ \A k \in 1 .. Len(s) : IsCommand(s[k], l)
  /\ InOrder(s, reset) /\ Complete(s, l)

LEMMA ClassIDType ==
  ASSUME NEW l, NEW m \in MACs
  PROVE  ClassID(l, m) \in Nat \ {0}
<1>1. Cardinality({n \in Limited(l) : n < m}) \in Nat
  BY BeforeFinite DEF Before
<1> QED BY <1>1, LimitsAssumption DEF ClassID

\* The four parts of a script, joined.
Joined(S, a, s, b, t, n, r) ==
  /\ a \in S /\ s \in Seq(S) /\ b \in S /\ t \in Seq(S)
  /\ n = Len(s) /\ r = <<a>> \o s \o <<b>> \o t

LEMMA Parts ==
  ASSUME NEW S, NEW a, NEW s, NEW b, NEW t, NEW n, NEW r, Joined(S, a, s, b, t, n, r)
  PROVE  /\ Len(r) = 2 + n + Len(t) /\ n \in Nat /\ Len(t) \in Nat
         /\ r[1] = a /\ r[n + 2] = b
         /\ \A i \in 1 .. n : r[i + 1] = s[i]
         /\ \A i \in 1 .. Len(t) : r[i + n + 2] = t[i]
<1> DEFINE r1 == <<a>> \o s
           r2 == r1 \o <<b>>
<1>0. /\ a \in S /\ s \in Seq(S) /\ b \in S /\ t \in Seq(S) /\ n = Len(s)
      /\ <<a>> \in Seq(S) /\ <<b>> \in Seq(S) /\ Len(<<a>>) = 1 /\ Len(<<b>>) = 1
      /\ <<a>>[1] = a /\ <<b>>[1] = b /\ n \in Nat /\ Len(t) \in Nat
  BY DEF Joined
<1>1. /\ r1 \in Seq(S) /\ Len(r1) = n + 1
      /\ \A i \in 1 .. n + 1 : r1[i] = IF i <= 1 THEN <<a>>[i] ELSE s[i - 1]
  BY <1>0, ConcatProperties
<1> HIDE DEF r1
<1>2. /\ r2 \in Seq(S) /\ Len(r2) = n + 2
      /\ \A i \in 1 .. n + 2 : r2[i] = IF i <= n + 1 THEN r1[i] ELSE <<b>>[i - (n + 1)]
  <2>1. /\ r1 \o <<b>> \in Seq(S) /\ Len(r1 \o <<b>>) = Len(r1) + Len(<<b>>)
        /\ \A i \in 1 .. Len(r1) + Len(<<b>>) :
             (r1 \o <<b>>)[i] = IF i <= Len(r1) THEN r1[i] ELSE <<b>>[i - Len(r1)]
    BY <1>0, <1>1, ConcatProperties
  <2>2. Len(r1) + Len(<<b>>) = n + 2
    BY <1>0, <1>1
  <2> QED BY <1>1, <2>1, <2>2
<1> HIDE DEF r2
<1>3. /\ Len(r) = n + 2 + Len(t)
      /\ \A i \in 1 .. n + 2 + Len(t) : r[i] = IF i <= n + 2 THEN r2[i] ELSE t[i - (n + 2)]
  <2>1. /\ Len(r2 \o t) = Len(r2) + Len(t)
        /\ \A i \in 1 .. Len(r2) + Len(t) :
             (r2 \o t)[i] = IF i <= Len(r2) THEN r2[i] ELSE t[i - Len(r2)]
    <3>1. r2 \in Seq(S) /\ t \in Seq(S)
      BY <1>0, <1>2
    <3> QED BY <3>1, ConcatProperties
  <2>2. r = r2 \o t
    BY DEF r2, r1, Joined
  <2> QED BY <1>2, <2>1, <2>2
<1>4. r[1] = a /\ r[n + 2] = b
  <2>1. r2[1] = r1[1] /\ r1[1] = a /\ r2[n + 2] = <<b>>[(n + 2) - (n + 1)] /\ (n + 2) - (n + 1) = 1
    BY <1>0, <1>1, <1>2
  <2>2. 1 \in 1 .. n + 2 + Len(t) /\ n + 2 \in 1 .. n + 2 + Len(t) /\ 1 <= n + 2
    BY <1>0
  <2> QED BY <1>0, <1>3, <2>1, <2>2
<1>5. ASSUME NEW i \in 1 .. n PROVE r[i + 1] = s[i]
  BY <1>0, <1>1, <1>2, <1>3
<1>6. ASSUME NEW i \in 1 .. Len(t) PROVE r[i + n + 2] = t[i]
  <2>1. (i + n + 2) - (n + 2) = i /\ i + n + 2 \in 1 .. n + 2 + Len(t) /\ ~(i + n + 2 <= n + 2)
    BY <1>0
  <2>2. r[i + n + 2] = t[(i + n + 2) - (n + 2)]
    BY <1>3, <2>1
  <2> QED BY <2>1, <2>2
<1> QED BY <1>0, <1>3, <1>4, <1>5, <1>6

LEMMA ScriptForm ==
  ASSUME NEW l \in Limits
  PROVE  IsScript(Script(l), l, Count(l) + 2)
<1> DEFINE c == Count(l)
           id(i) == ClassID(l, Nth(l, i))
           marks == [i \in 1 .. c |-> [op |-> "mark", mac |-> Nth(l, i), id |-> id(i)]]
           half(i) == IF i % 2 = 1 THEN (i + 1) \div 2 ELSE i \div 2
           class(i) == [op |-> "class", id |-> id(i), mbps |-> l[Nth(l, i)]]
           filter(i) == [op |-> "filter", id |-> id(i)]
           classes == [i \in 1 .. 2 * c |-> IF i % 2 = 1 THEN class((i + 1) \div 2) ELSE filter(i \div 2)]
           first == [op |-> "resetMarks"]
           second == [op |-> "resetTc"]
           s == Script(l)
           S == {first, second} \cup {marks[i] : i \in 1 .. c} \cup {classes[i] : i \in 1 .. 2 * c}
<1>0. c \in Nat /\ 2 * c \in Nat
  BY NthOf
<1>1. s = <<first>> \o marks \o <<second>> \o classes
  BY DEF Script, Count
<1>2. marks \in Seq(S) /\ Len(marks) = c /\ classes \in Seq(S) /\ Len(classes) = 2 * c
      /\ first \in S /\ second \in S
  <2>1. marks \in [1 .. c -> S] /\ classes \in [1 .. 2 * c -> S] /\ first \in S /\ second \in S
    OBVIOUS
  <2> HIDE DEF S, marks, classes, first, second, c
  <2> QED BY <1>0, <2>1
<1>3. \A i \in 1 .. c : marks[i] = [op |-> "mark", mac |-> Nth(l, i), id |-> id(i)] /\ Nth(l, i) \in Installed(l)
  BY NthOf
<1>4. \A i \in 1 .. 2 * c : classes[i] = IF i % 2 = 1 THEN class((i + 1) \div 2) ELSE filter(i \div 2)
  OBVIOUS
<1>5. \A i \in 1 .. 2 * c : (i % 2 = 1 => (i + 1) \div 2 \in 1 .. c) /\ (i % 2 # 1 => i \div 2 \in 1 .. c)
  <2> HIDE DEF c
  <2> QED BY <1>0
<1>6. \A i \in 1 .. c : /\ 2 * i - 1 \in 1 .. 2 * c /\ (2 * i - 1) % 2 = 1 /\ ((2 * i - 1) + 1) \div 2 = i
                        /\ 2 * i \in 1 .. 2 * c /\ (2 * i) % 2 # 1 /\ (2 * i) \div 2 = i
  <2> HIDE DEF c
  <2> QED BY <1>0
<1> HIDE DEF marks, classes, S, s, c
<1>7. /\ Len(s) = 2 + c + 2 * c
      /\ s[1] = first /\ s[c + 2] = second
      /\ \A i \in 1 .. c : s[i + 1] = marks[i]
      /\ \A i \in 1 .. 2 * c : s[i + c + 2] = classes[i]
  <2> HIDE DEF first, second
  <2>1. Joined(S, first, marks, second, classes, c, s)
    BY <1>1, <1>2 DEF Joined
  <2>2. /\ Len(s) = 2 + c + Len(classes)
        /\ s[1] = first /\ s[c + 2] = second
        /\ \A i \in 1 .. c : s[i + 1] = marks[i]
        /\ \A i \in 1 .. Len(classes) : s[i + c + 2] = classes[i]
    BY <2>1, Parts
  <2> QED BY <1>2, <2>2
<1>8. ASSUME NEW k \in 1 .. Len(s)
      PROVE  \/ k = 1
             \/ k = c + 2
             \/ k - 1 \in 1 .. c /\ k = (k - 1) + 1 /\ k # 1 /\ k < c + 2
             \/ k - c - 2 \in 1 .. 2 * c /\ k = (k - c - 2) + c + 2 /\ k > c + 2
  BY <1>0, <1>7
<1>9. ASSUME NEW k \in 1 .. Len(s)
      PROVE  /\ IsCommand(s[k], l)
             /\ s[k].op = "resetMarks" <=> k = 1
             /\ s[k].op = "resetTc" <=> k = c + 2
             /\ s[k].op \in {"class", "filter"} => k > c + 2
  <2>1. CASE k = 1
    BY <1>0, <1>7, <2>1 DEF IsCommand
  <2>2. CASE k = c + 2
    BY <1>0, <1>7, <2>2 DEF IsCommand
  <2>3. CASE k - 1 \in 1 .. c /\ k = (k - 1) + 1 /\ k # 1 /\ k < c + 2
    <3>1. s[k] = [op |-> "mark", mac |-> Nth(l, k - 1), id |-> id(k - 1)] /\ Nth(l, k - 1) \in Installed(l)
      BY <1>3, <1>7, <2>3
    <3> QED BY <1>0, <2>3, <3>1 DEF IsCommand
  <2>4. CASE k - c - 2 \in 1 .. 2 * c /\ k = (k - c - 2) + c + 2 /\ k > c + 2
    <3>1. s[k] = classes[k - c - 2]
      BY <1>7, <2>4
    <3>2. \E i \in 1 .. c : s[k] = class(i) \/ s[k] = filter(i)
      BY <1>4, <1>5, <2>4, <3>1
    <3>3. PICK i \in 1 .. c : s[k] = class(i) \/ s[k] = filter(i)
      BY <3>2
    <3>4. Nth(l, i) \in Installed(l)
      BY <1>3
    <3> QED BY <1>0, <2>4, <3>3, <3>4 DEF IsCommand
  <2> QED BY <1>8, <2>1, <2>2, <2>3, <2>4
<1>10. ASSUME NEW m \in Installed(l)
       PROVE  /\ \E k \in 1 .. Len(s) : s[k] = [op |-> "mark", mac |-> m, id |-> ClassID(l, m)]
              /\ \E k \in 1 .. Len(s) : s[k] = [op |-> "class", id |-> ClassID(l, m), mbps |-> l[m]]
              /\ \E k \in 1 .. Len(s) : s[k] = [op |-> "filter", id |-> ClassID(l, m)]
  <2>1. PICK i \in 1 .. c : Nth(l, i) = m
    BY NthOf DEF c
  <2>2. /\ i + 1 \in 1 .. Len(s) /\ (2 * i - 1) + c + 2 \in 1 .. Len(s) /\ 2 * i + c + 2 \in 1 .. Len(s)
    <3>1. Len(s) = 3 * c + 2 /\ c \in Nat
      BY <1>0, <1>7
    <3> QED BY <3>1
  <2>3. s[i + 1] = [op |-> "mark", mac |-> m, id |-> ClassID(l, m)]
    BY <1>3, <1>7, <2>1
  <2>4. s[(2 * i - 1) + c + 2] = class(i) /\ s[2 * i + c + 2] = filter(i)
    BY <1>4, <1>6, <1>7
  <2> QED BY <2>1, <2>2, <2>3, <2>4
<1>11. InOrder(s, c + 2) /\ Complete(s, l)
  BY <1>9, <1>10 DEF InOrder, Complete
<1> QED BY <1>0, <1>7, <1>9, <1>11 DEF IsScript, s, c

-----------------------------------------------------------------------------
(* What a script does to the kernel, whatever it finds there.              *)

Kernels ==
  [marks : [MACs -> Nat], classes : UNION {[S -> Nat] : S \in SUBSET Nat}, filters : SUBSET Nat]

\* The commands before place k that are of a kind.
Earlier(s, kind, k) == {j \in 1 .. Len(s) : j < k /\ s[j].op = kind}

\* The marks, classes and filters after those commands.
MarksBuilt(kn, s, l, k) ==
  \A m \in MACs :
    kn.marks[m] = IF \E j \in Earlier(s, "mark", k) : s[j].mac = m THEN ClassID(l, m) ELSE 0

ClassesBuilt(kn, s, l, k) ==
  /\ \A x \in Nat : x \in DOMAIN kn.classes <=>
       x \in {parentClass, defaultClass} \/ \E j \in Earlier(s, "class", k) : s[j].id = x
  /\ \A x \in {parentClass, defaultClass} : kn.classes[x] = LineRate
  /\ \A m \in Installed(l) :
       LET id == ClassID(l, m)
       IN  id \in DOMAIN kn.classes /\ id \notin {parentClass, defaultClass} => kn.classes[id] = l[m]

FiltersBuilt(kn, s, k) ==
  \A x \in Nat : x \in kn.filters <=> \E j \in Earlier(s, "filter", k) : s[j].id = x

\* The kernel after the commands before place k, of a script that nothing disturbs.
Built(kn, s, l, reset, k) ==
  /\ kn \in Kernels
  /\ k > 1 => MarksBuilt(kn, s, l, k)
  /\ k > reset => ClassesBuilt(kn, s, l, k) /\ FiltersBuilt(kn, s, k)

LEMMA MakeKernel ==
  ASSUME NEW marks \in [MACs -> Nat], NEW S \in SUBSET Nat, NEW classes \in [S -> Nat],
         NEW filters \in SUBSET Nat
  PROVE  [marks |-> marks, classes |-> classes, filters |-> filters] \in Kernels
<1>1. [S -> Nat] \in {[T -> Nat] : T \in SUBSET Nat}
  OBVIOUS
<1>2. classes \in UNION {[T -> Nat] : T \in SUBSET Nat}
  BY <1>1
<1> QED BY <1>2 DEF Kernels

LEMMA KernelParts ==
  ASSUME NEW kn \in Kernels
  PROVE  /\ kn = [marks |-> kn.marks, classes |-> kn.classes, filters |-> kn.filters]
         /\ kn.marks \in [MACs -> Nat] /\ kn.filters \in SUBSET Nat
         /\ \E S \in SUBSET Nat : kn.classes \in [S -> Nat]
         /\ DOMAIN kn.classes \in SUBSET Nat /\ kn.classes \in [DOMAIN kn.classes -> Nat]
<1>1. PICK S \in SUBSET Nat : kn.classes \in [S -> Nat]
  BY DEF Kernels
<1>2. DOMAIN kn.classes = S
  BY <1>1
<1> QED BY <1>1, <1>2 DEF Kernels

\* The effect of each command.
LEMMA ExecResetMarks ==
  ASSUME NEW kn \in Kernels, NEW c, c.op = "resetMarks"
  PROVE  /\ Exec(kn, c) \in Kernels
         /\ Exec(kn, c) = [marks |-> NoLimits, classes |-> kn.classes, filters |-> kn.filters]
<1>1. Exec(kn, c) = [marks |-> NoLimits, classes |-> kn.classes, filters |-> kn.filters]
  BY KernelParts DEF Exec
<1>2. NoLimits \in [MACs -> Nat]
  BY DEF NoLimits, NoLimit
<1>3. kn.filters \in SUBSET Nat /\ DOMAIN kn.classes \in SUBSET Nat
      /\ kn.classes \in [DOMAIN kn.classes -> Nat]
  BY KernelParts
<1> QED BY <1>1, <1>2, <1>3, MakeKernel

LEMMA ExecResetTc ==
  ASSUME NEW kn \in Kernels, NEW c, c.op = "resetTc"
  PROVE  /\ Exec(kn, c) \in Kernels
         /\ Exec(kn, c) = [marks |-> kn.marks, filters |-> {},
                           classes |-> [i \in {parentClass, defaultClass} |-> LineRate]]
<1> DEFINE base == [i \in {parentClass, defaultClass} |-> LineRate]
<1>0. Exec(kn, c) = [kn EXCEPT !.classes = base, !.filters = {}]
  BY DEF Exec
<1>1. Exec(kn, c) = [marks |-> kn.marks, classes |-> base, filters |-> {}]
  <2> HIDE DEF base
  <2> DEFINE k == [kn EXCEPT !.classes = base]
             empty == {}
  <2>1. k = [marks |-> kn.marks, classes |-> base, filters |-> kn.filters]
    BY KernelParts
  <2> HIDE DEF k, empty
  <2>2. [k EXCEPT !.filters = empty] = [marks |-> kn.marks, classes |-> base, filters |-> empty]
    BY <2>1
  <2> QED BY <1>0, <2>2 DEF k, empty
<1>2. {parentClass, defaultClass} \in SUBSET Nat
      /\ [i \in {parentClass, defaultClass} |-> LineRate] \in [{parentClass, defaultClass} -> Nat]
  BY LimitsAssumption DEF parentClass, LineRate
<1> QED BY <1>1, <1>2, KernelParts, MakeKernel

LEMMA ExecMark ==
  ASSUME NEW kn \in Kernels, NEW c, c.op = "mark", c.mac \in MACs, c.id \in Nat
  PROVE  /\ Exec(kn, c) \in Kernels
         /\ Exec(kn, c) = [marks |-> [kn.marks EXCEPT ![c.mac] = c.id],
                           classes |-> kn.classes, filters |-> kn.filters]
<1>1. Exec(kn, c) = [kn EXCEPT !.marks[c.mac] = c.id]
  BY DEF Exec
<1>2. Exec(kn, c) = [marks |-> [kn.marks EXCEPT ![c.mac] = c.id],
                     classes |-> kn.classes, filters |-> kn.filters]
  BY <1>1, KernelParts
<1>3. [kn.marks EXCEPT ![c.mac] = c.id] \in [MACs -> Nat]
  BY KernelParts
<1> QED BY <1>2, <1>3, KernelParts, MakeKernel

LEMMA ExecClass ==
  ASSUME NEW kn \in Kernels, NEW c, c.op = "class", c.id \in Nat, c.mbps \in Nat
  PROVE  /\ Exec(kn, c) \in Kernels
         /\ Exec(kn, c) = [marks |-> kn.marks, classes |-> AddClass(kn.classes, c),
                           filters |-> kn.filters]
<1>1. Exec(kn, c) = [kn EXCEPT !.classes = AddClass(kn.classes, c)]
  BY DEF Exec
<1>2. Exec(kn, c) = [marks |-> kn.marks, classes |-> AddClass(kn.classes, c), filters |-> kn.filters]
  BY <1>1, KernelParts
<1>3. DOMAIN kn.classes \cup {c.id} \in SUBSET Nat
      /\ AddClass(kn.classes, c) \in [DOMAIN kn.classes \cup {c.id} -> Nat]
  BY KernelParts DEF AddClass
<1> QED BY <1>2, <1>3, KernelParts, MakeKernel

LEMMA ExecFilter ==
  ASSUME NEW kn \in Kernels, NEW c, c.op = "filter", c.id \in Nat
  PROVE  /\ Exec(kn, c) \in Kernels
         /\ Exec(kn, c) = [marks |-> kn.marks, classes |-> kn.classes,
                           filters |-> kn.filters \cup {c.id}]
<1>1. Exec(kn, c) = [kn EXCEPT !.filters = kn.filters \cup {c.id}]
  BY DEF Exec
<1>2. Exec(kn, c) = [marks |-> kn.marks, classes |-> kn.classes, filters |-> kn.filters \cup {c.id}]
  BY <1>1, KernelParts
<1>3. kn.filters \cup {c.id} \in SUBSET Nat
  BY KernelParts
<1> QED BY <1>2, <1>3, KernelParts, MakeKernel

\* The fields of a command.
LEMMA CommandParts ==
  ASSUME NEW l \in Limits, NEW c, IsCommand(c, l)
  PROVE  /\ c.op \in {"resetMarks", "mark", "resetTc", "class", "filter"}
         /\ c.op = "mark" => c.mac \in Installed(l) /\ c.mac \in MACs /\ c.id = ClassID(l, c.mac) /\ c.id \in Nat
         /\ c.op = "class" => /\ \E m \in Installed(l) : c.id = ClassID(l, m) /\ c.mbps = l[m]
                              /\ c.id \in Nat /\ c.mbps \in Nat
         /\ c.op = "filter" => (\E m \in Installed(l) : c.id = ClassID(l, m)) /\ c.id \in Nat
<1>1. \A m \in Installed(l) : m \in MACs /\ ClassID(l, m) \in Nat /\ l[m] \in Nat
  BY ClassIDType, LimitsAssumption DEF Installed, Limited, Limits, NoLimit
<1>2. CASE c = [op |-> "resetMarks"] \/ c = [op |-> "resetTc"]
  <2>1. c.op \in {"resetMarks", "resetTc"}
    BY <1>2
  <2> QED BY <2>1
<1>3. ASSUME NEW m \in Installed(l), c = [op |-> "mark", mac |-> m, id |-> ClassID(l, m)]
      PROVE  c.op = "mark" /\ c.mac = m /\ c.id = ClassID(l, m)
  BY <1>3
<1>4. ASSUME NEW m \in Installed(l), c = [op |-> "class", id |-> ClassID(l, m), mbps |-> l[m]]
      PROVE  c.op = "class" /\ c.id = ClassID(l, m) /\ c.mbps = l[m]
  BY <1>4
<1>5. ASSUME NEW m \in Installed(l), c = [op |-> "filter", id |-> ClassID(l, m)]
      PROVE  c.op = "filter" /\ c.id = ClassID(l, m)
  BY <1>5
<1>6. CASE \E m \in Installed(l) : c = [op |-> "mark", mac |-> m, id |-> ClassID(l, m)]
  <2>1. PICK m \in Installed(l) : c = [op |-> "mark", mac |-> m, id |-> ClassID(l, m)]
    BY <1>6
  <2>2. c.op = "mark" /\ c.mac = m /\ c.id = ClassID(l, m)
    BY <1>3, <2>1
  <2> HIDE DEF ClassID
  <2> QED BY <1>1, <2>2
<1>7. CASE \E m \in Installed(l) : c = [op |-> "class", id |-> ClassID(l, m), mbps |-> l[m]]
  <2>1. PICK m \in Installed(l) : c = [op |-> "class", id |-> ClassID(l, m), mbps |-> l[m]]
    BY <1>7
  <2>2. c.op = "class" /\ c.id = ClassID(l, m) /\ c.mbps = l[m]
    BY <1>4, <2>1
  <2> QED BY <1>1, <2>2
<1>8. CASE \E m \in Installed(l) : c = [op |-> "filter", id |-> ClassID(l, m)]
  <2>1. PICK m \in Installed(l) : c = [op |-> "filter", id |-> ClassID(l, m)]
    BY <1>8
  <2>2. c.op = "filter" /\ c.id = ClassID(l, m)
    BY <1>5, <2>1
  <2> QED BY <1>1, <2>2
<1> QED BY <1>2, <1>6, <1>7, <1>8 DEF IsCommand

LEMMA EarlierNext ==
  ASSUME NEW s, NEW kind, Len(s) \in Nat, NEW k \in 1 .. Len(s)
  PROVE  Earlier(s, kind, k + 1) = IF s[k].op = kind THEN Earlier(s, kind, k) \cup {k}
                                                     ELSE Earlier(s, kind, k)
BY DEF Earlier

\* One command takes the kernel a script has built so far to the next.
LEMMA BuiltStep ==
  ASSUME NEW l \in Limits, NEW s, NEW reset, IsScript(s, l, reset),
         NEW k \in 1 .. Len(s), NEW kn, Built(kn, s, l, reset, k)
  PROVE  Built(Exec(kn, s[k]), s, l, reset, k + 1)
<1> DEFINE c == s[k]
           kn2 == Exec(kn, c)
<1>0. /\ Len(s) \in Nat /\ reset \in 2 .. Len(s) /\ kn \in Kernels
      /\ IsCommand(c, l)
      /\ \A i \in 1 .. Len(s) :
           /\ s[i].op = "resetMarks" <=> i = 1
           /\ s[i].op = "resetTc" <=> i = reset
           /\ s[i].op \in {"class", "filter"} => i > reset
  <2>1. Len(s) \in Nat /\ reset \in 2 .. Len(s) /\ kn \in Kernels
    BY DEF IsScript, Built
  <2>2. IsCommand(c, l)
    BY DEF IsScript
  <2>3. \A i \in 1 .. Len(s) :
          /\ s[i].op = "resetMarks" <=> i = 1
          /\ s[i].op = "resetTc" <=> i = reset
          /\ s[i].op \in {"class", "filter"} => i > reset
    BY DEF IsScript, InOrder
  <2> QED BY <2>1, <2>2, <2>3
<1>1. /\ c.op \in {"resetMarks", "mark", "resetTc", "class", "filter"}
      /\ c.op = "mark" => c.mac \in Installed(l) /\ c.mac \in MACs /\ c.id = ClassID(l, c.mac) /\ c.id \in Nat
      /\ c.op = "class" => /\ \E m \in Installed(l) : c.id = ClassID(l, m) /\ c.mbps = l[m]
                           /\ c.id \in Nat /\ c.mbps \in Nat
      /\ c.op = "filter" => (\E m \in Installed(l) : c.id = ClassID(l, m)) /\ c.id \in Nat
  <2> HIDE DEF c
  <2> QED BY <1>0, CommandParts
<1>2. \A kind : Earlier(s, kind, k + 1) = IF c.op = kind THEN Earlier(s, kind, k) \cup {k}
                                                        ELSE Earlier(s, kind, k)
  <2> TAKE kind
  <2>1. Len(s) \in Nat
    BY <1>0
  <2> QED BY <2>1, EarlierNext
<1>3. \A m \in Installed(l) : m \in MACs /\ m \in Limited(l) /\ ClassID(l, m) \in Nat
  BY ClassIDType DEF Installed, Limited
<1>4. (k > 1 => MarksBuilt(kn, s, l, k)) /\ (k > reset => ClassesBuilt(kn, s, l, k) /\ FiltersBuilt(kn, s, k))
  BY DEF Built
<1>5. s[k] = c
  OBVIOUS
<1> HIDE DEF c, kn2
<1>6. CASE c.op = "resetMarks"
  <2>1. k = 1 /\ ~(k + 1 > reset)
    BY <1>0, <1>5, <1>6
  <2>2. kn2 \in Kernels /\ kn2.marks = NoLimits
    BY <1>0, <1>6, ExecResetMarks DEF kn2
  <2>3. Earlier(s, "mark", k) = {}
    BY <2>1 DEF Earlier
  <2>4. Earlier(s, "mark", k + 1) = {}
    BY <1>2, <1>6, <2>3
  <2>5. MarksBuilt(kn2, s, l, k + 1)
    BY <2>2, <2>4 DEF MarksBuilt, NoLimits, NoLimit
  <2> QED BY <2>1, <2>2, <2>5 DEF Built, kn2, c
<1>7. CASE c.op = "mark"
  <2>1. k # 1 /\ k # reset /\ (k + 1 > reset => k > reset) /\ k > 1
    BY <1>0, <1>5, <1>7
  <2>2. kn2 \in Kernels /\ kn2.marks = [kn.marks EXCEPT ![c.mac] = c.id]
        /\ kn2.classes = kn.classes /\ kn2.filters = kn.filters
    BY <1>0, <1>1, <1>7, ExecMark DEF kn2
  <2>3. Earlier(s, "mark", k + 1) = Earlier(s, "mark", k) \cup {k}
        /\ Earlier(s, "class", k + 1) = Earlier(s, "class", k)
        /\ Earlier(s, "filter", k + 1) = Earlier(s, "filter", k)
    BY <1>2, <1>7
  <2>4. MarksBuilt(kn2, s, l, k + 1)
    <3>1. kn.marks \in [MACs -> Nat]
      BY <1>0, KernelParts
    <3>2. ASSUME NEW m \in MACs
          PROVE  kn2.marks[m] = IF \E j \in Earlier(s, "mark", k + 1) : s[j].mac = m
                                THEN ClassID(l, m) ELSE 0
      <4>1. CASE m = c.mac
        <5>1. kn2.marks[m] = ClassID(l, m)
          BY <1>1, <1>7, <2>2, <3>1, <4>1
        <5>2. k \in Earlier(s, "mark", k + 1) /\ s[k].mac = m
          BY <1>5, <2>3, <4>1
        <5> QED BY <5>1, <5>2
      <4>2. CASE m # c.mac
        <5>1. kn2.marks[m] = kn.marks[m]
          BY <2>2, <3>1, <4>2
        <5>2. (\E j \in Earlier(s, "mark", k + 1) : s[j].mac = m)
              <=> (\E j \in Earlier(s, "mark", k) : s[j].mac = m)
          BY <1>5, <2>3, <4>2
        <5> QED BY <1>4, <2>1, <5>1, <5>2 DEF MarksBuilt
      <4> QED BY <4>1, <4>2
    <3> QED BY <3>2 DEF MarksBuilt
  <2>5. k + 1 > reset => ClassesBuilt(kn2, s, l, k + 1) /\ FiltersBuilt(kn2, s, k + 1)
    BY <1>4, <2>1, <2>2, <2>3 DEF ClassesBuilt, FiltersBuilt
  <2> QED BY <2>2, <2>4, <2>5 DEF Built, kn2, c
<1>8. CASE c.op = "resetTc"
  <2>1. k = reset /\ k > 1
    BY <1>0, <1>5, <1>8
  <2>2. kn2 \in Kernels /\ kn2.marks = kn.marks /\ kn2.filters = {}
        /\ kn2.classes = [i \in {parentClass, defaultClass} |-> LineRate]
    <3> DEFINE base == [i \in {parentClass, defaultClass} |-> LineRate]
    <3>1. kn2 \in Kernels /\ kn2 = [marks |-> kn.marks, filters |-> {}, classes |-> base]
      BY <1>0, <1>8, ExecResetTc DEF kn2
    <3> HIDE DEF base
    <3>2. kn2.marks = kn.marks /\ kn2.filters = {} /\ kn2.classes = base
      BY <3>1
    <3> QED BY <3>1, <3>2 DEF base
  <2>3. Earlier(s, "mark", k + 1) = Earlier(s, "mark", k)
        /\ Earlier(s, "class", k + 1) = Earlier(s, "class", k)
        /\ Earlier(s, "filter", k + 1) = Earlier(s, "filter", k)
    BY <1>2, <1>8
  <2>4. Earlier(s, "class", k) = {} /\ Earlier(s, "filter", k) = {}
    BY <1>0, <2>1 DEF Earlier
  <2>5. MarksBuilt(kn2, s, l, k + 1)
    BY <1>4, <2>1, <2>2, <2>3 DEF MarksBuilt
  <2>6. DOMAIN kn2.classes = {parentClass, defaultClass}
        /\ \A x \in {parentClass, defaultClass} : kn2.classes[x] = LineRate
    BY <2>2
  <2>7. ClassesBuilt(kn2, s, l, k + 1)
    BY <2>3, <2>4, <2>6 DEF ClassesBuilt
  <2>8. FiltersBuilt(kn2, s, k + 1)
    BY <2>2, <2>3, <2>4 DEF FiltersBuilt
  <2> QED BY <2>2, <2>5, <2>7, <2>8 DEF Built, kn2, c
<1>9. CASE c.op = "class"
  <2>1. k > reset /\ k > 1
    BY <1>0, <1>5, <1>9
  <2>2. kn2 \in Kernels /\ kn2.marks = kn.marks /\ kn2.filters = kn.filters
        /\ kn2.classes = AddClass(kn.classes, c)
    BY <1>0, <1>1, <1>9, ExecClass DEF kn2
  <2>3. Earlier(s, "mark", k + 1) = Earlier(s, "mark", k)
        /\ Earlier(s, "class", k + 1) = Earlier(s, "class", k) \cup {k}
        /\ Earlier(s, "filter", k + 1) = Earlier(s, "filter", k)
    BY <1>2, <1>9
  <2>4. MarksBuilt(kn2, s, l, k + 1) /\ FiltersBuilt(kn2, s, k + 1)
    BY <1>4, <2>1, <2>2, <2>3 DEF MarksBuilt, FiltersBuilt
  <2>5. /\ \A x : x \in DOMAIN kn2.classes <=> x \in DOMAIN kn.classes \/ x = c.id
        /\ \A x \in DOMAIN kn.classes : kn2.classes[x] = kn.classes[x]
        /\ c.id \notin DOMAIN kn.classes => kn2.classes[c.id] = c.mbps
    BY <2>2 DEF AddClass
  <2>6. ClassesBuilt(kn, s, l, k)
    BY <1>4, <2>1
  <2>7. \A x \in Nat : x \in DOMAIN kn2.classes <=>
          x \in {parentClass, defaultClass} \/ \E j \in Earlier(s, "class", k + 1) : s[j].id = x
    BY <1>5, <2>3, <2>5, <2>6 DEF ClassesBuilt
  <2>8. \A x \in {parentClass, defaultClass} : kn2.classes[x] = LineRate
    <3>1. {parentClass, defaultClass} \subseteq Nat
      BY LimitsAssumption DEF parentClass
    <3>2. \A x \in {parentClass, defaultClass} : x \in DOMAIN kn.classes
      BY <2>6, <3>1 DEF ClassesBuilt
    <3> QED BY <2>5, <2>6, <3>2 DEF ClassesBuilt
  <2>9. ASSUME NEW m \in Installed(l), ClassID(l, m) \in DOMAIN kn2.classes,
               ClassID(l, m) \notin {parentClass, defaultClass}
        PROVE  kn2.classes[ClassID(l, m)] = l[m]
    <3>1. CASE ClassID(l, m) \in DOMAIN kn.classes
      BY <2>5, <2>6, <2>9, <3>1 DEF ClassesBuilt
    <3>2. CASE ClassID(l, m) \notin DOMAIN kn.classes
      <4>1. ClassID(l, m) = c.id
        BY <2>5, <2>9, <3>2
      <4>2. PICK n \in Installed(l) : c.id = ClassID(l, n) /\ c.mbps = l[n]
        BY <1>1, <1>9
      <4>3. n = m
        BY <1>3, <4>1, <4>2, ClassIDsDistinct
      <4> QED BY <2>5, <3>2, <4>1, <4>2, <4>3
    <3> QED BY <3>1, <3>2
  <2>10. ClassesBuilt(kn2, s, l, k + 1)
    BY <2>7, <2>8, <2>9 DEF ClassesBuilt
  <2> QED BY <2>2, <2>4, <2>10 DEF Built, kn2, c
<1>10. CASE c.op = "filter"
  <2>1. k > reset /\ k > 1
    BY <1>0, <1>5, <1>10
  <2>2. kn2 \in Kernels /\ kn2.marks = kn.marks /\ kn2.filters = kn.filters \cup {c.id}
        /\ kn2.classes = kn.classes
    BY <1>0, <1>1, <1>10, ExecFilter DEF kn2
  <2>3. Earlier(s, "mark", k + 1) = Earlier(s, "mark", k)
        /\ Earlier(s, "class", k + 1) = Earlier(s, "class", k)
        /\ Earlier(s, "filter", k + 1) = Earlier(s, "filter", k) \cup {k}
    BY <1>2, <1>10
  <2>4. MarksBuilt(kn2, s, l, k + 1) /\ ClassesBuilt(kn2, s, l, k + 1)
    BY <1>4, <2>1, <2>2, <2>3 DEF MarksBuilt, ClassesBuilt
  <2>5. FiltersBuilt(kn2, s, k + 1)
    BY <1>4, <1>5, <2>1, <2>2, <2>3 DEF FiltersBuilt
  <2> QED BY <2>2, <2>4, <2>5 DEF Built, kn2, c
<1> QED BY <1>1, <1>6, <1>7, <1>8, <1>9, <1>10

\* A device has the rate a script gives it once the script has run.
LEMMA BuiltRates ==
  ASSUME NEW l \in Limits, NEW s, NEW reset, IsScript(s, l, reset),
         NEW kn, Built(kn, s, l, reset, Len(s) + 1), NEW m \in MACs
  PROVE  Rate(kn, m) = IF m \in Shaped(l) THEN l[m] ELSE LineRate
<1>0. /\ Len(s) \in Nat /\ Len(s) + 1 > 1 /\ Len(s) + 1 > reset
      /\ \A k \in 1 .. Len(s) : IsCommand(s[k], l) /\ k < Len(s) + 1
  BY DEF IsScript
<1>1. MarksBuilt(kn, s, l, Len(s) + 1) /\ ClassesBuilt(kn, s, l, Len(s) + 1) /\ FiltersBuilt(kn, s, Len(s) + 1)
  BY <1>0 DEF Built
<1>2. \A n \in Installed(l) : n \in MACs /\ n \in Limited(l) /\ ClassID(l, n) \in Nat \ {0}
  BY ClassIDType DEF Installed, Limited
<1>3. Shaped(l) \subseteq Installed(l)
  BY DEF Shaped
<1>4. ASSUME NEW kind, NEW j \in Earlier(s, kind, Len(s) + 1)
      PROVE  j \in 1 .. Len(s) /\ s[j].op = kind /\ IsCommand(s[j], l)
  BY <1>0 DEF Earlier
<1>5. CASE m \notin Installed(l)
  <2>1. ASSUME NEW j \in Earlier(s, "mark", Len(s) + 1), s[j].mac = m
        PROVE  FALSE
    <3>1. s[j].op = "mark" /\ IsCommand(s[j], l)
      BY <1>4
    <3>2. s[j].mac \in Installed(l)
      BY <3>1, CommandParts
    <3> QED BY <1>5, <2>1, <3>2
  <2>2. kn.marks[m] = 0
    BY <1>1, <2>1 DEF MarksBuilt
  <2>3. 0 \notin kn.filters
    <3>1. ASSUME NEW j \in Earlier(s, "filter", Len(s) + 1), s[j].id = 0
          PROVE  FALSE
      <4>1. s[j].op = "filter" /\ IsCommand(s[j], l)
        BY <1>4
      <4>2. \E n \in Installed(l) : s[j].id = ClassID(l, n)
        BY <4>1, CommandParts
      <4> QED BY <1>2, <3>1, <4>2
    <3> QED BY <1>1, <3>1 DEF FiltersBuilt
  <2> QED BY <1>3, <1>5, <2>2, <2>3 DEF Rate
<1>6. CASE m \in Installed(l)
  <2> DEFINE id == ClassID(l, m)
  <2>1. kn.marks[m] = id
    <3>1. PICK j \in 1 .. Len(s) : s[j] = [op |-> "mark", mac |-> m, id |-> id]
      BY <1>6 DEF IsScript, Complete
    <3>2. s[j].op = "mark" /\ s[j].mac = m
      BY <3>1
    <3>3. j \in Earlier(s, "mark", Len(s) + 1)
      BY <1>0, <3>2 DEF Earlier
    <3> QED BY <1>1, <3>2, <3>3 DEF MarksBuilt
  <2>2. id \in kn.filters
    <3>1. PICK j \in 1 .. Len(s) : s[j] = [op |-> "filter", id |-> id]
      BY <1>6 DEF IsScript, Complete
    <3>2. s[j].op = "filter" /\ s[j].id = id
      BY <3>1
    <3>3. j \in Earlier(s, "filter", Len(s) + 1)
      BY <1>0, <3>2 DEF Earlier
    <3> QED BY <1>1, <1>2, <1>6, <3>2, <3>3 DEF FiltersBuilt
  <2>3. id \in DOMAIN kn.classes
    <3>1. PICK j \in 1 .. Len(s) : s[j] = [op |-> "class", id |-> id, mbps |-> l[m]]
      BY <1>6 DEF IsScript, Complete
    <3>2. s[j].op = "class" /\ s[j].id = id
      BY <3>1
    <3>3. j \in Earlier(s, "class", Len(s) + 1)
      BY <1>0, <3>2 DEF Earlier
    <3> QED BY <1>1, <1>2, <1>6, <3>2, <3>3 DEF ClassesBuilt
  <2>4. Rate(kn, m) = kn.classes[id]
    BY <2>1, <2>2, <2>3 DEF Rate
  <2>5. CASE id \in {parentClass, defaultClass}
    <3>1. m \notin Shaped(l)
      BY <2>5 DEF Shaped
    <3>2. kn.classes[id] = LineRate
      BY <1>1, <2>5 DEF ClassesBuilt
    <3> QED BY <2>4, <3>1, <3>2
  <2>6. CASE id \notin {parentClass, defaultClass}
    <3>1. m \in Shaped(l)
      BY <1>6, <2>6 DEF Shaped
    <3>2. kn.classes[id] = l[m]
      BY <1>1, <1>6, <2>3, <2>6 DEF ClassesBuilt
    <3> QED BY <2>4, <3>1, <3>2
  <2> QED BY <2>5, <2>6
<1> QED BY <1>5, <1>6

LEMMA BuiltAtFirst ==
  ASSUME NEW l \in Limits, NEW kn \in Kernels
  PROVE  Built(kn, Script(l), l, Count(l) + 2, 1)
<1>1. ~(1 > Count(l) + 2)
  BY NthOf
<1> QED BY <1>1 DEF Built

\* RunAll runs a script to its end.
LEMMA RunAllBuilds ==
  ASSUME NEW l \in Limits, NEW kn \in Kernels
  PROVE  Built(RunAll(kn, Script(l)), Script(l), l, Count(l) + 2, Len(Script(l)) + 1)
<1> DEFINE s == Script(l)
           reset == Count(l) + 2
           N == Len(s)
           next == [vn \in Kernels \X (1 .. N) |-> Exec(vn[1], s[vn[2]])]
           ran == CHOOSE f : f = [n \in 0 .. N |-> IF n = 0 THEN kn ELSE Exec(f[n - 1], s[n])]
<1>0. IsScript(s, l, reset) /\ N \in Nat
  BY ScriptForm DEF IsScript
<1>1. Built(kn, s, l, reset, 1)
  BY BuiltAtFirst
<1>2. RunAll(kn, s) = ran[N]
  BY DEF RunAll
<1> HIDE DEF s, reset
<1>3. ASSUME NEW k \in Kernels, NEW n \in 1 .. N PROVE Exec(k, s[n]) \in Kernels
  <2>1. IsCommand(s[n], l)
    BY <1>0 DEF IsScript
  <2>2. ASSUME NEW c, c = s[n] PROVE Exec(k, c) \in Kernels
    BY <2>1, <2>2, CommandParts, ExecResetMarks, ExecMark, ExecResetTc, ExecClass, ExecFilter
  <2> QED BY <2>2
<1> HIDE DEF N
<1>4. IsLoop(N, Kernels, kn, next)
  BY <1>0, <1>3 DEF IsLoop
<1>5. PICK f : IsRun(f, N, Kernels, kn, next)
  <2> HIDE DEF next
  <2> QED BY <1>4, Loop
<1>6. f = [n \in 0 .. N |-> IF n = 0 THEN kn ELSE Exec(f[n - 1], s[n])]
  <2>1. f \in [0 .. N -> Kernels] /\ f[0] = kn
        /\ \A n \in 1 .. N : f[n] = next[<<f[n - 1], n>>]
    BY <1>5 DEF IsRun
  <2>2. ASSUME NEW n \in 1 .. N PROVE f[n] = Exec(f[n - 1], s[n])
    <3>1. f[n - 1] \in Kernels
      BY <1>0, <2>1
    <3> QED BY <2>1, <3>1
  <2> HIDE DEF next
  <2> QED BY <1>0, <2>1, <2>2
<1>7. ran = [n \in 0 .. N |-> IF n = 0 THEN kn ELSE Exec(ran[n - 1], s[n])]
  BY <1>6
<1> HIDE DEF ran, next
<1>8. /\ ran[0] = kn /\ \A n \in 1 .. N : ran[n] = Exec(ran[n - 1], s[n])
  BY <1>0, <1>7
<1> DEFINE S == {n \in 0 .. N : Built(ran[n], s, l, reset, n + 1)}
<1>9. 0 \in S
  BY <1>0, <1>1, <1>8
<1>10. ASSUME NEW n \in 1 .. N, n - 1 \in S PROVE n \in S
  <2>1. Built(ran[n - 1], s, l, reset, n)
    BY <1>10
  <2>2. Built(Exec(ran[n - 1], s[n]), s, l, reset, n + 1)
    BY <1>0, <2>1, BuiltStep DEF N
  <2> QED BY <1>8, <2>2
<1> HIDE DEF S
<1>11. N \in S
  BY <1>0, <1>9, <1>10, UpTo
<1> QED BY <1>2, <1>11 DEF S, s, reset, N

-----------------------------------------------------------------------------
(* Type correctness, in every environment.                                 *)

Marks == {0} \cup classIDStart..classIDMax
MarksInRange(kn) == \A m \in MACs : kn.marks[m] \in Marks
MarkedKernels == {kn \in Kernels : MarksInRange(kn)}

\* A command of a script is one the file may hold.
LEMMA CommandType ==
  ASSUME NEW l \in Limits, NEW c, IsCommand(c, l)
  PROVE  c \in Command
<1>1. \A m \in Installed(l) : /\ m \in MACs /\ l[m] \in Mbps
                              /\ ClassID(l, m) \in classIDStart..classIDMax
  BY InstalledClassesInRange DEF Installed, Limited, Limits
<1>2. CASE c = [op |-> "resetMarks"] \/ c = [op |-> "resetTc"]
  BY <1>2 DEF Command
<1>3. CASE \E m \in Installed(l) : c = [op |-> "mark", mac |-> m, id |-> ClassID(l, m)]
  BY <1>1, <1>3 DEF Command
<1>4. CASE \E m \in Installed(l) : c = [op |-> "class", id |-> ClassID(l, m), mbps |-> l[m]]
  BY <1>1, <1>4 DEF Command
<1>5. CASE \E m \in Installed(l) : c = [op |-> "filter", id |-> ClassID(l, m)]
  BY <1>1, <1>5 DEF Command
<1> QED BY <1>2, <1>3, <1>4, <1>5 DEF IsCommand

LEMMA ScriptBounds ==
  ASSUME NEW l \in Limits
  PROVE  Len(Script(l)) \in Nat /\ 1 \in 1 .. Len(Script(l))
         /\ \A k \in 1 .. Len(Script(l)) : IsCommand(Script(l)[k], l)
BY ScriptForm DEF IsScript

LEMMA ScriptType ==
  ASSUME NEW l \in Limits
  PROVE  Script(l) \in Seq(Command)
<1>1. \E S : Script(l) \in Seq(S)
  <2> DEFINE count == Cardinality(Installed(l))
             id(i) == ClassID(l, Nth(l, i))
             f == [i \in 1 .. count |-> [op |-> "mark", mac |-> Nth(l, i), id |-> id(i)]]
             g == [i \in 1 .. 2 * count |->
                     IF i % 2 = 1
                     THEN [op |-> "class", id |-> id((i + 1) \div 2), mbps |-> l[Nth(l, (i + 1) \div 2)]]
                     ELSE [op |-> "filter", id |-> id(i \div 2)]]
             S == {[op |-> "resetMarks"], [op |-> "resetTc"]}
                  \cup {f[i] : i \in 1 .. count} \cup {g[i] : i \in 1 .. 2 * count}
  <2>1. count \in Nat /\ 2 * count \in Nat
    BY NthOf DEF Count
  <2>2. f \in Seq(S) /\ g \in Seq(S) /\ [op |-> "resetMarks"] \in S /\ [op |-> "resetTc"] \in S
    <3>1. f \in [1 .. count -> S] /\ g \in [1 .. 2 * count -> S]
      OBVIOUS
    <3> HIDE DEF f, g, S, count
    <3>2. f \in Seq(S) /\ g \in Seq(S)
      BY <2>1, <3>1, SeqDef
    <3> QED BY <3>2 DEF S
  <2>3. Script(l) = <<[op |-> "resetMarks"]>> \o f \o <<[op |-> "resetTc"]>> \o g
    BY DEF Script
  <2> HIDE DEF f, g, S
  <2>4. <<[op |-> "resetMarks"]>> \o f \o <<[op |-> "resetTc"]>> \o g \in Seq(S)
    BY <2>2
  <2> QED BY <2>3, <2>4
<1>2. \A k \in 1 .. Len(Script(l)) : Script(l)[k] \in Command
  BY ScriptBounds, CommandType
<1>3. Len(Script(l)) \in Nat /\ Script(l) \in [1 .. Len(Script(l)) -> Command]
  BY <1>1, <1>2, LenProperties
<1> QED BY <1>3, SeqDef

\* The fields of a command in the file.
LEMMA CommandFields ==
  ASSUME NEW c \in Command
  PROVE  /\ c.op \in {"resetMarks", "mark", "resetTc", "class", "filter"}
         /\ c.op = "mark" => c.mac \in MACs /\ c.id \in Nat /\ c.id \in classIDStart..classIDMax
         /\ c.op = "class" => c.id \in Nat /\ c.mbps \in Nat
         /\ c.op = "filter" => c.id \in Nat
<1>1. classIDStart..classIDMax \subseteq Nat /\ Mbps \subseteq Nat
  BY LimitsAssumption
<1> QED BY <1>1 DEF Command

LEMMA ExecType ==
  ASSUME NEW kn \in MarkedKernels, NEW c \in Command
  PROVE  Exec(kn, c) \in MarkedKernels
<1>0. kn \in Kernels /\ MarksInRange(kn) /\ kn.marks \in [MACs -> Nat]
  BY KernelParts DEF MarkedKernels
<1>1. CASE c.op = "resetMarks"
  <2>1. Exec(kn, c) \in Kernels /\ Exec(kn, c).marks = NoLimits
    BY <1>0, <1>1, ExecResetMarks
  <2> QED BY <2>1 DEF MarkedKernels, MarksInRange, Marks, NoLimits, NoLimit
<1>2. CASE c.op = "mark"
  <2>1. c.mac \in MACs /\ c.id \in Nat /\ c.id \in classIDStart..classIDMax
    BY <1>2, CommandFields
  <2>2. Exec(kn, c) \in Kernels /\ Exec(kn, c).marks = [kn.marks EXCEPT ![c.mac] = c.id]
    BY <1>0, <1>2, <2>1, ExecMark
  <2> QED BY <1>0, <2>1, <2>2 DEF MarkedKernels, MarksInRange, Marks
<1>3. CASE c.op \in {"resetTc", "class", "filter"}
  <2>1. Exec(kn, c) \in Kernels /\ Exec(kn, c).marks = kn.marks
    BY <1>0, <1>3, CommandFields, ExecResetTc, ExecClass, ExecFilter
  <2> QED BY <1>0, <2>1 DEF MarkedKernels, MarksInRange
<1> QED BY <1>1, <1>2, <1>3, CommandFields

\* Whatever commands a file holds, running them leaves such a kernel.
LEMMA RunAllType ==
  ASSUME NEW s \in Seq(Command), NEW kn \in MarkedKernels
  PROVE  RunAll(kn, s) \in MarkedKernels
<1> DEFINE N == Len(s)
           next == [vn \in MarkedKernels \X (1 .. N) |-> Exec(vn[1], s[vn[2]])]
           ran == CHOOSE f : f = [n \in 0 .. N |-> IF n = 0 THEN kn ELSE Exec(f[n - 1], s[n])]
<1>1. N \in Nat /\ \A n \in 1 .. N : s[n] \in Command
  OBVIOUS
<1>2. RunAll(kn, s) = ran[N]
  BY DEF RunAll
<1> HIDE DEF N
<1>3. IsLoop(N, MarkedKernels, kn, next)
  BY <1>1, ExecType DEF IsLoop
<1>4. PICK f : IsRun(f, N, MarkedKernels, kn, next)
  <2> HIDE DEF next
  <2> QED BY <1>3, Loop
<1>5. f = [n \in 0 .. N |-> IF n = 0 THEN kn ELSE Exec(f[n - 1], s[n])]
  <2>1. f \in [0 .. N -> MarkedKernels] /\ f[0] = kn
        /\ \A n \in 1 .. N : f[n] = next[<<f[n - 1], n>>]
    BY <1>4 DEF IsRun
  <2>2. ASSUME NEW n \in 1 .. N PROVE f[n] = Exec(f[n - 1], s[n])
    <3>1. f[n - 1] \in MarkedKernels
      BY <1>1, <2>1
    <3> QED BY <2>1, <3>1
  <2> HIDE DEF next
  <2> QED BY <1>1, <2>1, <2>2
<1>6. ran = [n \in 0 .. N |-> IF n = 0 THEN kn ELSE Exec(ran[n - 1], s[n])]
  BY <1>5
<1> HIDE DEF ran, next
<1> DEFINE S == {n \in 0 .. N : ran[n] \in MarkedKernels}
<1>7. 0 \in S
  BY <1>1, <1>6
<1>8. ASSUME NEW n \in 1 .. N, n - 1 \in S PROVE n \in S
  <2>1. ran[n] = Exec(ran[n - 1], s[n])
    BY <1>1, <1>6
  <2> QED BY <1>1, <1>8, <2>1, ExecType
<1> HIDE DEF S
<1>9. N \in S
  <2>1. N \in Nat /\ N \in 0 .. N
    BY <1>1
  <2> QED BY <2>1, <1>7, <1>8, UpTo
<1> QED BY <1>2, <1>9 DEF S

LEMMA EmptyKernelType == EmptyKernel \in MarkedKernels
<1> DEFINE nothing == [i \in {} |-> LineRate]
<1>1. NoLimits \in [MACs -> Nat] /\ \A m \in MACs : NoLimits[m] = 0
  BY DEF NoLimits, NoLimit
<1>2. nothing \in [{} -> Nat]
  OBVIOUS
<1>3. EmptyKernel = [marks |-> NoLimits, classes |-> nothing, filters |-> {}]
  BY DEF EmptyKernel
<1> HIDE DEF nothing
<1>4. EmptyKernel \in Kernels
  BY <1>1, <1>2, <1>3, MakeKernel
<1>5. EmptyKernel.marks = NoLimits
  BY <1>3
<1> QED BY <1>1, <1>4, <1>5 DEF MarkedKernels, MarksInRange, Marks

Steps == {"idle", "list", "truncate", "write", "run"}

TypeInv ==
  /\ may \in Environments
  /\ rows \in Limits /\ file \in Seq(Command)
  /\ kernel \in MarkedKernels
  /\ step \in [Applies -> Steps]
  /\ snapshot \in [Applies -> Limits]
  /\ pos \in [Applies -> Nat] /\ alone \in [Applies -> BOOLEAN]
  /\ \A p \in Applies : pos[p] \in 1 .. Len(Script(snapshot[p]))
  /\ \A p \in Applies : step[p] # "run" => pos[p] = 1

LEMMA NoLimitsType == NoLimits \in Limits
BY DEF NoLimits, Limits

LEMMA EndApplyType ==
  ASSUME TypeInv, NEW p \in Applies, EndApply(p)
  PROVE  /\ step' \in [Applies -> Steps]
         /\ snapshot' \in [Applies -> Limits] /\ pos' \in [Applies -> Nat]
         /\ \A q \in Applies : pos'[q] \in 1 .. Len(Script(snapshot'[q]))
         /\ \A q \in Applies : step'[q] # "run" => pos'[q] = 1
<1>1. ASSUME NEW q \in Applies
      PROVE  pos'[q] \in 1 .. Len(Script(snapshot'[q])) /\ (step'[q] # "run" => pos'[q] = 1)
  <2>1. CASE q = p
    BY <2>1, ScriptBounds, NoLimitsType DEF TypeInv, EndApply
  <2>2. CASE q # p
    BY <2>2 DEF TypeInv, EndApply
  <2> QED BY <2>1, <2>2
<1> QED BY <1>1, NoLimitsType DEF TypeInv, EndApply, Steps

\* The text in front of what stays of the file.
LEMMA PutType ==
  ASSUME file \in Seq(Command), NEW text \in Seq(Command), Put(text)
  PROVE  file' \in Seq(Command)
<1>1. SubSeq(file, Len(text) + 1, Len(file)) \in Seq(Command)
  <2>1. Len(text) \in Nat /\ Len(file) \in Nat
    OBVIOUS
  <2> QED BY <2>1
<1> QED BY <1>1 DEF Put

LEMMA StartUpType ==
  ASSUME NEW p \in Applies
  PROVE  StartUp(p) \in [Applies -> Steps] /\ \A q \in Applies : StartUp(p)[q] # "run"
BY DEF StartUp, Steps

LEMMA TypeInit == Init => TypeInv
<1> SUFFICES ASSUME Init PROVE TypeInv
  OBVIOUS
<1>1. rows \in Limits /\ NoLimits \in Limits
  BY NoLimitsType DEF Init, Limits
<1>2. file \in Seq(Command)
  BY DEF Init
<1>3. PICK p \in Applies : step = StartUp(p)
  BY DEF Init
<1>4. \A q \in Applies : snapshot[q] = NoLimits /\ pos[q] = 1
  BY DEF Init
<1>5. \A q \in Applies : pos[q] \in 1 .. Len(Script(snapshot[q]))
  BY <1>1, <1>4, ScriptBounds
<1> QED BY <1>1, <1>2, <1>3, <1>4, <1>5, StartUpType, EmptyKernelType DEF Init, TypeInv

LEMMA TypeStep == TypeInv /\ [Next]_vars => TypeInv'
<1> SUFFICES ASSUME TypeInv, [Next]_vars PROVE TypeInv'
  OBVIOUS
<1>1. ASSUME NEW r \in Applies, NEW m \in MACs, NEW limit \in {NoLimit} \cup Mbps, ChangeRow(r, m, limit)
      PROVE  TypeInv'
  <2>1. step[r] = "idle" /\ step' = [step EXCEPT ![r] = "list"]
    BY <1>1 DEF ChangeRow, Go
  <2>2. rows' \in Limits
    BY <1>1 DEF ChangeRow, TypeInv, Limits
  <2>3. alone' \in [Applies -> BOOLEAN]
    BY <1>1 DEF ChangeRow, Idle
  <2>4. UNCHANGED <<may, file, kernel, snapshot, pos>>
    BY <1>1 DEF ChangeRow
  <2> QED BY <2>1, <2>2, <2>3, <2>4 DEF TypeInv, Steps
<1>2. ASSUME NEW p \in Applies, List(p) PROVE TypeInv'
  <2>1. step[p] = "list" /\ step' = [step EXCEPT ![p] = "truncate"]
        /\ snapshot' = [snapshot EXCEPT ![p] = rows] /\ UNCHANGED <<may, rows, file, kernel, pos, alone>>
    BY <1>2 DEF List, Go
  <2>2. ASSUME NEW q \in Applies PROVE pos'[q] \in 1 .. Len(Script(snapshot'[q]))
    <3>1. CASE q = p
      BY <2>1, <3>1, ScriptBounds DEF TypeInv
    <3>2. CASE q # p
      BY <2>1, <3>2 DEF TypeInv
    <3> QED BY <3>1, <3>2
  <2> QED BY <2>1, <2>2 DEF TypeInv, Steps
<1>11. ASSUME NEW p \in Applies, Truncate(p) PROVE TypeInv'
  <2>1. file' \in Seq(Command)
    BY <1>11 DEF Truncate
  <2> QED BY <1>11, <2>1 DEF Truncate, Go, TypeInv, Steps
<1>3. ASSUME NEW p \in Applies, Write(p) PROVE TypeInv'
  <2>1. Script(snapshot[p]) \in Seq(Command) /\ file \in Seq(Command) /\ Put(Script(snapshot[p]))
    BY <1>3, ScriptType DEF Write, TypeInv
  <2>2. file' \in Seq(Command)
    BY <2>1, PutType
  <2> QED BY <1>3, <2>2 DEF Write, Go, TypeInv, Steps
<1>4. ASSUME NEW p \in Applies, ApplyFails(p) PROVE TypeInv'
  <2>1. EndApply(p) /\ UNCHANGED <<may, rows, kernel, alone>>
    BY <1>4 DEF ApplyFails
  <2>2. file' \in Seq(Command)
    <3>1. CASE UNCHANGED file
      BY <3>1 DEF TypeInv
    <3>2. CASE \E n \in 0 .. Len(Script(snapshot[p])) : Put(SubSeq(Script(snapshot[p]), 1, n))
      <4>1. PICK n \in 0 .. Len(Script(snapshot[p])) : Put(SubSeq(Script(snapshot[p]), 1, n))
        BY <3>2
      <4>2. Script(snapshot[p]) \in Seq(Command) /\ file \in Seq(Command)
        BY ScriptType DEF TypeInv
      <4>3. SubSeq(Script(snapshot[p]), 1, n) \in Seq(Command)
        <5>1. ASSUME NEW t \in Seq(Command), NEW k \in 0 .. Len(t)
              PROVE  SubSeq(t, 1, k) \in Seq(Command)
          OBVIOUS
        <5> QED BY <4>2, <5>1
      <4> QED BY <4>1, <4>2, <4>3, PutType
    <3> QED BY <1>4, <3>1, <3>2 DEF ApplyFails
  <2> QED BY <2>1, <2>2, EndApplyType DEF TypeInv
<1>5. ASSUME NEW p \in Applies, RunCommand(p) PROVE TypeInv'
  <2> DEFINE l == snapshot[p]
             s == Script(l)
  <2>1. /\ step[p] = "run" /\ kernel' = Exec(kernel, s[pos[p]])
        /\ IF pos[p] = Len(s) THEN EndApply(p) ELSE NextCommand(p)
        /\ UNCHANGED <<may, rows, file, alone>>
    BY <1>5 DEF RunCommand
  <2>2. l \in Limits /\ pos[p] \in 1 .. Len(s)
    BY DEF TypeInv
  <2>3. kernel' \in MarkedKernels
    <3>1. s[pos[p]] \in Command
      BY <2>2, ScriptBounds, CommandType
    <3> QED BY <2>1, <2>2, <3>1, ExecType DEF TypeInv
  <2>4. CASE pos[p] = Len(s)
    BY <2>1, <2>3, <2>4, EndApplyType DEF TypeInv
  <2>5. CASE pos[p] # Len(s)
    <3>1. pos' = [pos EXCEPT ![p] = pos[p] + 1] /\ UNCHANGED <<step, snapshot>>
      BY <2>1, <2>5 DEF NextCommand
    <3>2. Len(s) \in Nat /\ pos[p] + 1 \in 1 .. Len(s) /\ pos[p] + 1 \in Nat
      BY <2>2, <2>5, ScriptBounds
    <3>3. ASSUME NEW q \in Applies
          PROVE  pos'[q] \in 1 .. Len(Script(snapshot'[q])) /\ (step'[q] # "run" => pos'[q] = 1)
      <4>1. CASE q = p
        BY <2>1, <3>1, <3>2, <4>1 DEF TypeInv
      <4>2. CASE q # p
        BY <3>1, <4>2 DEF TypeInv
      <4> QED BY <4>1, <4>2
    <3> QED BY <2>1, <2>3, <3>1, <3>2, <3>3 DEF TypeInv
  <2> QED BY <2>4, <2>5
<1>6. CASE ReloadFirewall
  <2>1. kernel' \in MarkedKernels
    BY <1>6, RunAllType DEF TypeInv, ReloadFirewall
  <2>2. alone' \in [Applies -> BOOLEAN]
    BY <1>6 DEF ReloadFirewall
  <2> QED BY <1>6, <2>1, <2>2 DEF ReloadFirewall, TypeInv
<1>7. ASSUME NEW p \in Applies, Restart(p) PROVE TypeInv'
  <2>1. /\ step' = [q \in Applies |-> IF q \in Scripts THEN "run" ELSE StartUp(p)[q]]
        /\ snapshot' = [q \in Applies |-> IF q \in Scripts THEN snapshot[q] ELSE NoLimits]
        /\ alone' = [q \in Applies |-> q = p /\ Scripts = {}]
        /\ UNCHANGED <<may, rows, file, kernel, pos>>
    BY <1>7 DEF Restart
  <2>2. ASSUME NEW q \in Applies
        PROVE  pos'[q] \in 1 .. Len(Script(snapshot'[q])) /\ (step'[q] # "run" => pos'[q] = 1)
    <3>1. CASE q \in Scripts
      BY <2>1, <3>1 DEF TypeInv
    <3>2. CASE q \notin Scripts
      <4>1. pos'[q] = 1 /\ snapshot'[q] = NoLimits
        BY <2>1, <3>2 DEF Scripts, TypeInv
      <4> QED BY <4>1, ScriptBounds, NoLimitsType
    <3> QED BY <3>1, <3>2
  <2>3. step' \in [Applies -> Steps]
    BY <2>1, StartUpType DEF Steps
  <2>4. snapshot' \in [Applies -> Limits] /\ alone' \in [Applies -> BOOLEAN]
    BY <2>1, NoLimitsType DEF TypeInv
  <2> QED BY <2>1, <2>2, <2>3, <2>4 DEF TypeInv
<1>12. ASSUME NEW p \in Applies, Reboot(p) PROVE TypeInv'
  <2>1. kernel' \in MarkedKernels
    BY <1>12, RunAllType, EmptyKernelType DEF TypeInv, Reboot
  <2>2. /\ snapshot' = [q \in Applies |-> NoLimits] /\ pos' = [q \in Applies |-> 1]
        /\ step' = StartUp(p) /\ alone' = [q \in Applies |-> TRUE] /\ UNCHANGED <<may, rows, file>>
    BY <1>12 DEF Reboot
  <2>3. \A q \in Applies : pos'[q] \in 1 .. Len(Script(snapshot'[q]))
    BY <2>2, ScriptBounds, NoLimitsType
  <2> QED BY <2>1, <2>2, <2>3, StartUpType, NoLimitsType DEF TypeInv
<1>8. CASE UNCHANGED vars
  BY <1>8 DEF vars, TypeInv
<1>9. ASSUME NEW r \in Applies, NEW m \in MACs, NEW limit \in Mbps, SetBandwidthLimit(r, m, limit)
      PROVE  TypeInv'
  BY <1>1, <1>9 DEF SetBandwidthLimit
<1>10. ASSUME NEW r \in Applies, NEW m \in MACs, DeleteBandwidthLimit(r, m)
       PROVE  TypeInv'
  BY <1>1, <1>10 DEF DeleteBandwidthLimit
<1> QED BY <1>2, <1>3, <1>4, <1>5, <1>6, <1>7, <1>8, <1>9, <1>10, <1>11, <1>12 DEF Next

\* Every limit stays a limit the handlers accept, the script file holds whole commands
\* of the kind the generator writes, every apply stays inside the script of the table
\* it listed, and no device is ever marked outside classIDStart to classIDMax
\* (bandwidth_limits.go:25-28), however applies, reloads, failures, orphaned scripts
\* and boots interleave.
THEOREM LimitsTypeOK == Spec => []TypeOK
<1>1. TypeInv => TypeOK
  BY DEF TypeInv, TypeOK, MarkedKernels, MarksInRange, Marks, Limits, Steps
<1> QED BY TypeInit, TypeStep, <1>1, PTL DEF Spec

-----------------------------------------------------------------------------
(* An apply that nothing overlaps.  What it listed is the table still, the *)
(* file it truncated stays empty until it writes, and while its script     *)
(* runs the kernel is what the commands so far build.                      *)

Tracked(p) ==
  /\ \A q \in Applies \ {p} : step[q] = "idle"
  /\ step[p] \in {"truncate", "write", "run"} => snapshot[p] = rows
  /\ step[p] = "write" => file = <<>>
  /\ step[p] = "run" => file = Script(rows) /\ Built(kernel, Script(rows), rows, Count(rows) + 2, pos[p])

LimitsInv ==
  /\ \A p \in Applies : step[p] # "idle" /\ (alone[p] \/ may = {}) => Tracked(p)
  /\ may = {} /\ Idle => InSync

LEMMA BuiltInSync ==
  ASSUME NEW l \in Limits, NEW kn, Built(kn, Script(l), l, Count(l) + 2, Len(Script(l)) + 1)
  PROVE  \A m \in MACs : Rate(kn, m) = IF m \in Shaped(l) THEN l[m] ELSE LineRate
BY ScriptForm, BuiltRates

\* The last command of an apply that is tracked leaves the kernel and the script
\* file with the table.
LEMMA LastCommand ==
  ASSUME TypeInv, NEW p \in Applies, RunCommand(p), Tracked(p), pos[p] = Len(Script(snapshot[p]))
  PROVE  InSync'
<1>1. /\ step[p] = "run" /\ snapshot[p] = rows /\ file = Script(rows) /\ rows \in Limits
      /\ Built(kernel, Script(rows), rows, Count(rows) + 2, pos[p])
  BY DEF RunCommand, Tracked, TypeInv
<1>2. kernel' = Exec(kernel, Script(rows)[pos[p]]) /\ rows' = rows /\ file' = file
  BY <1>1 DEF RunCommand
<1>3. pos[p] \in 1 .. Len(Script(rows)) /\ pos[p] = Len(Script(rows))
  BY <1>1 DEF TypeInv
<1>4. Built(kernel', Script(rows), rows, Count(rows) + 2, Len(Script(rows)) + 1)
  BY <1>1, <1>2, <1>3, BuiltStep, ScriptForm
<1> QED BY <1>1, <1>2, <1>4, BuiltInSync DEF InSync

LEMMA PutOnEmpty ==
  ASSUME NEW text \in Seq(Command), file = <<>>, Put(text)
  PROVE  file' = text
<1>1. SubSeq(file, Len(text) + 1, Len(file)) = <<>>
  <2>1. Len(text) \in Nat /\ Len(file) = 0
    OBVIOUS
  <2> QED BY <2>1
<1> QED BY <1>1 DEF Put

LEMMA LimitsInit == Init => LimitsInv
BY DEF Init, LimitsInv, Tracked, Idle, StartUp

LEMMA LimitsStep == TypeInv /\ LimitsInv /\ [Next]_vars => LimitsInv'
<1> SUFFICES ASSUME TypeInv, LimitsInv, [Next]_vars PROVE LimitsInv'
  OBVIOUS
<1>0. ASSUME NEW p \in Applies, step[p] # "idle", alone[p] \/ may = {} PROVE Tracked(p)
  BY <1>0 DEF LimitsInv
<1>1. ASSUME NEW r \in Applies, NEW m \in MACs, NEW limit, ChangeRow(r, m, limit)
      PROVE  LimitsInv'
  <2>1. step' = [step EXCEPT ![r] = "list"] /\ may' = may
        /\ alone' = [p \in Applies |-> IF p = r THEN Idle ELSE FALSE]
        /\ (may = {} => Idle)
    BY <1>1 DEF ChangeRow, Go
  <2>2. step'[r] = "list"
    BY <2>1 DEF TypeInv
  <2>3. ASSUME NEW p \in Applies, step'[p] # "idle", alone'[p] \/ may' = {} PROVE Tracked(p)'
    <3>1. Idle
      BY <2>1, <2>3
    <3>2. p = r
      BY <2>1, <2>3, <3>1 DEF Idle, TypeInv
    <3>3. \A q \in Applies \ {p} : step'[q] = "idle"
      BY <2>1, <3>1, <3>2 DEF Idle, TypeInv
    <3> QED BY <2>2, <3>2, <3>3 DEF Tracked
  <2>4. ~Idle'
    BY <2>1, <2>2 DEF Idle
  <2> QED BY <2>3, <2>4 DEF LimitsInv
<1>2. ASSUME NEW p \in Applies, List(p) PROVE LimitsInv'
  <2>1. step[p] = "list" /\ step' = [step EXCEPT ![p] = "truncate"]
        /\ snapshot' = [snapshot EXCEPT ![p] = rows] /\ UNCHANGED <<may, rows, file, kernel, pos, alone>>
    BY <1>2 DEF List, Go
  <2>2. step'[p] = "truncate" /\ snapshot'[p] = rows'
    BY <2>1 DEF TypeInv
  <2>3. ASSUME NEW q \in Applies, step'[q] # "idle", alone'[q] \/ may' = {} PROVE Tracked(q)'
    <3>1. CASE q = p
      <4>1. Tracked(p)
        BY <1>0, <2>1, <2>3, <3>1
      <4>2. \A x \in Applies \ {p} : step'[x] = "idle"
        BY <2>1, <4>1 DEF Tracked, TypeInv
      <4> QED BY <2>2, <3>1, <4>2 DEF Tracked
    <3>2. CASE q # p
      <4>1. step[q] # "idle" /\ (alone[q] \/ may = {})
        BY <2>1, <2>3, <3>2 DEF TypeInv
      <4>2. Tracked(q)
        BY <1>0, <4>1
      <4> QED BY <2>1, <3>2, <4>2 DEF Tracked
    <3> QED BY <3>1, <3>2
  <2>4. ~Idle'
    BY <2>2 DEF Idle
  <2> QED BY <2>3, <2>4 DEF LimitsInv
<1>11. ASSUME NEW p \in Applies, Truncate(p) PROVE LimitsInv'
  <2>1. step[p] = "truncate" /\ step' = [step EXCEPT ![p] = "write"] /\ file' = <<>>
        /\ UNCHANGED <<may, rows, kernel, snapshot, pos, alone>>
    BY <1>11 DEF Truncate, Go
  <2>2. step'[p] = "write"
    BY <2>1 DEF TypeInv
  <2>3. ASSUME NEW q \in Applies, step'[q] # "idle", alone'[q] \/ may' = {} PROVE Tracked(q)'
    <3>1. CASE q = p
      <4>1. Tracked(p)
        BY <1>0, <2>1, <2>3, <3>1
      <4>2. \A x \in Applies \ {p} : step'[x] = "idle"
        BY <2>1, <4>1 DEF Tracked, TypeInv
      <4>3. snapshot'[p] = rows'
        BY <2>1, <4>1 DEF Tracked
      <4> QED BY <2>1, <2>2, <3>1, <4>2, <4>3 DEF Tracked
    <3>2. CASE q # p
      <4>1. step[q] # "idle" /\ (alone[q] \/ may = {})
        BY <2>1, <2>3, <3>2 DEF TypeInv
      <4>2. Tracked(q)
        BY <1>0, <4>1
      <4> QED BY <2>1, <3>2, <4>2 DEF Tracked
    <3> QED BY <3>1, <3>2
  <2>4. ~Idle'
    BY <2>2 DEF Idle
  <2> QED BY <2>3, <2>4 DEF LimitsInv
<1>3. ASSUME NEW p \in Applies, Write(p) PROVE LimitsInv'
  <2>1. step[p] = "write" /\ step' = [step EXCEPT ![p] = "run"] /\ Put(Script(snapshot[p]))
        /\ UNCHANGED <<may, rows, kernel, snapshot, pos, alone>>
    BY <1>3 DEF Write, Go
  <2>2. step'[p] = "run" /\ pos[p] = 1
    BY <2>1 DEF TypeInv
  <2>3. ASSUME NEW q \in Applies, step'[q] # "idle", alone'[q] \/ may' = {} PROVE Tracked(q)'
    <3>1. CASE q = p
      <4>1. Tracked(p)
        BY <1>0, <2>1, <2>3, <3>1
      <4>2. \A x \in Applies \ {p} : step'[x] = "idle"
        BY <2>1, <4>1 DEF Tracked, TypeInv
      <4>3. snapshot[p] = rows /\ file' = Script(rows)
        <5>1. snapshot[p] = rows /\ rows \in Limits /\ file = <<>>
          BY <2>1, <4>1 DEF Tracked, TypeInv
        <5> QED BY <2>1, <5>1, ScriptType, PutOnEmpty
      <4>4. Built(kernel, Script(rows), rows, Count(rows) + 2, 1)
        BY BuiltAtFirst DEF TypeInv, MarkedKernels
      <4>5. Built(kernel', Script(rows'), rows', Count(rows') + 2, pos'[p])
        BY <2>1, <2>2, <4>4
      <4> QED BY <2>1, <2>2, <3>1, <4>2, <4>3, <4>5 DEF Tracked
    <3>2. CASE q # p
      <4>1. step[q] # "idle" /\ (alone[q] \/ may = {})
        BY <2>1, <2>3, <3>2 DEF TypeInv
      <4>2. Tracked(q)
        BY <1>0, <4>1
      <4> QED BY <2>1, <3>2, <4>2 DEF Tracked
    <3> QED BY <3>1, <3>2
  <2>4. ~Idle'
    BY <2>2 DEF Idle
  <2> QED BY <2>3, <2>4 DEF LimitsInv
<1>4. ASSUME NEW p \in Applies, ApplyFails(p) PROVE LimitsInv'
  <2>1. may # {} /\ step[p] # "idle" /\ step' = [step EXCEPT ![p] = "idle"]
        /\ UNCHANGED <<may, rows, kernel, alone>>
    BY <1>4 DEF ApplyFails, EndApply
  <2>2. ASSUME NEW q \in Applies, step'[q] # "idle", alone'[q] \/ may' = {} PROVE FALSE
    <3>1. q # p /\ step[q] # "idle" /\ (alone[q] \/ may = {})
      BY <2>1, <2>2 DEF TypeInv
    <3>2. Tracked(q)
      BY <1>0, <3>1
    <3> QED BY <2>1, <3>1, <3>2 DEF Tracked
  <2> QED BY <2>1, <2>2 DEF LimitsInv
<1>5. ASSUME NEW p \in Applies, RunCommand(p) PROVE LimitsInv'
  <2>1. step[p] = "run" /\ UNCHANGED <<may, rows, file, alone>>
        /\ kernel' = Exec(kernel, Script(snapshot[p])[pos[p]])
        /\ IF pos[p] = Len(Script(snapshot[p])) THEN EndApply(p) ELSE NextCommand(p)
    BY <1>5 DEF RunCommand
  <2>2. ASSUME NEW q \in Applies \ {p}, step'[q] # "idle", alone'[q] \/ may' = {} PROVE FALSE
    <3>1. step'[q] = step[q]
      BY <2>1 DEF EndApply, NextCommand, TypeInv
    <3>2. Tracked(q)
      BY <1>0, <2>1, <2>2, <3>1
    <3> QED BY <2>1, <3>2 DEF Tracked
  <2>3. CASE pos[p] = Len(Script(snapshot[p]))
    <3>1. step'[p] = "idle"
      BY <2>1, <2>3 DEF EndApply, TypeInv
    <3>2. ASSUME may' = {} PROVE InSync'
      <4>1. Tracked(p)
        BY <1>0, <2>1, <3>2
      <4> QED BY <1>5, <2>3, <4>1, LastCommand
    <3> QED BY <2>2, <3>1, <3>2 DEF LimitsInv
  <2>4. CASE pos[p] # Len(Script(snapshot[p]))
    <3>1. pos' = [pos EXCEPT ![p] = pos[p] + 1] /\ step' = step /\ snapshot' = snapshot
      BY <2>1, <2>4 DEF NextCommand
    <3>2. ~Idle'
      BY <2>1, <3>1 DEF Idle
    <3>3. ASSUME alone'[p] \/ may' = {} PROVE Tracked(p)'
      <4>1. Tracked(p)
        BY <1>0, <2>1, <3>3
      <4>2. /\ snapshot[p] = rows /\ file = Script(rows) /\ rows \in Limits
            /\ pos[p] \in 1 .. Len(Script(rows))
            /\ Built(kernel, Script(rows), rows, Count(rows) + 2, pos[p])
        BY <2>1, <4>1 DEF Tracked, TypeInv
      <4>3. Built(kernel', Script(rows), rows, Count(rows) + 2, pos[p] + 1)
        BY <2>1, <4>2, BuiltStep, ScriptForm
      <4>4. pos'[p] = pos[p] + 1
        BY <3>1 DEF TypeInv
      <4>5. Built(kernel', Script(rows'), rows', Count(rows') + 2, pos'[p])
        BY <2>1, <4>3, <4>4
      <4> QED BY <2>1, <3>1, <4>1, <4>2, <4>5 DEF Tracked
    <3> QED BY <2>2, <3>2, <3>3 DEF LimitsInv
  <2> QED BY <2>3, <2>4
<1>6. CASE ReloadFirewall
  <2>1. kernel' = RunAll(kernel, file) /\ alone' = [p \in Applies |-> FALSE]
        /\ UNCHANGED <<may, rows, file, step, snapshot, pos>> /\ (may = {} => Idle)
    BY <1>6 DEF ReloadFirewall
  <2>2. ASSUME NEW q \in Applies, step'[q] # "idle", alone'[q] \/ may' = {} PROVE FALSE
    BY <2>1, <2>2 DEF Idle
  <2>3. ASSUME may' = {} PROVE InSync'
    <3>1. InSync /\ file = Script(rows) /\ rows \in Limits /\ kernel \in Kernels
      BY <2>1, <2>3 DEF LimitsInv, TypeInv, InSync, MarkedKernels
    <3>2. \A m \in MACs : Rate(kernel', m) = IF m \in Shaped(rows) THEN rows[m] ELSE LineRate
      BY <2>1, <3>1, RunAllBuilds, BuiltInSync
    <3> QED BY <2>1, <3>1, <3>2 DEF InSync
  <2> QED BY <2>2, <2>3 DEF LimitsInv
<1>7. ASSUME NEW p \in Applies, Restart(p) PROVE LimitsInv'
  <2>1. /\ step' = [q \in Applies |-> IF q \in Scripts THEN "run" ELSE StartUp(p)[q]]
        /\ alone' = [q \in Applies |-> q = p /\ Scripts = {}] /\ may' = may
        /\ (may = {} => Scripts = {}) /\ p \notin Scripts
    BY <1>7 DEF Restart, Scripts
  <2>2. ASSUME NEW q \in Applies, step'[q] # "idle", alone'[q] \/ may' = {} PROVE Tracked(q)'
    <3>1. Scripts = {}
      BY <2>1, <2>2
    <3>2. step' = [x \in Applies |-> IF x = p THEN "list" ELSE "idle"]
      BY <2>1, <3>1 DEF StartUp
    <3> QED BY <2>2, <3>2 DEF Tracked
  <2>3. ~Idle'
    BY <2>1 DEF Idle, StartUp
  <2> QED BY <2>2, <2>3 DEF LimitsInv
<1>12. ASSUME NEW p \in Applies, Reboot(p) PROVE LimitsInv'
  <2>1. step' = [q \in Applies |-> IF q = p THEN "list" ELSE "idle"]
    BY <1>12 DEF Reboot, StartUp
  <2>2. \A q \in Applies : step'[q] # "idle" => Tracked(q)'
    BY <2>1 DEF Tracked
  <2>3. ~Idle'
    BY <2>1 DEF Idle
  <2> QED BY <2>2, <2>3 DEF LimitsInv
<1>8. CASE UNCHANGED vars
  BY <1>8 DEF vars, LimitsInv, Tracked, Idle, InSync
<1>9. ASSUME NEW r \in Applies, NEW m \in MACs, NEW limit \in Mbps, SetBandwidthLimit(r, m, limit)
      PROVE  LimitsInv'
  BY <1>1, <1>9 DEF SetBandwidthLimit
<1>10. ASSUME NEW r \in Applies, NEW m \in MACs, DeleteBandwidthLimit(r, m)
       PROVE  LimitsInv'
  BY <1>1, <1>10 DEF DeleteBandwidthLimit
<1> QED BY <1>2, <1>3, <1>4, <1>5, <1>6, <1>7, <1>8, <1>9, <1>10, <1>11, <1>12 DEF Next

\* Where applies do not overlap and nothing fails, the kernel limits exactly the
\* devices of the table that have a class of their own, each to its rate, and the
\* boot script is of the same table, whenever no apply is under way: through boots at
\* any command and a service that dies while no script runs, truncated file and all
\* (ApplyAllBandwidthLimits, bandwidth_limits.go:89-124).
THEOREM KernelFollowsTable == Spec => []InSyncWhenIdle
<1>1. LimitsInv => InSyncWhenIdle
  BY DEF LimitsInv, InSyncWhenIdle
<1> QED BY TypeInit, TypeStep, LimitsInit, LimitsStep, <1>1, PTL DEF Spec

\* Whatever overlapping applies, failures, scripts that outlive the service and boots
\* have left in the kernel and in the script file, one apply that completes with
\* nothing beside it repairs both.
THEOREM ApplyRepairs == Spec => LoneApplyRepairs
<1>1. ASSUME TypeInv, LimitsInv, NEW p \in Applies,
             RunCommand(p), step'[p] = "idle", alone[p]
      PROVE  InSync'
  <2>1. step[p] = "run" /\ pos[p] = Len(Script(snapshot[p]))
    BY <1>1 DEF RunCommand, NextCommand
  <2>2. Tracked(p)
    BY <1>1, <2>1 DEF LimitsInv
  <2> QED BY <1>1, <2>1, <2>2, LastCommand
<1>2. TypeInv /\ LimitsInv
      => [\A p \in Applies : RunCommand(p) /\ step'[p] = "idle" /\ alone[p] => InSync']_vars
  BY <1>1
<1> QED BY TypeInit, TypeStep, LimitsInit, LimitsStep, <1>2, PTL DEF Spec, LoneApplyRepairs

\* With no more limited devices than there are classes before the default one (20
\* of them, bandwidth_limits.go:26-28), every limit in the table is in force.  The device
\* after those is given the class of "htb default 30" itself, and is not limited.
THEOREM FewDevicesAllShaped ==
  ASSUME NEW l, Cardinality(Limited(l)) <= defaultClass - classIDStart,
         parentClass < classIDStart, defaultClass <= classIDMax
  PROVE  Shaped(l) = Limited(l)
<1>1. Limited(l) \in SUBSET MACs /\ {classIDStart, classIDMax, defaultClass} \subseteq Nat
  BY LimitsAssumption DEF Limited
<1>2. ASSUME NEW m \in Limited(l)
      PROVE  ClassID(l, m) \in classIDStart .. defaultClass - 1
  <2>1. /\ Cardinality(Ahead(Limited(l), m)) < Cardinality(Limited(l))
        /\ Cardinality(Ahead(Limited(l), m)) \in Nat /\ Cardinality(Limited(l)) \in Nat
    BY <1>1, Places, AheadFinite
  <2>2. ClassID(l, m) = classIDStart + Cardinality(Ahead(Limited(l), m))
    BY DEF ClassID, Ahead
  <2> QED BY <1>1, <2>1, <2>2
<1>3. ASSUME NEW m \in Limited(l)
      PROVE  ClassID(l, m) <= classIDMax /\ ClassID(l, m) \notin {parentClass, defaultClass}
  BY <1>1, <1>2 DEF parentClass
<1> QED BY <1>3 DEF Shaped, Installed
=============================================================================
