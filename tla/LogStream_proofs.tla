-------------------------- MODULE LogStream_proofs --------------------------
(***************************************************************************)
(* Three facts, for every number of clients and categories and every       *)
(* capacity of the channels that the formula allows: Subscribe never       *)
(* blocks with the mutex in its hands, as what is kept of a category fits  *)
(* in a new channel; no line is lost between the replay and the live       *)
(* lines; none is sent twice.                                              *)
(*                                                                         *)
(* The last two follow from what the history of a category is (Kept: its   *)
(* latest lines, in order, each with as many lines of the category after   *)
(* it as there are behind it) and from what a client has been sent         *)
(* (Shows: part of what it is due, without repetition, all of it while     *)
(* its channel has had room).                                              *)
(***************************************************************************)
EXTENDS LogStream, FiniteSetTheorems, WellFoundedInduction, SequenceTheorems, TLAPS

\* The lines of a category that are kept are at most HistoryPerCategory, and
\* only lines that exist are looked up.
HistoryBounded ==
  /\ written \in Seq(Categories) /\ held \in 0 .. Len(written) /\ pos \in Nat
  /\ history \in [Categories -> Seq(Nat)]
  /\ \A k \in Categories : Len(history[k]) <= HistoryPerCategory

IInv == HistoryBounded /\ NeverBlocksWithLock

\* A channel has room for the history of a category.
LEMMA HistoryFits == HistoryPerCategory <= Capacity
<1>1. HistoryPerCategory \in Nat /\ Slots \in Nat /\ Slack \in Nat /\ Slots >= 1
  BY LogAssumption
<1>2. \A h, s \in Nat : s >= 1 => h * s >= h
  <2> SUFFICES ASSUME NEW h \in Nat, NEW s \in Nat, s >= 1 PROVE h * s >= h
    OBVIOUS
  <2>1. PICK t \in Nat : s = t + 1
    <3> s - 1 \in Nat /\ s = (s - 1) + 1
      OBVIOUS
    <3> QED OBVIOUS
  <2>2. h * s = h * t + h
    BY <2>1
  <2>3. h * t \in Nat
    OBVIOUS
  <2> QED BY <2>2, <2>3
<1>3. HistoryPerCategory * Slots >= HistoryPerCategory
  BY <1>1, <1>2
<1>4. HistoryPerCategory * Slots \in Nat
  BY <1>1
<1> QED BY <1>1, <1>3, <1>4 DEF Capacity

LEMMA CapacityIsNat == Capacity \in Nat
<1>1. HistoryPerCategory \in Nat /\ Slots \in Nat /\ Slack \in Nat
  BY LogAssumption
<1>2. HistoryPerCategory * Slots \in Nat
  BY <1>1
<1> QED BY <1>1, <1>2 DEF Capacity

\* Trimming leaves at most HistoryPerCategory lines.
LEMMA LatestBounded ==
  ASSUME NEW s \in Seq(Nat), NEW n \in Nat
  PROVE  /\ Latest(Append(s, n)) \in Seq(Nat)
         /\ Len(Latest(Append(s, n))) <= HistoryPerCategory
<1> DEFINE t == Append(s, n)
<1>1. HistoryPerCategory \in Nat /\ t \in Seq(Nat) /\ Len(t) \in Nat
  BY LogAssumption
<1>2. CASE Len(t) > HistoryPerCategory
  <2>1. Latest(t) = SubSeq(t, Len(t) - HistoryPerCategory + 1, Len(t))
    BY <1>2 DEF Latest
  <2>2. \A i \in (Len(t) - HistoryPerCategory + 1) .. Len(t) : t[i] \in Nat
    BY <1>1, <1>2
  <2> QED BY <1>1, <1>2, <2>1, <2>2
<1>3. CASE ~(Len(t) > HistoryPerCategory)
  BY <1>1, <1>3 DEF Latest
<1> QED BY <1>2, <1>3

LEMMA InitIInv == Init => IInv
BY LogAssumption DEF Init, IInv, HistoryBounded, NeverBlocksWithLock

LEMMA NextIInv == IInv /\ [Next]_vars => IInv'
<1> SUFFICES ASSUME IInv, [Next]_vars PROVE IInv'
  OBVIOUS
<1> USE DEF IInv, HistoryBounded, NeverBlocksWithLock, logVars, tailVars, clientVars
<1>1. ASSUME NEW k \in Categories, Write(k) PROVE IInv'
  BY <1>1 DEF Write
<1>2. CASE Rotate
  BY <1>2 DEF Rotate
<1>3. CASE Open
  BY <1>3 DEF Open
<1>4. CASE OpenFails
  BY <1>4 DEF OpenFails
<1>5. CASE ReadLine
  <2> DEFINE k == written[pos + 1]
             h == Latest(Append(history[k], pos + 1))
  <2>1. k \in Categories
    BY <1>5 DEF ReadLine
  <2>2. h \in Seq(Nat) /\ Len(h) <= HistoryPerCategory
    BY <2>1, LatestBounded
  <2>3. history' = [history EXCEPT ![k] = h]
    BY <1>5 DEF ReadLine
  <2>4. history' \in [Categories -> Seq(Nat)]
        /\ \A j \in Categories : Len(history'[j]) <= HistoryPerCategory
    BY <2>1, <2>2, <2>3
  <2> QED BY <1>5, <2>4 DEF ReadLine
<1>6. ASSUME NEW c \in Clients, NEW f \in Filters, Subscribe(c, f) PROVE IInv'
  <2>1. ~(f # All /\ Len(history[f]) > Capacity)
    <3>1. CASE f = All
      BY <3>1
    <3>2. CASE f \in Categories
      <4>1. Len(history[f]) <= HistoryPerCategory /\ Len(history[f]) \in Nat
        BY <3>2
      <4>2. HistoryPerCategory \in Nat /\ Capacity \in Nat
        BY CapacityIsNat, LogAssumption
      <4> QED BY <4>1, <4>2, HistoryFits
    <3> QED BY <3>1, <3>2 DEF Filters
  <2> QED BY <1>6, <2>1 DEF Subscribe
<1>7. ASSUME NEW c \in Clients, Receive(c) PROVE IInv'
  BY <1>7 DEF Receive
<1>8. ASSUME NEW c \in Clients, Disconnect(c) PROVE IInv'
  BY <1>8 DEF Disconnect
<1>9. CASE UNCHANGED vars
  BY <1>9 DEF vars
<1> QED BY <1>1, <1>2, <1>3, <1>4, <1>5, <1>6, <1>7, <1>8, <1>9 DEF Next

\* No connection to the log page ever leaves the broadcaster locked: the replay
\* of a category always fits in the channel made for it (logs.go 127-142).
THEOREM LockAlwaysFree == Spec => []NeverBlocksWithLock
<1>1. IInv => NeverBlocksWithLock
  BY DEF IInv
<1> QED BY <1>1, InitIInv, NextIInv, PTL DEF Spec

-----------------------------------------------------------------------------
(* Counting the later lines of a category.                                 *)

Later(w, n, p) == {m \in n + 1 .. p : w[m] = w[n]}

LEMMA LaterFinite ==
  ASSUME NEW w, NEW n \in Nat, NEW p \in Nat
  PROVE  IsFiniteSet(Later(w, n, p)) /\ After(w, n, p) \in Nat
         /\ After(w, n, p) = Cardinality(Later(w, n, p))
<1>1. IsFiniteSet(n + 1 .. p) /\ Later(w, n, p) \subseteq n + 1 .. p
  BY FS_Interval DEF Later
<1>2. IsFiniteSet(Later(w, n, p))
  BY <1>1, FS_Subset
<1> QED BY <1>2, FS_CardinalityType DEF After, Later

LEMMA AfterLast ==
  ASSUME NEW w, NEW p \in Nat
  PROVE  After(w, p, p) = 0
<1>1. Later(w, p, p) = {}
  BY DEF Later
<1> QED BY <1>1, FS_EmptySet DEF After, Later

LEMMA AfterNext ==
  ASSUME NEW w, NEW n \in Nat, NEW p \in Nat, n <= p
  PROVE  After(w, n, p + 1) = IF w[p + 1] = w[n] THEN After(w, n, p) + 1 ELSE After(w, n, p)
<1>1. After(w, n, p) = Cardinality(Later(w, n, p)) /\ IsFiniteSet(Later(w, n, p))
      /\ After(w, n, p + 1) = Cardinality(Later(w, n, p + 1))
  BY LaterFinite
<1>2. CASE w[p + 1] = w[n]
  <2>1. Later(w, n, p + 1) = Later(w, n, p) \cup {p + 1} /\ p + 1 \notin Later(w, n, p)
    BY <1>2 DEF Later
  <2> QED BY <1>1, <1>2, <2>1, FS_AddElement
<1>3. CASE w[p + 1] # w[n]
  <2>1. Later(w, n, p + 1) = Later(w, n, p)
    BY <1>3 DEF Later
  <2> QED BY <1>1, <1>3, <2>1
<1> QED BY <1>2, <1>3

LEMMA AfterSame ==
  ASSUME NEW w, NEW v, NEW n \in Nat, NEW p \in Nat, n <= p, \A i \in n .. p : v[i] = w[i]
  PROVE  After(v, n, p) = After(w, n, p)
<1>1. \A m \in n + 1 .. p : v[m] = w[m] /\ v[n] = w[n]
  OBVIOUS
<1>2. {m \in n + 1 .. p : v[m] = v[n]} = {m \in n + 1 .. p : w[m] = w[n]}
  BY <1>1
<1> QED BY <1>2 DEF After

-----------------------------------------------------------------------------
(* What is kept of a category: the latest lines, in order.                 *)

Increasing(s) == \A i, j \in 1 .. Len(s) : i < j => s[i] < s[j]

Kept(h, w, lo, p, k) ==
  /\ h \in Seq(Nat) /\ Len(h) <= HistoryPerCategory
  /\ \A i \in 1 .. Len(h) :
       h[i] \in lo + 1 .. p /\ w[h[i]] = k /\ After(w, h[i], p) = Len(h) - i
  /\ Increasing(h)
  /\ \A n \in lo + 1 .. p :
       w[n] = k /\ After(w, n, p) < HistoryPerCategory => \E i \in 1 .. Len(h) : h[i] = n

\* A line of another category changes nothing.
LEMMA KeptOther ==
  ASSUME NEW h, NEW w, NEW lo \in Nat, NEW p \in Nat, lo <= p, NEW k,
         Kept(h, w, lo, p, k), w[p + 1] # k
  PROVE  Kept(h, w, lo, p + 1, k)
<1>1. \A n \in lo + 1 .. p : w[n] = k => After(w, n, p + 1) = After(w, n, p)
  BY AfterNext
<1>2. \A n \in lo + 1 .. p + 1 : w[n] = k => n \in lo + 1 .. p
  OBVIOUS
<1>3. lo + 1 .. p \subseteq lo + 1 .. p + 1
  OBVIOUS
<1> QED BY <1>1, <1>2, <1>3 DEF Kept

\* Trimming what a line is appended to.
LEMMA LatestOf ==
  ASSUME NEW h \in Seq(Nat), NEW n \in Nat, Len(h) <= HistoryPerCategory
  PROVE  /\ Len(h) < HistoryPerCategory => Latest(Append(h, n)) = Append(h, n)
         /\ Len(h) = HistoryPerCategory =>
              /\ Latest(Append(h, n)) \in Seq(Nat) /\ Len(Latest(Append(h, n))) = Len(h)
              /\ \A i \in 1 .. Len(h) :
                   Latest(Append(h, n))[i] = IF i = Len(h) THEN n ELSE h[i + 1]
<1> DEFINE t == Append(h, n)
           H == HistoryPerCategory
<1>0. H \in Nat /\ Len(h) \in Nat /\ t \in Seq(Nat) /\ Len(t) = Len(h) + 1
      /\ \A i \in 1 .. Len(h) : t[i] = h[i]
      /\ t[Len(h) + 1] = n
  BY LogAssumption
<1>1. Len(h) < H => Latest(t) = t
  BY <1>0 DEF Latest
<1>2. ASSUME Len(h) = H
      PROVE  /\ Latest(t) \in Seq(Nat) /\ Len(Latest(t)) = Len(h)
             /\ \A i \in 1 .. Len(h) : Latest(t)[i] = IF i = Len(h) THEN n ELSE h[i + 1]
  <2>1. Latest(t) = SubSeq(t, 2, H + 1)
    BY <1>0, <1>2 DEF Latest
  <2> HIDE DEF t, H
  <2>2. \A i \in 2 .. H + 1 : t[i] \in Nat
    BY <1>0, <1>2
  <2>3. SubSeq(t, 2, H + 1) \in Seq(Nat) /\ Len(SubSeq(t, 2, H + 1)) = H
        /\ \A i \in 1 .. H : SubSeq(t, 2, H + 1)[i] = t[i + 1]
    BY <1>0, <2>2
  <2>4. \A i \in 1 .. H : t[i + 1] = IF i = H THEN n ELSE h[i + 1]
    BY <1>0, <1>2
  <2> QED BY <1>2, <2>1, <2>3, <2>4
<1> QED BY <1>1, <1>2

LEMMA KeptNext ==
  ASSUME NEW h, NEW w, NEW lo \in Nat, NEW p \in Nat, lo <= p, NEW k,
         Kept(h, w, lo, p, k), w[p + 1] = k
  PROVE  Kept(Latest(Append(h, p + 1)), w, lo, p + 1, k)
<1> DEFINE g == Latest(Append(h, p + 1))
           H == HistoryPerCategory
<1>0. /\ H \in Nat /\ h \in Seq(Nat) /\ Len(h) \in Nat /\ Len(h) <= H
      /\ \A i \in 1 .. Len(h) :
           h[i] \in lo + 1 .. p /\ w[h[i]] = k /\ After(w, h[i], p) = Len(h) - i
      /\ \A i, j \in 1 .. Len(h) : i < j => h[i] < h[j]
      /\ \A n \in lo + 1 .. p :
           w[n] = k /\ After(w, n, p) < H => \E i \in 1 .. Len(h) : h[i] = n
  BY LogAssumption DEF Kept, Increasing
<1>1. ASSUME NEW n \in lo + 1 .. p, w[n] = k
      PROVE  After(w, n, p + 1) = After(w, n, p) + 1 /\ After(w, n, p) \in Nat
  BY <1>1, AfterNext, LaterFinite
<1>2. After(w, p + 1, p + 1) = 0
  BY AfterLast
<1>3. CASE Len(h) < H
  <2>1. g = Append(h, p + 1)
    BY <1>0, <1>3, LatestOf
  <2> HIDE DEF g, H
  <2>2. g \in Seq(Nat) /\ Len(g) = Len(h) + 1 /\ g[Len(h) + 1] = p + 1
        /\ \A i \in 1 .. Len(h) : g[i] = h[i]
    BY <1>0, <2>1, AppendProperties
  <2>3. ASSUME NEW i \in 1 .. Len(g)
        PROVE  g[i] \in lo + 1 .. p + 1 /\ w[g[i]] = k /\ After(w, g[i], p + 1) = Len(g) - i
    <3>1. CASE i = Len(h) + 1
      BY <1>0, <1>2, <2>2, <3>1
    <3>2. CASE i \in 1 .. Len(h)
      <4>1. g[i] = h[i] /\ h[i] \in lo + 1 .. p /\ w[h[i]] = k /\ After(w, h[i], p) = Len(h) - i
        BY <1>0, <2>2, <3>2
      <4>2. After(w, h[i], p + 1) = After(w, h[i], p) + 1
        BY <1>1, <4>1
      <4>3. (Len(h) - i) + 1 = Len(g) - i
        BY <1>0, <2>2, <3>2
      <4>4. g[i] \in lo + 1 .. p + 1
        BY <4>1
      <4> QED BY <4>1, <4>2, <4>3, <4>4
    <3> QED BY <1>0, <2>2, <3>1, <3>2
  <2>4. ASSUME NEW i \in 1 .. Len(g), NEW j \in 1 .. Len(g), i < j
        PROVE  g[i] < g[j]
    <3>0. Len(h) \in Nat /\ i \in 1 .. Len(h) + 1 /\ j \in 1 .. Len(h) + 1
      BY <1>0, <2>2
    <3>a. i \in 1 .. Len(h)
      BY <2>4, <3>0
    <3>1. i \in 1 .. Len(h) /\ g[i] = h[i] /\ h[i] \in lo + 1 .. p
      BY <1>0, <2>2, <3>a
    <3>2. CASE j = Len(h) + 1
      BY <2>2, <3>1, <3>2
    <3>3. CASE j \in 1 .. Len(h)
      BY <1>0, <2>2, <2>4, <3>1, <3>3
    <3> QED BY <1>0, <2>2, <3>2, <3>3
  <2>5. ASSUME NEW n \in lo + 1 .. p + 1, w[n] = k, After(w, n, p + 1) < H
        PROVE  \E i \in 1 .. Len(g) : g[i] = n
    <3>1. CASE n = p + 1
      BY <1>0, <2>2, <3>1
    <3>2. CASE n \in lo + 1 .. p
      <4>1. After(w, n, p) < H
        BY <1>0, <1>1, <2>5, <3>2
      <4>2. PICK i \in 1 .. Len(h) : h[i] = n
        BY <1>0, <2>5, <3>2, <4>1
      <4>3. i \in 1 .. Len(g) /\ g[i] = h[i]
        BY <1>0, <2>2
      <4> QED BY <4>2, <4>3
    <3> QED BY <3>1, <3>2
  <2>6. Len(g) <= H
    BY <1>0, <1>3, <2>2
  <2> QED BY <2>2, <2>3, <2>4, <2>5, <2>6 DEF Kept, Increasing, g, H
<1>4. CASE Len(h) = H
  <2>1. g \in Seq(Nat) /\ Len(g) = Len(h)
        /\ \A i \in 1 .. Len(h) : g[i] = IF i = Len(h) THEN p + 1 ELSE h[i + 1]
    <3>1. ASSUME NEW n \in Nat
          PROVE  /\ Latest(Append(h, n)) \in Seq(Nat) /\ Len(Latest(Append(h, n))) = Len(h)
                 /\ \A i \in 1 .. Len(h) :
                      Latest(Append(h, n))[i] = IF i = Len(h) THEN n ELSE h[i + 1]
      BY <1>0, <1>4, LatestOf
    <3> QED BY <3>1
  <2> HIDE DEF g, H
  <2>2. ASSUME NEW i \in 1 .. Len(g)
        PROVE  /\ i = Len(h) => g[i] = p + 1
               /\ i # Len(h) => i + 1 \in 1 .. Len(h) /\ g[i] = h[i + 1]
    <3>1. i \in 1 .. Len(h) /\ g[i] = IF i = Len(h) THEN p + 1 ELSE h[i + 1]
      BY <2>1
    <3>2. i # Len(h) => i + 1 \in 1 .. Len(h)
      BY <1>0, <3>1
    <3> QED BY <3>1, <3>2
  <2>3. ASSUME NEW i \in 1 .. Len(g)
        PROVE  g[i] \in lo + 1 .. p + 1 /\ w[g[i]] = k /\ After(w, g[i], p + 1) = Len(g) - i
    <3>1. CASE i = Len(h)
      <4>1. g[i] = p + 1 /\ Len(g) - i = 0 /\ p + 1 \in lo + 1 .. p + 1
        BY <1>0, <2>1, <2>2, <3>1
      <4> QED BY <1>2, <4>1
    <3>2. CASE i # Len(h)
      <4>1. i + 1 \in 1 .. Len(h) /\ g[i] = h[i + 1]
        BY <2>2, <3>2
      <4>2. h[i + 1] \in lo + 1 .. p /\ w[h[i + 1]] = k /\ After(w, h[i + 1], p) = Len(h) - (i + 1)
        BY <1>0, <4>1
      <4>3. After(w, h[i + 1], p + 1) = After(w, h[i + 1], p) + 1
        BY <1>1, <4>2
      <4>4. Len(h) \in Nat /\ Len(g) = Len(h) /\ i \in 1 .. Len(h)
        BY <1>0, <2>1
      <4>5. (Len(h) - (i + 1)) + 1 = Len(g) - i
        BY <4>4
      <4>6. g[i] \in lo + 1 .. p + 1
        BY <4>1, <4>2
      <4> QED BY <4>1, <4>2, <4>3, <4>5, <4>6
    <3> QED BY <3>1, <3>2
  <2>4. ASSUME NEW i \in 1 .. Len(g), NEW j \in 1 .. Len(g), i < j
        PROVE  g[i] < g[j]
    <3>0. i # Len(h)
      BY <1>0, <2>1, <2>4
    <3>1. i + 1 \in 1 .. Len(h) /\ g[i] = h[i + 1] /\ h[i + 1] \in lo + 1 .. p
      BY <1>0, <2>2, <3>0
    <3>2. CASE j = Len(h)
      BY <2>2, <3>1, <3>2
    <3>3. CASE j # Len(h)
      <4>1. j + 1 \in 1 .. Len(h) /\ g[j] = h[j + 1]
        BY <2>2, <3>3
      <4> QED BY <1>0, <2>4, <3>1, <4>1
    <3> QED BY <3>2, <3>3
  <2>5. ASSUME NEW n \in lo + 1 .. p + 1, w[n] = k, After(w, n, p + 1) < H
        PROVE  \E i \in 1 .. Len(g) : g[i] = n
    <3>1. CASE n = p + 1
      <4>1. Len(h) \in 1 .. Len(g)
        BY <1>0, <1>2, <1>4, <2>1, <2>5, <3>1
      <4> QED BY <2>1, <3>1, <4>1
    <3>2. CASE n \in lo + 1 .. p
      <4>1. After(w, n, p) + 1 < H
        BY <1>0, <1>1, <2>5, <3>2
      <4>2. PICK i \in 1 .. Len(h) : h[i] = n
        BY <1>0, <1>1, <2>5, <3>2, <4>1
      <4>3. After(w, n, p) = Len(h) - i
        BY <1>0, <4>2
      <4>4. i - 1 \in 1 .. Len(h) /\ i - 1 # Len(h) /\ (i - 1) + 1 = i
        BY <1>0, <1>4, <4>1, <4>3
      <4>5. g[i - 1] = n
        BY <2>1, <4>2, <4>4
      <4> QED BY <2>1, <4>4, <4>5
    <3> QED BY <3>1, <3>2
  <2> QED BY <1>0, <2>1, <2>3, <2>4, <2>5 DEF Kept, Increasing, g, H
<1> QED BY <1>0, <1>3, <1>4

-----------------------------------------------------------------------------
(* Induction on indices, and loops over them.                              *)

LEMMA UpTo ==
  ASSUME NEW N \in Nat, NEW S, 0 \in S, \A n \in 1 .. N : n - 1 \in S => n \in S
  PROVE  0 .. N \subseteq S
<1> SUFFICES ASSUME (0 .. N) \ S # {} PROVE FALSE
  OBVIOUS
<1> DEFINE T == (0 .. N) \ S
<1>1. T # {} /\ T \subseteq Nat
  OBVIOUS
<1> HIDE DEF T
<1>2. \E x \in T : \A y \in T : <<y, x>> \notin OpToRel(<, Nat)
  BY <1>1, NatLessThanWellFounded, WFMin
<1>3. PICK x \in T : \A y \in T : ~(y < x)
  BY <1>1, <1>2 DEF OpToRel
<1>4. x \in 1 .. N /\ x - 1 \in Nat /\ x - 1 < x
  BY DEF T
<1>5. x - 1 \in T
  BY <1>4 DEF T
<1> QED BY <1>3, <1>4, <1>5

IsLoop(N, V, v0, next) ==
  N \in Nat /\ v0 \in V /\ next \in [V \X (1 .. N) -> V]

IsRun(f, N, V, v0, next) ==
  /\ f \in [0 .. N -> V] /\ f[0] = v0
  /\ \A n \in 1 .. N : f[n] = next[<<f[n - 1], n>>]

LEMMA Loop ==
  ASSUME NEW N, NEW V, NEW v0, NEW next, IsLoop(N, V, v0, next)
  PROVE  \E f : IsRun(f, N, V, v0, next)
<1>0. N \in Nat /\ v0 \in V /\ next \in [V \X (1 .. N) -> V]
  BY DEF IsLoop
<1> DEFINE Runs(f, m) == f[0] = v0 /\ \A n \in 1 .. m : f[n] = next[<<f[n - 1], n>>]
           S == {m \in 0 .. N : \E f \in [0 .. m -> V] : Runs(f, m)}
<1>1. 0 \in S
  <2> USE <1>0
  <2> DEFINE f == [n \in 0 .. 0 |-> v0]
  <2>1. f \in [0 .. 0 -> V] /\ Runs(f, 0)
    OBVIOUS
  <2> HIDE DEF f, Runs
  <2> QED BY <2>1
<1>2. ASSUME NEW n \in 1 .. N, n - 1 \in S PROVE n \in S
  <2> USE <1>0
  <2>1. PICK f \in [0 .. n - 1 -> V] : Runs(f, n - 1)
    BY <1>2
  <2> DEFINE g == [i \in 0 .. n |-> IF i = n THEN next[<<f[n - 1], n>>] ELSE f[i]]
  <2>2. next[<<f[n - 1], n>>] \in V
    OBVIOUS
  <2>3. g \in [0 .. n -> V]
    BY <2>2
  <2>4. Runs(g, n)
    <3>1. g[0] = v0
      BY <2>1
    <3>2. ASSUME NEW i \in 1 .. n PROVE g[i] = next[<<g[i - 1], i>>]
      <4>1. CASE i = n
        <5>1. n \in 0 .. n /\ n - 1 \in 0 .. n /\ n - 1 # n
          OBVIOUS
        <5>2. g[n] = next[<<f[n - 1], n>>] /\ g[n - 1] = f[n - 1]
          BY <5>1
        <5> QED BY <4>1, <5>2
      <4>2. CASE i # n
        <5>1. i \in 1 .. n - 1
          BY <4>2
        <5>2. g[i] = f[i] /\ g[i - 1] = f[i - 1]
          BY <5>1
        <5> QED BY <2>1, <5>1, <5>2
      <4> QED BY <4>1, <4>2
    <3> HIDE DEF g
    <3> QED BY <3>1, <3>2
  <2> HIDE DEF g, Runs
  <2> QED BY <2>3, <2>4
<1> HIDE DEF S
<1>3. N \in S
  BY <1>0, <1>1, <1>2, UpTo
<1>4. PICK f \in [0 .. N -> V] : Runs(f, N)
  BY <1>3 DEF S
<1> QED BY <1>4 DEF IsRun

-----------------------------------------------------------------------------
(* Sequences of lines without repetition.                                  *)

NoRepeat(s) == \A i, j \in 1 .. Len(s) : s[i] = s[j] => i = j

LEMMA ToSetOf ==
  ASSUME NEW s \in Seq(Nat)
  PROVE  /\ Len(s) \in Nat /\ ToSet(s) \subseteq Nat
         /\ \A n : n \in ToSet(s) <=> \E i \in 1 .. Len(s) : s[i] = n
BY DEF ToSet

LEMMA IncreasingNoRepeat ==
  ASSUME NEW s \in Seq(Nat), Increasing(s)
  PROVE  NoRepeat(s)
<1> SUFFICES ASSUME NEW i \in 1 .. Len(s), NEW j \in 1 .. Len(s), s[i] = s[j] PROVE i = j
  BY DEF NoRepeat
<1>1. s[i] \in Nat /\ s[j] \in Nat
  OBVIOUS
<1>2. (i < j => s[i] < s[j]) /\ (j < i => s[j] < s[i])
  BY DEF Increasing
<1> QED BY <1>1, <1>2

LEMMA CountNoRepeat ==
  ASSUME NEW s \in Seq(Nat), NoRepeat(s)
  PROVE  Cardinality(ToSet(s)) = Len(s)
<1> DEFINE D == 1 .. Len(s)
<1>1. s \in [D -> ToSet(s)] /\ DOMAIN s = D
  BY ToSetOf
<1>2. s \in Surjection(D, ToSet(s))
  BY <1>1, ToSetOf DEF Surjection
<1>3. s \in Injection(D, ToSet(s))
  BY <1>1 DEF Injection, IsInjective, NoRepeat
<1>4. IsFiniteSet(D) /\ Cardinality(D) = Len(s)
  <2>1. Len(s) \in Nat
    BY ToSetOf
  <2>2. IsFiniteSet(1 .. Len(s)) /\ Cardinality(1 .. Len(s)) = IF 1 > Len(s) THEN 0 ELSE Len(s) - 1 + 1
    BY <2>1, FS_Interval
  <2> QED BY <2>1, <2>2
<1> HIDE DEF D
<1> QED BY <1>2, <1>3, <1>4, FS_Surjection

LEMMA ToSetAppend ==
  ASSUME NEW s \in Seq(Nat), NEW n \in Nat
  PROVE  Append(s, n) \in Seq(Nat) /\ ToSet(Append(s, n)) = ToSet(s) \cup {n}
<1> DEFINE t == Append(s, n)
<1>1. t \in Seq(Nat) /\ Len(t) = Len(s) + 1 /\ Len(s) \in Nat
      /\ (\A i \in 1 .. Len(s) : t[i] = s[i]) /\ t[Len(s) + 1] = n
  BY AppendProperties, LenProperties
<1> HIDE DEF t
<1>2. ASSUME NEW x PROVE x \in ToSet(t) <=> x \in ToSet(s) \cup {n}
  <2>1. x \in ToSet(t) => x \in ToSet(s) \cup {n}
    <3> SUFFICES ASSUME x \in ToSet(t) PROVE x \in ToSet(s) \cup {n}
      OBVIOUS
    <3>1. PICK i \in 1 .. Len(t) : t[i] = x
      BY <1>1, ToSetOf
    <3>2. i = Len(s) + 1 \/ i \in 1 .. Len(s)
      BY <1>1
    <3> QED BY <1>1, <3>1, <3>2, ToSetOf
  <2>2. x \in ToSet(s) => x \in ToSet(t)
    <3> SUFFICES ASSUME x \in ToSet(s) PROVE x \in ToSet(t)
      OBVIOUS
    <3>1. PICK i \in 1 .. Len(s) : s[i] = x
      BY ToSetOf
    <3>2. i \in 1 .. Len(t) /\ t[i] = x
      BY <1>1, <3>1
    <3> QED BY <1>1, <3>2, ToSetOf
  <2>3. n \in ToSet(t)
    <3>1. Len(s) + 1 \in 1 .. Len(t)
      BY <1>1
    <3> QED BY <1>1, <3>1, ToSetOf
  <2> QED BY <2>1, <2>2, <2>3
<1> QED BY <1>1, <1>2 DEF t

\* Joining two sequences that have nothing in common.
LEMMA JoinNoRepeat ==
  ASSUME NEW s \in Seq(Nat), NEW h \in Seq(Nat), NoRepeat(s), NoRepeat(h),
         ToSet(s) \cap ToSet(h) = {}
  PROVE  s \o h \in Seq(Nat) /\ NoRepeat(s \o h) /\ ToSet(s \o h) = ToSet(s) \cup ToSet(h)
<1> DEFINE t == s \o h
<1>1. /\ t \in Seq(Nat) /\ Len(t) = Len(s) + Len(h) /\ Len(s) \in Nat /\ Len(h) \in Nat
      /\ \A i \in 1 .. Len(s) : i \in 1 .. Len(t) /\ t[i] = s[i]
      /\ \A i \in 1 .. Len(h) : i + Len(s) \in 1 .. Len(t) /\ t[i + Len(s)] = h[i]
      /\ \A i \in 1 .. Len(t) : i \in 1 .. Len(s) \/ i - Len(s) \in 1 .. Len(h)
  <2>1. /\ t \in Seq(Nat) /\ Len(t) = Len(s) + Len(h) /\ Len(s) \in Nat /\ Len(h) \in Nat
        /\ \A i \in 1 .. Len(s) + Len(h) : t[i] = IF i <= Len(s) THEN s[i] ELSE h[i - Len(s)]
    BY ConcatProperties, LenProperties
  <2> HIDE DEF t
  <2>2. ASSUME NEW i \in 1 .. Len(h) PROVE i + Len(s) \in 1 .. Len(t) /\ t[i + Len(s)] = h[i]
    <3>1. i + Len(s) \in 1 .. Len(s) + Len(h) /\ ~(i + Len(s) <= Len(s)) /\ (i + Len(s)) - Len(s) = i
      BY <2>1
    <3>2. t[i + Len(s)] = h[(i + Len(s)) - Len(s)]
      BY <2>1, <3>1
    <3> QED BY <2>1, <3>1, <3>2
  <2> QED BY <2>1, <2>2
<1> HIDE DEF t
<1>2. ASSUME NEW x PROVE x \in ToSet(t) <=> x \in ToSet(s) \cup ToSet(h)
  <2>1. ASSUME x \in ToSet(t) PROVE x \in ToSet(s) \cup ToSet(h)
    <3>1. PICK i \in 1 .. Len(t) : t[i] = x
      BY <1>1, <2>1, ToSetOf
    <3>2. CASE i \in 1 .. Len(s)
      BY <1>1, <3>1, <3>2, ToSetOf
    <3>3. CASE i - Len(s) \in 1 .. Len(h)
      <4>1. h[i - Len(s)] = x
        <5>1. (i - Len(s)) + Len(s) = i
          BY <1>1
        <5> QED BY <1>1, <3>1, <3>3, <5>1
      <4> QED BY <3>3, <4>1, ToSetOf
    <3> QED BY <1>1, <3>2, <3>3
  <2>2. ASSUME x \in ToSet(s) PROVE x \in ToSet(t)
    <3>1. PICK i \in 1 .. Len(s) : s[i] = x
      BY <2>2, ToSetOf
    <3> QED BY <1>1, <3>1, ToSetOf
  <2>3. ASSUME x \in ToSet(h) PROVE x \in ToSet(t)
    <3>1. PICK i \in 1 .. Len(h) : h[i] = x
      BY <2>3, ToSetOf
    <3> QED BY <1>1, <3>1, ToSetOf
  <2> QED BY <2>1, <2>2, <2>3
<1>3. ASSUME NEW i \in 1 .. Len(t), NEW j \in 1 .. Len(t), t[i] = t[j] PROVE i = j
  <2>1. (i \in 1 .. Len(s) => t[i] = s[i] /\ t[i] \in ToSet(s))
        /\ (j \in 1 .. Len(s) => t[j] = s[j] /\ t[j] \in ToSet(s))
    BY <1>1, ToSetOf
  <2>2. ASSUME NEW a \in 1 .. Len(t), a - Len(s) \in 1 .. Len(h)
        PROVE  t[a] = h[a - Len(s)] /\ t[a] \in ToSet(h)
    <3>1. (a - Len(s)) + Len(s) = a
      BY <1>1
    <3>2. t[a] = h[a - Len(s)]
      BY <1>1, <2>2, <3>1
    <3> QED BY <2>2, <3>2, ToSetOf
  <2>3. CASE i \in 1 .. Len(s) /\ j \in 1 .. Len(s)
    BY <1>3, <2>1, <2>3 DEF NoRepeat
  <2>4. CASE i - Len(s) \in 1 .. Len(h) /\ j - Len(s) \in 1 .. Len(h)
    <3>1. h[i - Len(s)] = h[j - Len(s)]
      BY <1>3, <2>2, <2>4
    <3>2. i - Len(s) = j - Len(s)
      BY <2>4, <3>1 DEF NoRepeat
    <3> QED BY <1>1, <3>2
  <2>5. ~(i \in 1 .. Len(s) /\ j - Len(s) \in 1 .. Len(h))
        /\ ~(j \in 1 .. Len(s) /\ i - Len(s) \in 1 .. Len(h))
    BY <1>3, <2>1, <2>2
  <2> QED BY <1>1, <2>3, <2>4, <2>5
<1> QED BY <1>1, <1>2, <1>3 DEF NoRepeat, t

\* Moving a line from the channel to the page, and putting one in the channel.
LEMMA JoinTaken ==
  ASSUME NEW p \in Seq(Nat), NEW q \in Seq(Nat), q # <<>>
  PROVE  /\ Append(p, Head(q)) \in Seq(Nat) /\ Tail(q) \in Seq(Nat) /\ Len(Tail(q)) = Len(q) - 1
         /\ Append(p, Head(q)) \o Tail(q) = p \o q
<1> DEFINE a == Append(p, Head(q))
           r == Tail(q)
           l == a \o r
           t == p \o q
<1>0. Len(p) \in Nat /\ Len(q) \in Nat /\ Len(q) >= 1 /\ Head(q) \in Nat /\ Head(q) = q[1]
  BY LenProperties, EmptySeq
<1>1. a \in Seq(Nat) /\ Len(a) = Len(p) + 1 /\ (\A i \in 1 .. Len(p) : a[i] = p[i]) /\ a[Len(p) + 1] = q[1]
  BY <1>0, AppendProperties
<1>2. r \in Seq(Nat) /\ Len(r) = Len(q) - 1 /\ \A i \in 1 .. Len(q) - 1 : r[i] = q[i + 1]
  BY <1>0, HeadTailProperties
<1> HIDE DEF a, r
<1>3. /\ l \in Seq(Nat) /\ Len(l) = Len(a) + Len(r)
      /\ \A i \in 1 .. Len(a) + Len(r) : l[i] = IF i <= Len(a) THEN a[i] ELSE r[i - Len(a)]
  BY <1>1, <1>2, ConcatProperties
<1>4. /\ t \in Seq(Nat) /\ Len(t) = Len(p) + Len(q)
      /\ \A i \in 1 .. Len(p) + Len(q) : t[i] = IF i <= Len(p) THEN p[i] ELSE q[i - Len(p)]
  BY ConcatProperties
<1> HIDE DEF l, t
<1>5. Len(l) = Len(t)
  BY <1>0, <1>1, <1>2, <1>3, <1>4
<1>6. ASSUME NEW i \in 1 .. Len(t) PROVE l[i] = t[i]
  <2> DEFINE P == Len(p)
             Q == Len(q)
  <2>0. i \in 1 .. P + Q /\ i \in 1 .. Len(a) + Len(r) /\ Len(a) = P + 1 /\ P \in Nat /\ Q \in Nat /\ Q >= 1
        /\ l[i] = (IF i <= P + 1 THEN a[i] ELSE r[i - (P + 1)])
        /\ t[i] = (IF i <= P THEN p[i] ELSE q[i - P])
    <3>1. i \in 1 .. P + Q /\ P + Q = Len(a) + Len(r) /\ Len(a) = P + 1
      BY <1>0, <1>1, <1>2, <1>4
    <3> QED BY <1>0, <1>3, <1>4, <3>1
  <2>a. (\A j \in 1 .. P : a[j] = p[j]) /\ a[P + 1] = q[1] /\ \A j \in 1 .. Q - 1 : r[j] = q[j + 1]
    BY <1>1, <1>2
  <2> HIDE DEF P, Q
  <2>1. CASE i <= P
    BY <2>0, <2>a, <2>1
  <2>2. CASE i = P + 1
    <3>1. i - P = 1 /\ ~(i <= P) /\ i <= P + 1
      BY <2>0, <2>2
    <3> QED BY <2>0, <2>a, <2>2, <3>1
  <2>3. CASE i > P + 1
    <3>1. i - (P + 1) \in 1 .. Q - 1 /\ (i - (P + 1)) + 1 = i - P /\ ~(i <= P) /\ ~(i <= P + 1)
      BY <2>0, <2>3
    <3>2. r[i - (P + 1)] = q[(i - (P + 1)) + 1]
      BY <2>a, <3>1
    <3> QED BY <2>0, <3>1, <3>2
  <2> QED BY <2>0, <2>1, <2>2, <2>3
<1>7. l = t
  BY <1>3, <1>4, <1>5, <1>6, SeqEqual
<1> QED BY <1>1, <1>2, <1>7 DEF a, r, l, t

LEMMA JoinOffered ==
  ASSUME NEW p \in Seq(Nat), NEW q \in Seq(Nat), NEW n \in Nat
  PROVE  p \o Append(q, n) = Append(p \o q, n)
<1>1. Append(q, n) = q \o <<n>> /\ <<n>> \in Seq(Nat) /\ p \o q \in Seq(Nat)
  BY AppendIsConcat, ConcatProperties
<1>2. p \o (q \o <<n>>) = (p \o q) \o <<n>>
  BY <1>1, ConcatAssociative
<1>3. (p \o q) \o <<n>> = Append(p \o q, n)
  BY <1>1, AppendIsConcat
<1> QED BY <1>1, <1>2, <1>3

-----------------------------------------------------------------------------
(* What a client is due, and what it has been sent.                        *)

DueOf(w, f, lo, p, from) ==
  {n \in lo + 1 .. p :
     MatchesFilter(w[n], f) /\ (n > from \/ After(w, n, from) < HistoryPerCategory)}

LEMMA DueNext ==
  ASSUME NEW w, NEW f, NEW lo \in Nat, NEW p \in Nat, NEW from \in Nat, lo <= p, from <= p
  PROVE  /\ DueOf(w, f, lo, p, from) \subseteq lo + 1 .. p
         /\ DueOf(w, f, lo, p + 1, from) =
              IF MatchesFilter(w[p + 1], f) THEN DueOf(w, f, lo, p, from) \cup {p + 1}
                                            ELSE DueOf(w, f, lo, p, from)
<1>1. lo + 1 .. p + 1 = (lo + 1 .. p) \cup {p + 1} /\ p + 1 > from /\ p + 1 \notin lo + 1 .. p
  OBVIOUS
<1> QED BY <1>1 DEF DueOf

LEMMA DueSame ==
  ASSUME NEW w, NEW v, NEW f, NEW lo \in Nat, NEW p \in Nat, NEW from \in Nat, from <= p,
         \A i \in 1 .. p : v[i] = w[i]
  PROVE  DueOf(v, f, lo, p, from) = DueOf(w, f, lo, p, from)
<1>1. ASSUME NEW n \in lo + 1 .. p
      PROVE  /\ v[n] = w[n]
             /\ (n > from \/ After(v, n, from) < HistoryPerCategory)
                 <=> (n > from \/ After(w, n, from) < HistoryPerCategory)
  <2>1. v[n] = w[n]
    OBVIOUS
  <2>2. CASE n > from
    BY <2>1, <2>2
  <2>3. CASE n <= from
    <3>1. \A i \in n .. from : v[i] = w[i]
      OBVIOUS
    <3>2. After(v, n, from) = After(w, n, from)
      BY <2>3, <3>1, AfterSame
    <3> QED BY <2>1, <3>2
  <2> QED BY <2>2, <2>3
<1> QED BY <1>1 DEF DueOf

\* A sequence of lines a client with filter f has been sent, of the lines due; all
\* of them if it has missed none.
Shows(s, f, due, complete) ==
  /\ s \in Seq(Nat) /\ NoRepeat(s)
  /\ ToSet(s) \subseteq due /\ (complete => due \subseteq ToSet(s))
  /\ f # All => Increasing(s)

LEMMA ShowsNext ==
  ASSUME NEW s, NEW f, NEW due, NEW complete, Shows(s, f, due, complete),
         NEW n \in Nat, \A m \in due : m \in Nat /\ m < n
  PROVE  Shows(Append(s, n), f, due \cup {n}, complete)
<1> DEFINE t == Append(s, n)
<1>0. s \in Seq(Nat) /\ NoRepeat(s) /\ ToSet(s) \subseteq due /\ (complete => due \subseteq ToSet(s))
      /\ (f # All => Increasing(s))
  BY DEF Shows
<1>1. t \in Seq(Nat) /\ Len(t) = Len(s) + 1 /\ Len(s) \in Nat
      /\ (\A i \in 1 .. Len(s) : t[i] = s[i]) /\ t[Len(s) + 1] = n
      /\ ToSet(t) = ToSet(s) \cup {n}
  BY <1>0, AppendProperties, LenProperties, ToSetAppend
<1> HIDE DEF t
<1>2. \A i \in 1 .. Len(s) : s[i] \in Nat /\ s[i] < n
  BY <1>0, ToSetOf
<1>3. \A i \in 1 .. Len(t) : i \in 1 .. Len(s) \/ i = Len(s) + 1
  BY <1>1
<1>4. ASSUME NEW i \in 1 .. Len(t), NEW j \in 1 .. Len(t), t[i] = t[j] PROVE i = j
  <2>1. CASE i \in 1 .. Len(s) /\ j \in 1 .. Len(s)
    BY <1>0, <1>1, <1>4, <2>1 DEF NoRepeat
  <2>2. CASE i \in 1 .. Len(s) /\ j = Len(s) + 1
    <3>1. t[i] \in Nat /\ t[i] < n /\ t[j] = n
      BY <1>1, <1>2, <2>2
    <3> QED BY <1>4, <3>1
  <2>3. CASE i = Len(s) + 1 /\ j \in 1 .. Len(s)
    <3>1. t[j] \in Nat /\ t[j] < n /\ t[i] = n
      BY <1>1, <1>2, <2>3
    <3> QED BY <1>4, <3>1
  <2> QED BY <1>3, <2>1, <2>2, <2>3
<1>5. ASSUME f # All, NEW i \in 1 .. Len(t), NEW j \in 1 .. Len(t), i < j PROVE t[i] < t[j]
  <2>1. i \in 1 .. Len(s)
    BY <1>1, <1>5
  <2> QED BY <1>0, <1>1, <1>2, <1>3, <1>5, <2>1 DEF Increasing
<1> QED BY <1>0, <1>1, <1>4, <1>5 DEF Shows, NoRepeat, Increasing, t

\* A channel that is too small for what is sent drops the end of it.
LEMMA ShowsStart ==
  ASSUME NEW s, NEW f, NEW due, Shows(s, f, due, TRUE), NEW m \in 0 .. Len(s)
  PROVE  Len(SubSeq(s, 1, m)) = m /\ Shows(SubSeq(s, 1, m), f, due, m = Len(s))
<1> DEFINE t == SubSeq(s, 1, m)
<1>0. s \in Seq(Nat) /\ NoRepeat(s) /\ ToSet(s) = due /\ (f # All => Increasing(s)) /\ Len(s) \in Nat
  BY LenProperties DEF Shows
<1>1. t \in Seq(Nat) /\ Len(t) = m /\ \A i \in 1 .. m : t[i] = s[i]
  <2>1. \A i \in 1 .. m : s[i] \in Nat
    BY <1>0
  <2> QED BY <1>0, <2>1
<1> HIDE DEF t
<1>2. \A i \in 1 .. m : i \in 1 .. Len(s)
  BY <1>0
<1>3. ToSet(t) \subseteq ToSet(s)
  <2> SUFFICES ASSUME NEW x \in ToSet(t) PROVE x \in ToSet(s)
    OBVIOUS
  <2>1. PICK i \in 1 .. m : t[i] = x
    BY <1>1, ToSetOf
  <2> QED BY <1>0, <1>1, <1>2, <2>1, ToSetOf
<1>4. ASSUME m = Len(s) PROVE ToSet(s) \subseteq ToSet(t)
  <2> SUFFICES ASSUME NEW x \in ToSet(s) PROVE x \in ToSet(t)
    OBVIOUS
  <2>1. PICK i \in 1 .. m : s[i] = x
    BY <1>0, <1>4, ToSetOf
  <2> QED BY <1>1, <2>1, ToSetOf
<1>5. NoRepeat(t) /\ (f # All => Increasing(t))
  BY <1>0, <1>1, <1>2 DEF NoRepeat, Increasing
<1> QED BY <1>0, <1>1, <1>3, <1>4, <1>5 DEF Shows, t

-----------------------------------------------------------------------------
(* What Subscribe replays is what is due to a client that comes now.       *)

AllKept(h, w, lo, p) == \A k \in Categories : Kept(h[k], w, lo, p, k)

KeptOf(w, lo, p, k) == {n \in lo + 1 .. p : w[n] = k /\ After(w, n, p) < HistoryPerCategory}

LEMMA KeptSet ==
  ASSUME NEW h, NEW w, NEW lo \in Nat, NEW p \in Nat, NEW k, Kept(h, w, lo, p, k)
  PROVE  /\ h \in Seq(Nat) /\ Increasing(h) /\ NoRepeat(h)
         /\ ToSet(h) = KeptOf(w, lo, p, k)
<1> DEFINE S == {n \in lo + 1 .. p : w[n] = k /\ After(w, n, p) < HistoryPerCategory}
<1>1. h \in Seq(Nat) /\ Increasing(h) /\ NoRepeat(h) /\ Len(h) \in Nat /\ HistoryPerCategory \in Nat
  BY LenProperties, IncreasingNoRepeat, LogAssumption DEF Kept
<1>2. ASSUME NEW n \in ToSet(h) PROVE n \in S
  <2>1. PICK i \in 1 .. Len(h) : h[i] = n
    BY <1>1, ToSetOf
  <2>2. n \in lo + 1 .. p /\ w[n] = k /\ After(w, n, p) = Len(h) - i /\ Len(h) <= HistoryPerCategory
    BY <2>1 DEF Kept
  <2>3. Len(h) - i < HistoryPerCategory
    BY <1>1, <2>2
  <2> QED BY <2>2, <2>3
<1>3. ASSUME NEW n \in S PROVE n \in ToSet(h)
  <2>1. PICK i \in 1 .. Len(h) : h[i] = n
    BY DEF Kept
  <2> QED BY <1>1, <2>1, ToSetOf
<1> QED BY <1>1, <1>2, <1>3 DEF KeptOf

\* The first i histories in an order, joined.
PartJoined(s, order, i) ==
  /\ s \in Seq(Nat) /\ NoRepeat(s)
  /\ ToSet(s) = UNION {ToSet(history[order[j]]) : j \in 1 .. i}

LEMMA OrderOf ==
  ASSUME NEW order \in SetToSeqs(Categories)
  PROVE  LET N == Cardinality(Categories)
         IN  /\ N \in Nat /\ order \in [1 .. N -> Categories]
             /\ \A i, j \in 1 .. N : order[i] = order[j] => i = j
             /\ \A k \in Categories : \E i \in 1 .. N : order[i] = k
<1> DEFINE N == Cardinality(Categories)
           D == 1 .. N
<1>1. IsFiniteSet(Categories) /\ N \in Nat
  BY LogAssumption, FS_CardinalityType
<1>2. order \in [D -> Categories] /\ \A i, j \in D : i # j => order[i] # order[j]
  BY DEF SetToSeqs
<1>3. order \in Injection(D, Categories)
  BY <1>2 DEF Injection, IsInjective
<1>4. IsFiniteSet(1 .. N) /\ Cardinality(1 .. N) = IF 1 > N THEN 0 ELSE N - 1 + 1
  <2> HIDE DEF N
  <2> QED BY <1>1, FS_Interval
<1>5. IsFiniteSet(D) /\ Cardinality(D) = N
  BY <1>1, <1>4
<1> HIDE DEF D
<1>6. order \in Surjection(D, Categories)
  BY <1>1, <1>3, <1>5, FS_Injection
<1>7. \A k \in Categories : \E i \in D : order[i] = k
  BY <1>6 DEF Surjection
<1> HIDE DEF N
<1> QED BY <1>1, <1>2, <1>7 DEF D, N

LEMMA JoinedParts ==
  ASSUME NEW order \in SetToSeqs(Categories), NEW lo \in Nat, NEW p \in Nat,
         AllKept(history, written, lo, p)
  PROVE  PartJoined(Joined(order), order, Cardinality(Categories))
<1> DEFINE N == Cardinality(Categories)
           V == Seq(Nat)
           next == [vi \in V \X (1 .. N) |-> vi[1] \o history[order[vi[2]]]]
           sent == CHOOSE f : f = [i \in 0 .. N |-> IF i = 0 THEN <<>> ELSE f[i - 1] \o history[order[i]]]
<1>0. /\ N \in Nat /\ order \in [1 .. N -> Categories]
      /\ \A i, j \in 1 .. N : order[i] = order[j] => i = j
  BY OrderOf
<1>1. Joined(order) = sent[N]
  BY DEF Joined
<1> HIDE DEF N
<1>2. ASSUME NEW k \in Categories
      PROVE  history[k] \in Seq(Nat) /\ NoRepeat(history[k])
             /\ ToSet(history[k]) = KeptOf(written, lo, p, k)
  <2>1. Kept(history[k], written, lo, p, k)
    BY DEF AllKept
  <2> QED BY <2>1, KeptSet
<1>3. IsLoop(N, V, <<>>, next)
  <2>1. ASSUME NEW v \in V, NEW i \in 1 .. N PROVE v \o history[order[i]] \in V
    <3>1. history[order[i]] \in Seq(Nat)
      BY <1>0, <1>2
    <3> QED BY <3>1, ConcatProperties
  <2>2. next \in [V \X (1 .. N) -> V]
    BY <2>1
  <2>3. <<>> \in V
    OBVIOUS
  <2> QED BY <1>0, <2>2, <2>3 DEF IsLoop
<1>5. PICK f : IsRun(f, N, V, <<>>, next)
  <2> HIDE DEF next, V
  <2> QED BY <1>3, Loop
<1>6. f = [i \in 0 .. N |-> IF i = 0 THEN <<>> ELSE f[i - 1] \o history[order[i]]]
  <2>1. f \in [0 .. N -> V] /\ f[0] = <<>> /\ \A i \in 1 .. N : f[i] = next[<<f[i - 1], i>>]
    BY <1>5 DEF IsRun
  <2>2. ASSUME NEW i \in 1 .. N PROVE f[i] = f[i - 1] \o history[order[i]]
    <3>1. f[i - 1] \in V
      BY <1>0, <2>1
    <3> QED BY <2>1, <3>1
  <2> DEFINE none == <<>>
             g(i) == f[i - 1] \o history[order[i]]
  <2>3. f[0] = none /\ \A i \in 1 .. N : f[i] = g(i)
    BY <2>1, <2>2
  <2> HIDE DEF next, V, none, g
  <2>4. f = [i \in 0 .. N |-> IF i = 0 THEN none ELSE g(i)]
    BY <1>0, <2>1, <2>3
  <2> QED BY <2>4 DEF none, g
<1>7. sent = [i \in 0 .. N |-> IF i = 0 THEN <<>> ELSE sent[i - 1] \o history[order[i]]]
  BY <1>6
<1> HIDE DEF sent, next
<1>8. sent[0] = <<>> /\ \A i \in 1 .. N : sent[i] = sent[i - 1] \o history[order[i]]
  BY <1>0, <1>7
<1> DEFINE S == {i \in 0 .. N : PartJoined(sent[i], order, i)}
<1>9. 0 \in S
  <2>1. <<>> \in Seq(Nat) /\ NoRepeat(<<>>) /\ ToSet(<<>>) = {}
    BY DEF NoRepeat, ToSet
  <2>2. UNION {ToSet(history[order[j]]) : j \in 1 .. 0} = {}
    OBVIOUS
  <2>3. PartJoined(<<>>, order, 0)
    BY <2>1, <2>2 DEF PartJoined
  <2> QED BY <1>0, <1>8, <2>3
<1>10. ASSUME NEW i \in 1 .. N, i - 1 \in S PROVE i \in S
  <2> DEFINE s == sent[i - 1]
             h == history[order[i]]
             before == UNION {ToSet(history[order[j]]) : j \in 1 .. i - 1}
  <2>1. s \in Seq(Nat) /\ NoRepeat(s) /\ ToSet(s) = before
    BY <1>10 DEF PartJoined
  <2>2. h \in Seq(Nat) /\ NoRepeat(h)
    BY <1>0, <1>2
  <2>3. ASSUME NEW n \in before, n \in ToSet(h) PROVE FALSE
    <3>1. PICK j \in 1 .. i - 1 : n \in ToSet(history[order[j]])
      OBVIOUS
    <3>2. j \in 1 .. N /\ j # i
      BY <1>0
    <3>3. written[n] = order[j]
      BY <1>0, <1>2, <3>1, <3>2 DEF KeptOf
    <3>4. written[n] = order[i]
      BY <1>0, <1>2, <2>3 DEF KeptOf
    <3> QED BY <1>0, <3>2, <3>3, <3>4
  <2>4. UNION {ToSet(history[order[j]]) : j \in 1 .. i} = before \cup ToSet(h)
    <3>1. 1 .. i = (1 .. i - 1) \cup {i}
      BY <1>0
    <3> QED BY <3>1
  <2> HIDE DEF s, h, before
  <2>5. s \o h \in Seq(Nat) /\ NoRepeat(s \o h) /\ ToSet(s \o h) = before \cup ToSet(h)
    BY <2>1, <2>2, <2>3, JoinNoRepeat
  <2>6. sent[i] = s \o h
    BY <1>8 DEF s, h
  <2>7. PartJoined(sent[i], order, i)
    BY <2>4, <2>5, <2>6 DEF PartJoined
  <2> QED BY <2>7
<1>a. N \in Nat
  BY <1>0
<1> HIDE DEF S, N
<1>11. N \in S
  BY <1>9, <1>10, <1>a, UpTo
<1> QED BY <1>1, <1>11 DEF S, N

LEMMA ReplayShows ==
  ASSUME NEW f \in Filters, NEW s \in Replays(f), NEW lo \in Nat, NEW p \in Nat,
         AllKept(history, written, lo, p), \A n \in lo + 1 .. p : written[n] \in Categories
  PROVE  Shows(s, f, DueOf(written, f, lo, p, p), TRUE)
<1> DEFINE due == DueOf(written, f, lo, p, p)
           of(k) == KeptOf(written, lo, p, k)
<1>0. due = {n \in lo + 1 .. p : MatchesFilter(written[n], f) /\ After(written, n, p) < HistoryPerCategory}
  BY DEF DueOf
<1>a. All \notin Categories
  BY LogAssumption
<1>1. CASE f # All
  <2>1. f \in Categories /\ s = history[f]
    BY <1>1 DEF Filters, Replays
  <2>2. due = of(f)
    BY <1>0, <1>a, <1>1 DEF MatchesFilter, KeptOf
  <2>3. s \in Seq(Nat) /\ Increasing(s) /\ NoRepeat(s) /\ ToSet(s) = of(f)
    <3>1. Kept(history[f], written, lo, p, f)
      BY <2>1 DEF AllKept
    <3> QED BY <2>1, <3>1, KeptSet
  <2> QED BY <2>2, <2>3 DEF Shows
<1>2. CASE f = All
  <2>1. PICK order \in SetToSeqs(Categories) : s = Joined(order)
    BY <1>2 DEF Replays
  <2> DEFINE N == Cardinality(Categories)
  <2>2. PartJoined(s, order, N)
    BY <2>1, JoinedParts
  <2>3. /\ order \in [1 .. N -> Categories]
        /\ \A k \in Categories : \E i \in 1 .. N : order[i] = k
    BY OrderOf
  <2> HIDE DEF N
  <2>4. ASSUME NEW k \in Categories PROVE ToSet(history[k]) = of(k)
    <3>1. Kept(history[k], written, lo, p, k)
      BY DEF AllKept
    <3> QED BY <3>1, KeptSet
  <2>5. due = UNION {of(order[j]) : j \in 1 .. N}
    <3>1. ASSUME NEW n \in due PROVE n \in UNION {of(order[j]) : j \in 1 .. N}
      <4>1. n \in lo + 1 .. p /\ written[n] \in Categories /\ After(written, n, p) < HistoryPerCategory
        BY <1>0
      <4>2. PICK i \in 1 .. N : order[i] = written[n]
        BY <2>3, <4>1
      <4> QED BY <4>1, <4>2 DEF KeptOf
    <3>2. ASSUME NEW j \in 1 .. N, NEW n \in of(order[j]) PROVE n \in due
      <4>1. MatchesFilter(written[n], f)
        BY <1>2 DEF MatchesFilter
      <4> QED BY <1>0, <4>1 DEF KeptOf
    <3> HIDE DEF due, of
    <3> QED BY <3>1, <3>2
  <2>6. UNION {ToSet(history[order[j]]) : j \in 1 .. N} = UNION {of(order[j]) : j \in 1 .. N}
    <3>1. \A j \in 1 .. N : ToSet(history[order[j]]) = of(order[j])
      BY <2>3, <2>4
    <3> HIDE DEF of
    <3> QED BY <3>1
  <2> HIDE DEF due, of
  <2>7. s \in Seq(Nat) /\ NoRepeat(s) /\ ToSet(s) = due
    BY <2>2, <2>5, <2>6 DEF PartJoined
  <2> QED BY <1>2, <2>7 DEF Shows, due
<1> QED BY <1>1, <1>2

-----------------------------------------------------------------------------
(* The inductive invariant of the page.                                    *)

TailInv ==
  /\ written \in Seq(Categories) /\ held \in Nat /\ held <= Len(written)
  /\ pos \in Nat /\ skipped \in Nat /\ skipped <= pos /\ pos <= held
  /\ tail = "starting" => pos = 0
  /\ history \in [Categories -> Seq(Nat)] /\ AllKept(history, written, skipped, pos)

ClientTypes ==
  /\ filter \in [Clients -> Filters \cup {Off}] /\ since \in [Clients -> Nat]
  /\ ch \in [Clients -> Seq(Nat)] /\ page \in [Clients -> Seq(Nat)]
  /\ \A c \in Clients : since[c] <= pos /\ Len(ch[c]) <= Capacity
  /\ \A c \in Clients : filter[c] = Off => page[c] = <<>>

PageOf(c) ==
  filter[c] # Off =>
    Shows(Sent(c), filter[c], DueOf(written, filter[c], skipped, pos, since[c]), c \notin short)

PageInv == TailInv /\ ClientTypes /\ \A c \in Clients : PageOf(c)

LEMMA DueIs ==
  ASSUME NEW c
  PROVE  Due(c) = DueOf(written, filter[c], skipped, pos, since[c])
BY DEF Due, DueOf

LEMMA LineOf ==
  ASSUME TailInv, NEW n \in 1 .. pos
  PROVE  n \in 1 .. Len(written) /\ written[n] \in Categories
<1>1. Len(written) \in Nat
  BY LenProperties DEF TailInv
<1>2. n \in 1 .. Len(written)
  BY <1>1 DEF TailInv
<1> QED BY <1>2, ElementOfSeq DEF TailInv

LEMMA PageInit == Init => PageInv
<1> SUFFICES ASSUME Init PROVE PageInv
  OBVIOUS
<1>1. \A k \in Categories : history[k] = <<>>
  BY DEF Init
<1>2. ASSUME NEW k PROVE Kept(<<>>, written, 0, 0, k)
  BY LogAssumption DEF Kept, Increasing
<1>3. AllKept(history, written, skipped, pos)
  BY <1>1, <1>2 DEF AllKept, Init
<1>4. TailInv
  BY <1>3 DEF Init, TailInv
<1>5. ClientTypes
  BY CapacityIsNat DEF Init, ClientTypes
<1>6. \A c \in Clients : PageOf(c)
  BY DEF Init, PageOf
<1> QED BY <1>4, <1>5, <1>6 DEF PageInv

\* A line that is written disturbs nothing: the lines before it are the same.
LEMMA PageWrite ==
  ASSUME PageInv, NEW k \in Categories, Write(k)
  PROVE  PageInv'
<1>1. /\ written' = Append(written, k) /\ held' = IF rotated THEN held ELSE held + 1
      /\ UNCHANGED <<tail, pos, skipped, history, filter, ch, page, since, short>>
  BY DEF Write, tailVars, clientVars
<1>2. written \in Seq(Categories) /\ Len(written) \in Nat
  BY LenProperties DEF PageInv, TailInv
<1>3. written' \in Seq(Categories) /\ Len(written') = Len(written) + 1
      /\ \A i \in 1 .. Len(written) : written'[i] = written[i]
  BY <1>1, <1>2, AppendProperties
<1>4. \A i \in 1 .. pos : written'[i] = written[i]
  BY <1>3, LineOf DEF PageInv
<1>5. pos \in Nat /\ skipped \in Nat /\ skipped <= pos /\ pos <= held /\ held \in Nat
  BY DEF PageInv, TailInv
<1>6. ASSUME NEW h, NEW j, Kept(h, written, skipped, pos, j)
      PROVE  Kept(h, written', skipped, pos, j)
  <2>1. ASSUME NEW n \in skipped + 1 .. pos
        PROVE  written'[n] = written[n] /\ After(written', n, pos) = After(written, n, pos)
    <3>1. n \in 1 .. pos /\ n \in Nat /\ n <= pos
      BY <1>5
    <3>2. \A i \in n .. pos : written'[i] = written[i]
      BY <1>4, <1>5, <3>1
    <3> QED BY <1>5, <3>1, <3>2, AfterSame
  <2> QED BY <1>6, <2>1 DEF Kept
<1>7. AllKept(history', written', skipped', pos')
  BY <1>1, <1>6 DEF AllKept, PageInv, TailInv
<1>8. TailInv'
  BY <1>1, <1>2, <1>3, <1>5, <1>7 DEF PageInv, TailInv
<1>9. ClientTypes'
  BY <1>1 DEF PageInv, ClientTypes
<1>10. ASSUME NEW c \in Clients, filter[c] # Off
       PROVE  DueOf(written', filter[c], skipped, pos, since[c]) = DueOf(written, filter[c], skipped, pos, since[c])
  BY <1>4, <1>5, DueSame DEF PageInv, ClientTypes
<1>11. \A c \in Clients : PageOf(c)'
  BY <1>1, <1>10 DEF PageInv, PageOf, Sent
<1> QED BY <1>8, <1>9, <1>11 DEF PageInv

LEMMA PageOpen ==
  ASSUME PageInv, Open
  PROVE  PageInv'
<1>1. /\ tail = "starting" /\ tail' = "tailing" /\ skipped' = (IF held = 0 THEN 0 ELSE 1) /\ pos' = skipped'
      /\ UNCHANGED <<written, held, history, filter, ch, page, since, short>>
  BY DEF Open, logVars, clientVars
<1>2. pos = 0 /\ skipped = 0 /\ held \in Nat /\ pos' \in Nat /\ pos' <= held /\ skipped' \in Nat
  BY <1>1 DEF PageInv, TailInv
<1>3. skipped + 1 .. pos = {} /\ skipped' + 1 .. pos' = {}
  BY <1>1, <1>2
<1>4. ASSUME NEW k \in Categories PROVE Kept(history'[k], written', skipped', pos', k)
  <2>1. Kept(history[k], written, skipped, pos, k)
    BY DEF PageInv, TailInv, AllKept
  <2>2. \A i \in 1 .. Len(history[k]) : FALSE
    BY <1>3, <2>1 DEF Kept
  <2> QED BY <1>1, <1>3, <2>1, <2>2 DEF Kept
<1>5. TailInv'
  BY <1>1, <1>2, <1>4 DEF PageInv, TailInv, AllKept
<1>6. ClientTypes'
  BY <1>1, <1>2 DEF PageInv, ClientTypes
<1>7. ASSUME NEW c \in Clients, filter[c] # Off
      PROVE  DueOf(written, filter[c], skipped', pos', since[c]) = DueOf(written, filter[c], skipped, pos, since[c])
  BY <1>3 DEF DueOf
<1>8. \A c \in Clients : PageOf(c)'
  BY <1>1, <1>7 DEF PageInv, PageOf, Sent
<1> QED BY <1>5, <1>6, <1>8 DEF PageInv

LEMMA PageRead ==
  ASSUME PageInv, ReadLine
  PROVE  PageInv'
<1> DEFINE n == pos + 1
           k == written[n]
           to == {c \in Clients : MatchesFilter(k, filter[c])}
<1>1. /\ tail = "tailing" /\ pos < held /\ pos' = n
      /\ history' = [history EXCEPT ![k] = Latest(Append(history[k], n))]
      /\ ch' = [c \in Clients |-> IF c \in to THEN Offer(ch[c], n) ELSE ch[c]]
      /\ short' = short \cup {c \in to : Len(ch[c]) = Capacity}
      /\ UNCHANGED <<written, held, tail, skipped, filter, page, since>>
  BY DEF ReadLine, logVars
<1>2. /\ pos \in Nat /\ skipped \in Nat /\ held \in Nat /\ skipped <= pos /\ n \in Nat /\ n <= held
      /\ k \in Categories
  <2>1. Len(written) \in Nat
    BY LenProperties DEF PageInv, TailInv
  <2>2. n \in 1 .. Len(written)
    BY <1>1, <2>1 DEF PageInv, TailInv
  <2> QED BY <1>1, <2>2, ElementOfSeq DEF PageInv, TailInv
<1> HIDE DEF n, k, to
<1>3. ASSUME NEW j \in Categories PROVE Kept(history'[j], written, skipped, n, j)
  <2>1. Kept(history[j], written, skipped, pos, j) /\ history \in [Categories -> Seq(Nat)]
    BY DEF PageInv, TailInv, AllKept
  <2>2. CASE j = k
    <3>1. history'[j] = Latest(Append(history[j], n))
      BY <1>1, <2>1, <2>2
    <3>2. Kept(Latest(Append(history[j], n)), written, skipped, n, j)
      BY <1>2, <2>1, <2>2, KeptNext DEF n, k
    <3> QED BY <3>1, <3>2
  <2>3. CASE j # k
    <3>1. history'[j] = history[j]
      BY <1>1, <2>1, <2>3
    <3>2. Kept(history[j], written, skipped, n, j)
      BY <1>2, <2>1, <2>3, KeptOther DEF n, k
    <3> QED BY <3>1, <3>2
  <2> QED BY <2>2, <2>3
<1>4. history' \in [Categories -> Seq(Nat)]
  <2>1. \A j \in Categories : history'[j] \in Seq(Nat)
    BY <1>3 DEF Kept
  <2>2. history \in [Categories -> Seq(Nat)]
    BY DEF PageInv, TailInv
  <2> QED BY <1>1, <2>1, <2>2
<1>5. TailInv'
  <2>1. AllKept(history, written, skipped, pos)'
    BY <1>1, <1>3 DEF AllKept
  <2>2. skipped' <= pos' /\ pos' \in Nat /\ pos' <= held' /\ tail' # "starting"
    BY <1>1, <1>2 DEF n
  <2> QED BY <1>1, <1>4, <2>1, <2>2 DEF PageInv, TailInv
<1>6. ASSUME NEW c \in Clients
      PROVE  /\ ch[c] \in Seq(Nat) /\ Len(ch[c]) \in Nat /\ Len(ch[c]) <= Capacity /\ Capacity \in Nat
             /\ page[c] \in Seq(Nat) /\ since[c] \in Nat /\ since[c] <= pos
  BY CapacityIsNat, LenProperties DEF PageInv, ClientTypes
<1>7. ASSUME NEW c \in Clients
      PROVE  ch'[c] \in Seq(Nat) /\ Len(ch'[c]) <= Capacity
  <2>1. CASE c \in to /\ Len(ch[c]) < Capacity
    <3>1. ch'[c] = Append(ch[c], n)
      BY <1>1, <2>1 DEF Offer
    <3>2. Append(ch[c], n) \in Seq(Nat) /\ Len(Append(ch[c], n)) = Len(ch[c]) + 1
      BY <1>2, <1>6, AppendProperties
    <3> QED BY <1>6, <2>1, <3>1, <3>2
  <2>2. CASE ~(c \in to /\ Len(ch[c]) < Capacity)
    <3>1. ch'[c] = ch[c]
      BY <1>1, <2>2 DEF Offer
    <3> QED BY <1>6, <3>1
  <2> QED BY <2>1, <2>2
<1>8. ClientTypes'
  <2>1. ch' \in [Clients -> Seq(Nat)]
    BY <1>1, <1>7
  <2>2. \A c \in Clients : since'[c] <= pos'
    BY <1>1, <1>2, <1>6 DEF n
  <2> QED BY <1>1, <1>7, <2>1, <2>2 DEF PageInv, ClientTypes
<1>9. ASSUME NEW c \in Clients, filter[c] # Off PROVE PageOf(c)'
  <2> DEFINE due == DueOf(written, filter[c], skipped, pos, since[c])
             next == DueOf(written, filter[c], skipped, n, since[c])
  <2>1. Shows(page[c] \o ch[c], filter[c], due, c \notin short)
    BY <1>9 DEF PageInv, PageOf, Sent
  <2>2. /\ due \subseteq skipped + 1 .. pos
        /\ next = IF MatchesFilter(k, filter[c]) THEN due \cup {n} ELSE due
    <3>1. /\ pos \in Nat /\ skipped \in Nat /\ skipped <= pos
          /\ since[c] \in Nat /\ since[c] <= pos
      BY <1>2, <1>6
    <3> HIDE DEF due, next
    <3>2. /\ DueOf(written, filter[c], skipped, pos, since[c]) \subseteq skipped + 1 .. pos
          /\ DueOf(written, filter[c], skipped, pos + 1, since[c]) =
               IF MatchesFilter(written[pos + 1], filter[c])
               THEN DueOf(written, filter[c], skipped, pos, since[c]) \cup {pos + 1}
               ELSE DueOf(written, filter[c], skipped, pos, since[c])
      BY <3>1, DueNext
    <3> QED BY <3>2 DEF due, next, n, k
  <2> HIDE DEF due, next
  <2>3. \A m \in due : m \in Nat /\ m < n
    BY <1>2, <2>2 DEF n
  <2>4. Shows(page[c] \o ch'[c], filter[c], next, c \notin short')
    <3>1. CASE c \notin to
      <4>1. ch'[c] = ch[c] /\ next = due /\ (c \in short' <=> c \in short)
        BY <1>1, <2>2, <3>1 DEF to
      <4> QED BY <2>1, <4>1
    <3>2. CASE c \in to /\ Len(ch[c]) < Capacity
      <4>1. ch'[c] = Append(ch[c], n) /\ next = due \cup {n} /\ (c \in short' <=> c \in short)
        BY <1>1, <1>6, <2>2, <3>2 DEF to, Offer
      <4>2. Shows(Append(page[c] \o ch[c], n), filter[c], due \cup {n}, c \notin short)
        BY <1>2, <2>1, <2>3, ShowsNext
      <4>3. page[c] \o Append(ch[c], n) = Append(page[c] \o ch[c], n)
        BY <1>2, <1>6, JoinOffered
      <4> QED BY <4>1, <4>2, <4>3
    <3>3. CASE c \in to /\ ~(Len(ch[c]) < Capacity)
      <4>1. ch'[c] = ch[c] /\ next = due \cup {n} /\ c \in short'
        BY <1>1, <1>6, <2>2, <3>3 DEF to, Offer
      <4> QED BY <2>1, <4>1 DEF Shows
    <3> QED BY <3>1, <3>2, <3>3
  <2> QED BY <1>1, <2>4 DEF PageOf, Sent, next
<1>10. \A c \in Clients : PageOf(c)'
  <2>1. ASSUME NEW c \in Clients, filter[c] = Off PROVE PageOf(c)'
    BY <1>1, <2>1 DEF PageOf
  <2> QED BY <1>9, <2>1
<1> QED BY <1>5, <1>8, <1>10 DEF PageInv

LEMMA PageSubscribe ==
  ASSUME PageInv, NeverBlocksWithLock', NEW d \in Clients, NEW f \in Filters, Subscribe(d, f)
  PROVE  PageInv'
<1>0. ~locked'
  BY DEF NeverBlocksWithLock
<1>1. PICK s \in Replays(f) :
        /\ ch' = [ch EXCEPT ![d] = SubSeq(s, 1, Min({Len(s), Capacity}))]
        /\ short' = IF Len(s) > Capacity THEN short \cup {d} ELSE short
  BY <1>0 DEF Subscribe
<1>2. /\ filter[d] = Off /\ filter' = [filter EXCEPT ![d] = f] /\ since' = [since EXCEPT ![d] = pos]
      /\ UNCHANGED <<written, held, tail, pos, skipped, history, page>>
  BY <1>0 DEF Subscribe, logVars, tailVars
<1>3. TailInv /\ pos \in Nat /\ skipped \in Nat /\ AllKept(history, written, skipped, pos)
  BY DEF PageInv, TailInv
<1> DEFINE due == DueOf(written, f, skipped, pos, pos)
           m == Min({Len(s), Capacity})
<1>4. Shows(s, f, due, TRUE)
  <2>1. \A n \in skipped + 1 .. pos : written[n] \in Categories
    <3>1. skipped + 1 .. pos \subseteq 1 .. pos
      BY <1>3
    <3> QED BY <1>3, <3>1, LineOf
  <2> QED BY <1>3, <2>1, ReplayShows
<1>5. Len(s) \in Nat /\ Capacity \in Nat
  BY <1>4, LenProperties, CapacityIsNat DEF Shows
<1>6. m \in 0 .. Len(s) /\ m <= Capacity /\ (m # Len(s) => Len(s) > Capacity)
  <2>1. m \in {Len(s), Capacity} /\ \A y \in {Len(s), Capacity} : m <= y
    <3>1. \E x \in {Len(s), Capacity} : \A y \in {Len(s), Capacity} : x <= y
      BY <1>5
    <3> QED BY <3>1 DEF Min
  <2> QED BY <1>5, <2>1
<1> HIDE DEF due, m
<1>7. Len(SubSeq(s, 1, m)) = m /\ Shows(SubSeq(s, 1, m), f, due, m = Len(s))
  BY <1>4, <1>6, ShowsStart
<1>8. SubSeq(s, 1, m) \in Seq(Nat)
  BY <1>7 DEF Shows
<1>9. TailInv'
  BY <1>2, <1>3 DEF TailInv, AllKept
<1>10. /\ filter \in [Clients -> Filters \cup {Off}] /\ since \in [Clients -> Nat]
       /\ ch \in [Clients -> Seq(Nat)] /\ page \in [Clients -> Seq(Nat)] /\ page[d] = <<>>
       /\ ch' = [ch EXCEPT ![d] = SubSeq(s, 1, m)]
  BY <1>1, <1>2 DEF PageInv, ClientTypes, m
<1>11. f # Off
  BY LogAssumption DEF Filters, All, Off
<1>12. ClientTypes'
  <2>1. ASSUME NEW c \in Clients
        PROVE  since'[c] <= pos' /\ Len(ch'[c]) <= Capacity /\ (filter'[c] = Off => page'[c] = <<>>)
    <3>1. CASE c = d
      BY <1>2, <1>3, <1>6, <1>7, <1>10, <1>11, <3>1
    <3>2. CASE c # d
      BY <1>2, <1>10, <3>2 DEF PageInv, ClientTypes
    <3> QED BY <3>1, <3>2
  <2>2. filter' \in [Clients -> Filters \cup {Off}] /\ since' \in [Clients -> Nat]
        /\ ch' \in [Clients -> Seq(Nat)] /\ page' \in [Clients -> Seq(Nat)]
    BY <1>2, <1>3, <1>8, <1>10
  <2> QED BY <2>1, <2>2 DEF ClientTypes
<1>13. ASSUME NEW c \in Clients PROVE PageOf(c)'
  <2>1. CASE c = d
    <3>1. page'[d] \o ch'[d] = SubSeq(s, 1, m)
      BY <1>2, <1>8, <1>10, ConcatEmptySeq
    <3>2. filter'[d] = f /\ since'[d] = pos
      BY <1>2, <1>10
    <3>3. Shows(SubSeq(s, 1, m), f, due, d \notin short')
      BY <1>1, <1>6, <1>7 DEF Shows
    <3> QED BY <1>2, <2>1, <3>1, <3>2, <3>3 DEF PageOf, Sent, due
  <2>2. CASE c # d
    <3>1. filter'[c] = filter[c] /\ since'[c] = since[c] /\ ch'[c] = ch[c] /\ page'[c] = page[c]
          /\ (c \in short' <=> c \in short)
      BY <1>1, <1>2, <1>10, <2>2
    <3> QED BY <1>2, <3>1 DEF PageInv, PageOf, Sent
  <2> QED BY <2>1, <2>2
<1> QED BY <1>9, <1>12, <1>13 DEF PageInv

LEMMA PageReceive ==
  ASSUME PageInv, NEW d \in Clients, Receive(d)
  PROVE  PageInv'
<1>1. /\ filter[d] # Off /\ ch[d] # <<>>
      /\ page' = [page EXCEPT ![d] = Append(page[d], Head(ch[d]))]
      /\ ch' = [ch EXCEPT ![d] = Tail(ch[d])]
      /\ UNCHANGED <<written, held, tail, pos, skipped, history, filter, since, short>>
  BY DEF Receive, logVars, tailVars
<1>2. ch \in [Clients -> Seq(Nat)] /\ page \in [Clients -> Seq(Nat)]
  BY DEF PageInv, ClientTypes
<1>3. /\ page'[d] \in Seq(Nat) /\ ch'[d] \in Seq(Nat) /\ Len(ch'[d]) = Len(ch[d]) - 1
      /\ page'[d] \o ch'[d] = page[d] \o ch[d]
  <2>1. page'[d] = Append(page[d], Head(ch[d])) /\ ch'[d] = Tail(ch[d])
    BY <1>1, <1>2
  <2>2. page[d] \in Seq(Nat) /\ ch[d] \in Seq(Nat)
    BY <1>2
  <2> QED BY <1>1, <2>1, <2>2, JoinTaken
<1>4. \A c \in Clients : c # d => page'[c] = page[c] /\ ch'[c] = ch[c]
  BY <1>1, <1>2
<1>5. TailInv'
  BY <1>1 DEF PageInv, TailInv, AllKept
<1>6. ClientTypes'
  <2>1. ASSUME NEW c \in Clients
        PROVE  /\ page'[c] \in Seq(Nat) /\ ch'[c] \in Seq(Nat) /\ Len(ch'[c]) <= Capacity
               /\ filter'[c] = Off => page'[c] = <<>>
    <3>1. CASE c = d
      <4>1. Len(ch[d]) \in Nat /\ Len(ch[d]) <= Capacity /\ Capacity \in Nat
        BY <1>2, CapacityIsNat, LenProperties DEF PageInv, ClientTypes
      <4> QED BY <1>1, <1>3, <3>1, <4>1
    <3>2. CASE c # d
      BY <1>1, <1>2, <1>4, <3>2 DEF PageInv, ClientTypes
    <3> QED BY <3>1, <3>2
  <2>2. page' \in [Clients -> Seq(Nat)] /\ ch' \in [Clients -> Seq(Nat)]
    BY <1>1, <1>2, <2>1
  <2> QED BY <1>1, <2>1, <2>2 DEF PageInv, ClientTypes
<1>7. \A c \in Clients : page'[c] \o ch'[c] = page[c] \o ch[c]
  BY <1>3, <1>4
<1>8. \A c \in Clients : PageOf(c)'
  BY <1>1, <1>7 DEF PageInv, PageOf, Sent
<1> QED BY <1>5, <1>6, <1>8 DEF PageInv

LEMMA PageDisconnect ==
  ASSUME PageInv, NEW d \in Clients, Disconnect(d)
  PROVE  PageInv'
<1>1. /\ filter' = [filter EXCEPT ![d] = Off] /\ ch' = [ch EXCEPT ![d] = <<>>]
      /\ page' = [page EXCEPT ![d] = <<>>] /\ since' = [since EXCEPT ![d] = 0] /\ short' = short \ {d}
      /\ UNCHANGED <<written, held, tail, pos, skipped, history>>
  BY DEF Disconnect, logVars, tailVars
<1>2. ClientTypes /\ TailInv
  BY DEF PageInv
<1>3. TailInv'
  BY <1>1, <1>2 DEF TailInv, AllKept
<1>4. <<>> \in Seq(Nat) /\ Len(<<>>) = 0 /\ Capacity \in Nat /\ pos \in Nat
  BY <1>2, CapacityIsNat DEF TailInv
<1>5. ClientTypes'
  BY <1>1, <1>2, <1>4 DEF ClientTypes
<1>6. ASSUME NEW c \in Clients PROVE PageOf(c)'
  <2>1. CASE c = d
    BY <1>1, <1>2, <2>1 DEF PageOf, ClientTypes
  <2>2. CASE c # d
    <3>1. filter'[c] = filter[c] /\ since'[c] = since[c] /\ ch'[c] = ch[c] /\ page'[c] = page[c]
          /\ (c \in short' <=> c \in short)
      BY <1>1, <1>2, <2>2 DEF ClientTypes
    <3> QED BY <1>1, <3>1 DEF PageInv, PageOf, Sent
  <2> QED BY <2>1, <2>2
<1> QED BY <1>3, <1>5, <1>6 DEF PageInv

LEMMA PageNext == PageInv /\ NeverBlocksWithLock' /\ [Next]_vars => PageInv'
<1> SUFFICES ASSUME PageInv, NeverBlocksWithLock', [Next]_vars PROVE PageInv'
  OBVIOUS
<1>1. CASE Rotate
  BY <1>1 DEF Rotate, tailVars, clientVars, PageInv, TailInv, AllKept, ClientTypes, PageOf, Sent
<1>2. CASE OpenFails
  BY <1>2 DEF OpenFails, logVars, clientVars, PageInv, TailInv, AllKept, ClientTypes, PageOf, Sent
<1>3. CASE UNCHANGED vars
  BY <1>3 DEF vars, logVars, tailVars, clientVars, PageInv, TailInv, AllKept, ClientTypes, PageOf, Sent
<1> QED BY <1>1, <1>2, <1>3, PageWrite, PageOpen, PageRead, PageSubscribe, PageReceive, PageDisconnect
        DEF Next

\* No line is lost between the history that is replayed and the lines that are
\* broadcast: a client whose channel has had room for every line has been sent
\* exactly what it is due (logs.go 127-165, 205-220).
THEOREM PageAlwaysComplete == Spec => []PageIsComplete
<1>1. PageInv => PageIsComplete
  <2> SUFFICES ASSUME PageInv, NEW c \in Connected \ short PROVE ToSet(Sent(c)) = Due(c)
    BY DEF PageIsComplete
  <2>1. Shows(Sent(c), filter[c], Due(c), TRUE)
    BY DueIs DEF PageInv, PageOf, Connected
  <2> QED BY <2>1 DEF Shows
<1>2. IInv => NeverBlocksWithLock
  BY DEF IInv
<1> QED BY <1>1, <1>2, InitIInv, NextIInv, PageInit, PageNext, PTL DEF Spec

\* No client is sent a line twice, nor one it did not ask for, and a category comes
\* in the order in which it was written, whatever is dropped for want of room.
THEOREM NeverLineTwice == Spec => []NoLineTwice
<1>1. PageInv => NoLineTwice
  <2> SUFFICES ASSUME PageInv, NEW c \in Connected
               PROVE  /\ Cardinality(ToSet(Sent(c))) = Len(Sent(c))
                      /\ ToSet(Sent(c)) \subseteq Due(c)
                      /\ filter[c] # All => Increasing(Sent(c))
    BY DEF NoLineTwice, Increasing
  <2>1. Shows(Sent(c), filter[c], Due(c), c \notin short)
    BY DueIs DEF PageInv, PageOf, Connected
  <2> QED BY <2>1, CountNoRepeat DEF Shows
<1>2. IInv => NeverBlocksWithLock
  BY DEF IInv
<1> QED BY <1>1, <1>2, InitIInv, NextIInv, PageInit, PageNext, PTL DEF Spec
=============================================================================
