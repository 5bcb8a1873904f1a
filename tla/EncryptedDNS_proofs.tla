------------------------ MODULE EncryptedDNS_proofs ------------------------
(***************************************************************************)
(* Proofs about switching between plain and encrypted DNS, for any         *)
(* providers and lists of servers, whichever stubs are installed and       *)
(* whatever may fail.  Used as meant, and with every write of dnsmasq.conf *)
(* complete, the user's servers are never lost; when nothing fails the     *)
(* stubs are asked first; with the fallback on, dnsmasq always has a       *)
(* server that answers, and a request that runs to its end gives it one    *)
(* back even when a write was cut off before.                              *)
(*                                                                         *)
(* The invariant has a part for each set of circumstances: Meant follows   *)
(* the user's servers through the steps of the request in progress, Calmly *)
(* says what the steps before the current one have done, and Answering     *)
(* where a plain server is sure to be.                                     *)
(***************************************************************************)
EXTENDS EncryptedDNS, WellFoundedInduction, SequenceTheorems, TLAPS

(* The loop of stashUpstreams.  Its recursive function exists (Loop) and   *)
(* is reasoned about by induction on the set of the indices it is right    *)
(* at (UpTo), which needs no operator as a parameter.                      *)

\* A set with 0 and with each n whose predecessor it has, has them all.
LEMMA UpTo ==
  ASSUME NEW N \in Nat, NEW S, 0 \in S, \A n \in 1 .. N : n - 1 \in S => n \in S
  PROVE  0 .. N \subseteq S
<1> SUFFICES ASSUME (0 .. N) \ S # {} PROVE FALSE
  OBVIOUS
<1> DEFINE T == (0 .. N) \ S
<1>1. T # {} /\ T \subseteq Nat
  OBVIOUS
<1> HIDE DEF T
<1>2. \E x \in T : \A y \in T : <<y, x>> \notin OpToRel(<, Nat)
  BY <1>1, NatLessThanWellFounded, WFMin
<1>3. PICK x \in T : \A y \in T : ~(y < x)
  BY <1>1, <1>2 DEF OpToRel
<1>4. x \in 1 .. N /\ x - 1 \in Nat /\ x - 1 < x
  BY DEF T
<1>5. x - 1 \in T
  BY <1>4 DEF T
<1> QED BY <1>3, <1>4, <1>5

\* f[0 .. N] are the values of a variable that starts at v0 and is set to
\* next[<<its value, n>>] by the n-th turn of a loop.
IsLoop(N, V, v0, next) ==
  N \in Nat /\ v0 \in V /\ next \in [V \X (1 .. N) -> V]

IsRun(f, N, V, v0, next) ==
  /\ f \in [0 .. N -> V] /\ f[0] = v0
  /\ \A n \in 1 .. N : f[n] = next[<<f[n - 1], n>>]

LEMMA Loop ==
  ASSUME NEW N, NEW V, NEW v0, NEW next, IsLoop(N, V, v0, next)
  PROVE  \E f : IsRun(f, N, V, v0, next)
<1>0. N \in Nat /\ v0 \in V /\ next \in [V \X (1 .. N) -> V]
  BY DEF IsLoop
<1> DEFINE Runs(f, m) == f[0] = v0 /\ \A n \in 1 .. m : f[n] = next[<<f[n - 1], n>>]
           S == {m \in 0 .. N : \E f \in [0 .. m -> V] : Runs(f, m)}
<1>1. 0 \in S
  <2> USE <1>0
  <2> DEFINE f == [n \in 0 .. 0 |-> v0]
  <2>1. f \in [0 .. 0 -> V] /\ Runs(f, 0)
    OBVIOUS
  <2> HIDE DEF f, Runs
  <2> QED BY <2>1
<1>2. ASSUME NEW n \in 1 .. N, n - 1 \in S PROVE n \in S
  <2> USE <1>0
  <2>1. PICK f \in [0 .. n - 1 -> V] : Runs(f, n - 1)
    BY <1>2
  <2> DEFINE g == [i \in 0 .. n |-> IF i = n THEN next[<<f[n - 1], n>>] ELSE f[i]]
  <2>2. next[<<f[n - 1], n>>] \in V
    OBVIOUS
  <2>3. g \in [0 .. n -> V]
    BY <2>2
  <2>4. Runs(g, n)
    <3>1. g[0] = v0
      BY <2>1
    <3>2. ASSUME NEW i \in 1 .. n PROVE g[i] = next[<<g[i - 1], i>>]
      <4>1. CASE i = n
        <5>1. n \in 0 .. n /\ n - 1 \in 0 .. n /\ n - 1 # n
          OBVIOUS
        <5>2. g[n] = next[<<f[n - 1], n>>] /\ g[n - 1] = f[n - 1]
          BY <5>1
        <5> QED BY <4>1, <5>2
      <4>2. CASE i # n
        <5>1. i \in 1 .. n - 1
          BY <4>2
        <5>2. g[i] = f[i] /\ g[i - 1] = f[i - 1]
          BY <5>1
        <5> QED BY <2>1, <5>1, <5>2
      <4> QED BY <4>1, <4>2
    <3> HIDE DEF g
    <3> QED BY <3>1, <3>2
  <2> HIDE DEF g, Runs
  <2> QED BY <2>3, <2>4
<1> HIDE DEF S
<1>3. N \in S
  BY <1>0, <1>1, <1>2, UpTo
<1>4. PICK f \in [0 .. N -> V] : Runs(f, N)
  BY <1>3 DEF S
<1> QED BY <1>4 DEF IsRun

\* What stashUpstreams has collected after each server.
LEMMA PlainOnlyLoop ==
  ASSUME NEW S, NEW s \in Seq(S)
  PROVE  \E k \in [0 .. Len(s) -> Seq(S \ StubAddrs)] :
           /\ k[0] = << >>
           /\ \A n \in 1 .. Len(s) :
                k[n] = IF s[n] \in StubAddrs THEN k[n - 1] ELSE Append(k[n - 1], s[n])
           /\ PlainOnly(s) = k[Len(s)]
<1> DEFINE N == Len(s)
           V == Seq(S \ StubAddrs)
           next == [x \in V \X (1 .. N) |->
                      IF s[x[2]] \in StubAddrs THEN x[1] ELSE Append(x[1], s[x[2]])]
           Eq(k) == k = [n \in 0 .. N |->
                           IF n = 0 THEN << >>
                           ELSE IF s[n] \in StubAddrs THEN k[n - 1]
                           ELSE Append(k[n - 1], s[n])]
           addrs == CHOOSE k : Eq(k)
<1>1. N \in Nat /\ << >> \in V /\ \A i \in 1 .. N : s[i] \in S
  OBVIOUS
<1>2. next \in [V \X (1 .. N) -> V]
  <2>1. \A v \in V, n \in 1 .. N : s[n] \notin StubAddrs => Append(v, s[n]) \in V
    BY <1>1
  <2> QED BY <2>1
<1>3. PICK f : f \in [0 .. N -> V] /\ f[0] = << >>
                /\ \A n \in 1 .. N : f[n] = next[<<f[n - 1], n>>]
  <2> HIDE DEF next, N, V
  <2>1. IsLoop(N, V, << >>, next)
    BY <1>1, <1>2 DEF IsLoop
  <2>2. PICK f : IsRun(f, N, V, << >>, next)
    BY <2>1, Loop
  <2> QED BY <2>2 DEF IsRun
<1>4. \A n \in 1 .. N : f[n] = IF s[n] \in StubAddrs THEN f[n - 1] ELSE Append(f[n - 1], s[n])
  <2> TAKE n \in 1 .. N
  <2>1. <<f[n - 1], n>> \in V \X (1 .. N)
    <3> HIDE DEF V, N, next
    <3>1. n - 1 \in 0 .. N
      BY <1>1
    <3> QED BY <1>3, <3>1
  <2>2. f[n] = next[<<f[n - 1], n>>]
    BY <1>3
  <2> HIDE DEF V, N
  <2> QED BY <2>1, <2>2
<1>5. Eq(f)
  <2> HIDE DEF V, N, next
  <2>1. DOMAIN f = 0 .. N /\ f = [n \in 0 .. N |-> f[n]]
    BY <1>3
  <2>2. \A n \in 0 .. N : n # 0 => n \in 1 .. N
    BY <1>1
  <2>3. \A n \in 0 .. N : f[n] = IF n = 0 THEN << >>
                                ELSE IF s[n] \in StubAddrs THEN f[n - 1]
                                ELSE Append(f[n - 1], s[n])
    BY <1>3, <1>4, <2>2
  <2> QED BY <2>1, <2>3
<1>6. Eq(addrs)
  BY <1>5
<1>7. PlainOnly(s) = addrs[N]
  BY DEF PlainOnly
<1> HIDE DEF addrs
<1>8. /\ addrs[0] = << >>
      /\ \A n \in 1 .. N :
           addrs[n] = IF s[n] \in StubAddrs THEN addrs[n - 1] ELSE Append(addrs[n - 1], s[n])
  <2> HIDE DEF N
  <2>1. 0 \in 0 .. N /\ \A n \in 1 .. N : n \in 0 .. N /\ n # 0
    BY <1>1
  <2> QED BY <1>6, <2>1
<1>9. addrs \in [0 .. N -> V]
  <2> DEFINE T == {n \in 0 .. N : addrs[n] \in V}
  <2>0. \A v \in V, n \in 1 .. N : s[n] \notin StubAddrs => Append(v, s[n]) \in V
    BY <1>1
  <2> HIDE DEF V, N
  <2>1. 0 \in T
    BY <1>1, <1>8
  <2>2. \A n \in 1 .. N : n - 1 \in T => n \in T
    BY <1>1, <1>8, <2>0
  <2> HIDE DEF T
  <2>3. 0 .. N \subseteq T
    BY <1>1, <2>1, <2>2, UpTo
  <2> QED BY <1>6, <2>3 DEF T
<1> QED BY <1>7, <1>8, <1>9

\* It drops the stubs buildEncryptedServers put in front and keeps the rest.
LEMMA PlainOnlyKeeps ==
  ASSUME NEW S, NEW p \in Seq(S), NEW l \in Seq(S),
         \A i \in 1 .. Len(p) : p[i] \in StubAddrs,
         \A i \in 1 .. Len(l) : l[i] \notin StubAddrs
  PROVE  PlainOnly(p \o l) = l
<1> DEFINE s == p \o l
           m == Len(p)
<1>1. /\ s \in Seq(S) /\ Len(s) = m + Len(l) /\ m \in Nat /\ Len(l) \in Nat
      /\ \A i \in 1 .. m : s[i] \in StubAddrs
      /\ \A i \in 1 .. Len(l) : s[m + i] = l[i] /\ s[m + i] \notin StubAddrs
  OBVIOUS
<1> HIDE DEF s, m
<1>2. PICK k \in [0 .. Len(s) -> Seq(S \ StubAddrs)] :
           /\ k[0] = << >>
           /\ \A n \in 1 .. Len(s) :
                k[n] = IF s[n] \in StubAddrs THEN k[n - 1] ELSE Append(k[n - 1], s[n])
           /\ PlainOnly(s) = k[Len(s)]
  BY <1>1, PlainOnlyLoop
<1>3. k[m] = << >>
  <2> DEFINE T == {n \in 0 .. m : k[n] = << >>}
  <2>1. 0 \in T
    BY <1>1, <1>2
  <2>2. \A n \in 1 .. m : n - 1 \in T => n \in T
    BY <1>1, <1>2
  <2> HIDE DEF T
  <2>3. 0 .. m \subseteq T
    BY <1>1, <2>1, <2>2, UpTo
  <2> QED BY <1>1, <2>3 DEF T
<1>4. k[m + Len(l)] = l
  <2> DEFINE T == {n \in 0 .. Len(l) : k[m + n] = SubSeq(l, 1, n)}
  <2>1. 0 \in T
    <3>1. SubSeq(l, 1, 0) = << >>
      OBVIOUS
    <3>2. m + 0 = m /\ 0 \in 0 .. Len(l)
      BY <1>1
    <3> QED BY <1>3, <3>1, <3>2
  <2>2. ASSUME NEW n \in 1 .. Len(l), n - 1 \in T PROVE n \in T
    <3>1. m + n \in 1 .. Len(s) /\ (m + n) - 1 = m + (n - 1)
      BY <1>1
    <3>2. k[m + (n - 1)] = SubSeq(l, 1, n - 1)
      BY <2>2
    <3>3. k[m + n] = Append(k[(m + n) - 1], s[m + n]) /\ s[m + n] = l[n]
      BY <1>1, <1>2, <3>1
    <3>4. Append(SubSeq(l, 1, n - 1), l[n]) = SubSeq(l, 1, n)
      BY SubSeqRecursiveSecond, AppendIsConcat, SubSeqProperties
    <3>5. n \in 0 .. Len(l)
      BY <1>1
    <3>6. k[m + n] = SubSeq(l, 1, n)
      <4> HIDE DEF T
      <4> QED BY <3>1, <3>2, <3>3, <3>4
    <3> QED BY <3>5, <3>6
  <2> HIDE DEF T
  <2>3. 0 .. Len(l) \subseteq T
    BY <1>1, <2>1, <2>2, UpTo
  <2>4. SubSeq(l, 1, Len(l)) = l /\ Len(l) \in 0 .. Len(l)
    BY <1>1, SubSeqFull
  <2> QED BY <2>3, <2>4 DEF T
<1> QED BY <1>1, <1>2, <1>4 DEF s

LEMMA PlainOnlyType ==
  ASSUME NEW S, NEW s \in Seq(S)
  PROVE  PlainOnly(s) \in Seq(S \ StubAddrs)
<1>1. Len(s) \in Nat /\ Len(s) \in 0 .. Len(s)
  OBVIOUS
<1> QED BY <1>1, PlainOnlyLoop

LEMMA InstalledCases ==
  \/ Installed = <<"stubby">> /\ Range(Installed) = {"stubby"}
  \/ Installed = <<"dnscrypt">> /\ Range(Installed) = {"dnscrypt"}
  \/ Installed = <<"stubby", "dnscrypt">> /\ Range(Installed) = StubAddrs
<1>1. CASE Installed = <<"stubby">>
  <2>1. DOMAIN Installed = {1} /\ Installed[1] = "stubby"
    BY <1>1
  <2> QED BY <1>1, <2>1 DEF Range
<1>2. CASE Installed = <<"dnscrypt">>
  <2>1. DOMAIN Installed = {1} /\ Installed[1] = "dnscrypt"
    BY <1>2
  <2> QED BY <1>2, <2>1 DEF Range
<1>3. CASE Installed = <<"stubby", "dnscrypt">>
  <2>1. DOMAIN Installed = {1, 2} /\ Installed[1] = "stubby" /\ Installed[2] = "dnscrypt"
    BY <1>3
  <2> QED BY <1>3, <2>1 DEF Range, StubAddrs
<1> QED BY <1>1, <1>2, <1>3, DoHAssumption

LEMMA InstalledType ==
  /\ Installed \in Seq(StubAddrs) /\ Len(Installed) \in Nat \ {0}
  /\ Range(Installed) \subseteq StubAddrs
  /\ \A s \in Range(Installed) : \E i \in 1 .. Len(Installed) : Installed[i] = s
<1>1. \A i \in 1 .. Len(Installed) : Installed[i] \in StubAddrs
  BY InstalledCases DEF StubAddrs
<1>2. Installed \in Seq(StubAddrs) /\ Len(Installed) \in Nat \ {0}
  <2>1. CASE Installed = <<"stubby">>
    BY <2>1 DEF StubAddrs
  <2>2. CASE Installed = <<"dnscrypt">>
    BY <2>2 DEF StubAddrs
  <2>3. CASE Installed = <<"stubby", "dnscrypt">>
    BY <2>3 DEF StubAddrs
  <2> QED BY <2>1, <2>2, <2>3, InstalledCases
<1>3. DOMAIN Installed = 1 .. Len(Installed)
  BY <1>2
<1> QED BY <1>1, <1>2, <1>3 DEF Range

-----------------------------------------------------------------------------
(* The invariants.                                                         *)

Addresses == StubAddrs \cup UNION {Range(l) : l \in PlainLists \cup {DefaultPlain}}
Rows == [enabled : BOOLEAN, provider : Providers \cup {Off}, fallback : BOOLEAN,
         stash : Seq(Addresses)]
Confs == [servers : Seq(Addresses), strict : BOOLEAN]

EnableLabels == {"save", "emptyStub", "writeStub", "start", "servers", "writeServers",
                 "restart", "strict", "writeStrict", "reload"}
DisableLabels == {"stop", "strict", "writeStrict", "servers", "writeServers", "restart",
                  "save", "reload"}
PageLabels == {"servers", "writeServers", "restart"}
Writing == {"writeServers", "writeStrict"}

Jobs == [does : {"nothing", "enable", "disable", "page"}, list : Seq(Addresses),
         stub : 1 .. Len(Installed), text : Confs, row : Rows,
         at : EnableLabels \cup DisableLabels \cup {"idle"}]

\* Which request may be at which label, and what it was started with.
InPlace(j) ==
  /\ j.does = "nothing" <=> j.at = "idle"
  /\ j.does = "enable" => j.at \in EnableLabels /\ j.row.enabled /\ j.row.provider \in Providers
  /\ j.does = "disable" => j.at \in DisableLabels /\ ~j.row.enabled
  /\ j.does = "page" =>
       j.at \in PageLabels /\ j.list \in PlainLists /\ (Ordinary(j.list) \/ "oddList" \in may)

TypeInv ==
  /\ may \in Environments
  /\ plain \in PlainLists /\ (Ordinary(plain) \/ "oddList" \in may)
  /\ cfg \in Rows
  /\ conf \in Confs /\ loaded \in Confs
  /\ file \in [StubAddrs -> Providers \cup {Off}]
  /\ running \in [StubAddrs -> Providers \cup {Off}]
  /\ boot \subseteq StubAddrs
  /\ behind \in BOOLEAN
  /\ job \in Jobs /\ InPlace(job)

PlainConf == [servers |-> plain, strict |-> FALSE]
OnServers == {plain, Installed, Installed \o plain}
At(does, labels) == job.does = does /\ job.at \in labels

\* Used as meant and with every write complete: where the user's servers are.
KnowsPlain ==
  /\ cfg.enabled => cfg.stash = plain
  /\ job.does \in {"enable", "disable"} => job.row.stash = plain

\* Which row is stored at which step.
RowFollows ==
  /\ job.does = "page" => ~cfg.enabled
  /\ job.does = "enable" => cfg.enabled \/ job.at = "save"
  /\ job.does = "disable" => (cfg.enabled <=> job.at # "reload")

\* Between requests, and where one begins or ends, with the row off.
OffIsPlain ==
  /\ Idle \/ At("enable", {"save"}) \/ At("page", {"servers"}) \/ At("disable", {"reload"}) =>
       (~cfg.enabled => conf = PlainConf /\ (loaded = conf \/ behind))
  /\ At("page", {"writeServers"}) => job.text = [servers |-> job.list, strict |-> FALSE]
  /\ At("page", {"restart"}) => conf = PlainConf

\* With the row on: the servers are the user's or those put together from them.
OnIsBuilt ==
  cfg.enabled => IF job.at \in Writing THEN job.text.servers \in OnServers
                 ELSE conf.servers \in OnServers

\* DisableEncryptedDNS on its way back to the user's servers.
GoesBack ==
  /\ At("disable", {"writeStrict"}) => ~job.text.strict
  /\ At("disable", {"servers"}) => ~conf.strict
  /\ At("disable", {"writeServers"}) => job.text = PlainConf
  /\ At("disable", {"restart", "save", "reload"}) => conf = PlainConf
  /\ At("disable", {"save"}) => loaded = conf

Meant == KnowsPlain /\ RowFollows /\ OffIsPlain /\ OnIsBuilt /\ GoesBack
MeantInv == UsedAsMeant /\ WritesComplete => Meant

\* Nothing fails: what EnableEncryptedDNS has done before each of its steps.
Running(n) == \A i \in 1 .. n : running[Installed[i]] # Off

EnabledWell(row) ==
  conf = [servers |-> buildEncryptedServers(row), strict |-> TRUE] /\ Running(Len(Installed))

Calmly ==
  /\ job.does = "nothing" /\ cfg.enabled => EnabledWell(cfg) /\ loaded = conf
  /\ job.does = "page" \/ At("disable", {"reload"}) => ~cfg.enabled
  /\ job.does = "enable" =>
       /\ job.row.provider \notin NoHTTPS
       /\ job.at = "save" => job.stub = 1
       /\ job.at # "save" => cfg = job.row
       /\ job.at = "start" => file[Stub] # Off
       /\ Running(IF job.at \in {"save", "emptyStub", "writeStub", "start"} THEN job.stub - 1
                  ELSE Len(Installed))
       /\ job.at = "writeServers" => job.text.servers = buildEncryptedServers(job.row)
       /\ job.at \in {"restart", "strict"} => conf.servers = buildEncryptedServers(job.row)
       /\ job.at = "writeStrict" =>
            job.text = [servers |-> buildEncryptedServers(job.row), strict |-> TRUE]
       /\ job.at = "reload" => EnabledWell(job.row)

CalmInv == may \subseteq {"noFallback"} => Calmly

\* With the fallback: where a plain server is sure to be.
HasPlain(l) == \E i \in 1 .. Len(l) : l[i] \notin StubAddrs
Fallback(row) == row.fallback /\ (row.stash = << >> \/ HasPlain(row.stash))

\* A request that has come as far as this has put a plain server into dnsmasq.conf.
PastServers ==
  \/ At("enable", {"restart", "strict", "reload"})
  \/ At("disable", {"restart", "save", "reload"})
  \/ At("page", {"restart"})

Answering ==
  /\ Fallback(cfg)
  /\ job.does \in {"enable", "disable"} => Fallback(job.row)
  /\ job.at = "writeServers" \/ At("enable", {"writeStrict"}) => HasPlain(job.text.servers)
  /\ PastServers => HasPlain(conf.servers)
  /\ WritesComplete =>
       /\ HasPlain(loaded.servers)
       /\ IF job.at \in Writing THEN HasPlain(job.text.servers) ELSE HasPlain(conf.servers)

AnsweringInv == may \cap {"noFallback", "oddList"} = {} => Answering

LEMMA Lists ==
  /\ \A l \in PlainLists \cup {DefaultPlain} : l \in Seq(Addresses)
  /\ << >> \in Seq(Addresses)
  /\ Installed \in Seq(Addresses)
<1>1. ASSUME NEW l \in PlainLists \cup {DefaultPlain} PROVE l \in Seq(Addresses)
  <2>1. l \in Seq(Range(l))
    BY DoHAssumption
  <2>2. Range(l) \subseteq Addresses
    BY DEF Addresses
  <2> QED BY <2>1, <2>2, SeqMonotonic
<1>2. StubAddrs \subseteq Addresses
  BY DEF Addresses
<1>3. Installed \in Seq(Addresses)
  BY <1>2, InstalledType, SeqMonotonic
<1> QED BY <1>1, <1>3, EmptySeq

LEMMA ListsOf ==
  /\ \A l, prev \in Seq(Addresses) : stashUpstreams(l, prev) \in Seq(Addresses)
  /\ \A l \in Seq(Addresses) : restoreUpstreams(l) \in Seq(Addresses)
  /\ \A row \in Rows : buildEncryptedServers(row) \in Seq(Addresses)
<1>1. ASSUME NEW l \in Seq(Addresses), NEW prev \in Seq(Addresses)
      PROVE  stashUpstreams(l, prev) \in Seq(Addresses)
  <2>1. PlainOnly(l) \in Seq(Addresses \ StubAddrs)
    BY PlainOnlyType
  <2>2. PlainOnly(l) \in Seq(Addresses)
    BY <2>1, SeqMonotonic
  <2> QED BY <2>2 DEF stashUpstreams
<1>2. \A l \in Seq(Addresses) : restoreUpstreams(l) \in Seq(Addresses)
  BY Lists DEF restoreUpstreams
<1>3. ASSUME NEW row \in Rows PROVE buildEncryptedServers(row) \in Seq(Addresses)
  <2>1. (IF row.fallback THEN restoreUpstreams(row.stash) ELSE << >>) \in Seq(Addresses)
    BY <1>2, Lists DEF Rows
  <2> QED BY <2>1, Lists, ConcatProperties DEF buildEncryptedServers
<1> QED BY <1>1, <1>2, <1>3

LEMMA ConstJobs == Empty \in Confs /\ NoJob \in Jobs
<1>1. Empty \in Confs
  BY Lists DEF Empty, Confs
<1>2. NoJob.row \in Rows /\ 1 \in 1 .. Len(Installed)
  BY Lists, InstalledType DEF NoJob, Rows
<1> QED BY <1>1, <1>2, Lists DEF NoJob, Jobs

-----------------------------------------------------------------------------
(* How a request moves through its steps.                                  *)

EnableMoves == {<<"save", "emptyStub">>, <<"emptyStub", "writeStub">>, <<"writeStub", "start">>,
                <<"start", "servers">>, <<"servers", "writeServers">>, <<"writeServers", "restart">>,
                <<"restart", "strict">>, <<"strict", "writeStrict">>, <<"writeStrict", "reload">>}
DisableMoves == {<<"stop", "strict">>, <<"strict", "writeStrict">>, <<"writeStrict", "servers">>,
                 <<"servers", "writeServers">>, <<"writeServers", "restart">>, <<"restart", "save">>,
                 <<"save", "reload">>}
PageMoves == {<<"servers", "writeServers">>, <<"writeServers", "restart">>}

Moves(does, from, to) ==
  \/ does = "enable" /\ <<from, to>> \in EnableMoves
  \/ does = "disable" /\ <<from, to>> \in DisableMoves
  \/ does = "page" /\ <<from, to>> \in PageMoves

LastStep == At("enable", {"reload"}) \/ At("disable", {"reload"}) \/ At("page", {"restart"})

\* The request goes on, about the same.
Same ==
  /\ job'.does = job.does /\ job'.list = job.list /\ job'.row = job.row

LEMMA NextMove ==
  ASSUME TypeInv, ~Idle
  PROVE  IF LastStep THEN NextStep = "idle" ELSE Moves(job.does, job.at, NextStep)
<1>0. /\ job.does \in {"enable", "disable", "page"}
      /\ job.does = "enable" => job.at \in EnableLabels
      /\ job.does = "disable" => job.at \in DisableLabels
      /\ job.does = "page" => job.at \in PageLabels
  BY DEF TypeInv, Jobs, InPlace, Idle
<1>1. CASE job.does = "enable"
  BY <1>0, <1>1 DEF NextStep, Follow, LastStep, At, Moves, EnableLabels, EnableMoves
<1>2. CASE job.does = "disable"
  BY <1>0, <1>2 DEF NextStep, Follow, LastStep, At, Moves, DisableLabels, DisableMoves
<1>3. CASE job.does = "page"
  BY <1>0, <1>3 DEF NextStep, Follow, LastStep, At, Moves, PageLabels, PageMoves
<1> QED BY <1>0, <1>1, <1>2, <1>3

\* A move keeps a request in its place.
LEMMA MoveInPlace ==
  ASSUME TypeInv, ~Idle, may' = may, Same, Moves(job.does, job.at, job'.at), job' \in Jobs
  PROVE  InPlace(job)'
<1>0. InPlace(job)
  BY DEF TypeInv
<1>1. CASE job.does = "enable"
  <2>1. job'.at \in EnableLabels /\ job'.at # "idle"
    BY <1>1 DEF Moves, EnableMoves, EnableLabels
  <2> QED BY <1>0, <1>1, <2>1 DEF Same, InPlace
<1>2. CASE job.does = "disable"
  <2>1. job'.at \in DisableLabels /\ job'.at # "idle"
    BY <1>2 DEF Moves, DisableMoves, DisableLabels
  <2> QED BY <1>0, <1>2, <2>1 DEF Same, InPlace
<1>3. CASE job.does = "page"
  <2>1. job'.at \in PageLabels /\ job'.at # "idle"
    BY <1>3 DEF Moves, PageMoves, PageLabels
  <2> QED BY <1>0, <1>3, <2>1 DEF Same, InPlace
<1> QED BY <1>1, <1>2, <1>3 DEF Moves

\* A step that succeeds.
LEMMA DoneMoves ==
  ASSUME TypeInv, ~Idle, Done, may' = may
  PROVE  /\ (job \in Jobs /\ InPlace(job))'
         /\ IF LastStep THEN Ended
            ELSE /\ Same /\ Moves(job.does, job.at, job'.at)
                 /\ job'.text = job.text /\ job'.stub = job.stub
<1>1. CASE LastStep
  <2>1. job' = NoJob
    BY <1>1, NextMove DEF Done
  <2> QED BY <1>1, <2>1, ConstJobs DEF Ended, NoJob, InPlace
<1>2. CASE ~LastStep
  <2>1. Moves(job.does, job.at, NextStep)
    BY <1>2, NextMove
  <2>2. NextStep \in (EnableLabels \cup DisableLabels) /\ NextStep # "idle"
    BY <2>1 DEF Moves, EnableMoves, DisableMoves, PageMoves, EnableLabels, DisableLabels
  <2>3. job \in Jobs /\ job' = [job EXCEPT !.at = NextStep]
    BY <2>2 DEF Done, TypeInv
  <2>4. /\ job' \in Jobs /\ job'.at = NextStep /\ Same
        /\ job'.text = job.text /\ job'.stub = job.stub
    BY <2>2, <2>3 DEF Jobs, Same
  <2> QED BY <1>2, <2>1, <2>4, MoveInPlace
<1> QED BY <1>1, <1>2

\* A request that fails or is cut off.
LEMMA EndedMoves ==
  ASSUME Ended
  PROVE  /\ (job \in Jobs /\ InPlace(job))'
         /\ job'.does = "nothing" /\ job'.at = "idle"
  BY ConstJobs DEF Ended, NoJob, InPlace

LEMMA TruncateMoves ==
  ASSUME TypeInv, NEW text \in Confs, Truncate(text), job.at \in {"servers", "strict"}
  PROVE  /\ (job \in Jobs /\ InPlace(job))' /\ ~Idle /\ ~LastStep
         /\ Same /\ job'.text = text /\ job'.at \in Writing
         /\ job'.at = IF job.at = "servers" THEN "writeServers" ELSE "writeStrict"
<1>1. job \in Jobs /\ ~Idle /\ ~LastStep
  BY DEF TypeInv, Idle, LastStep, At
<1>2. Moves(job.does, job.at, NextStep)
  BY <1>1, NextMove
<1>3. NextStep = IF job.at = "servers" THEN "writeServers" ELSE "writeStrict"
  BY <1>2 DEF Moves, EnableMoves, DisableMoves, PageMoves
<1>4. job' = [job EXCEPT !.at = NextStep, !.text = text] /\ may' = may
  BY DEF Truncate
<1>5. NextStep \in EnableLabels /\ NextStep \in Writing
  BY <1>3 DEF EnableLabels, Writing
<1>6. job' \in Jobs /\ job'.at = NextStep /\ job'.text = text /\ Same
  BY <1>1, <1>4, <1>5 DEF Jobs, Same
<1> QED BY <1>1, <1>2, <1>3, <1>4, <1>5, <1>6, MoveInPlace

\* The stub a step is about.
LEMMA StubType == TypeInv => job.stub \in 1 .. Len(Installed) /\ Stub \in StubAddrs
BY InstalledType, ElementOfSeq DEF TypeInv, Jobs, Stub

\* StartStub goes on to the next stub, or past the last.
LEMMA StartMoves ==
  ASSUME TypeInv, StartStub
  PROVE  /\ (job \in Jobs /\ InPlace(job))' /\ ~Idle /\ job.does = "enable"
         /\ Same /\ job'.text = job.text
         /\ IF job.stub < Len(Installed) THEN job'.at = "emptyStub" /\ job'.stub = job.stub + 1
            ELSE job'.at = "servers" /\ job'.stub = job.stub
<1>1. job \in Jobs /\ ~Idle /\ ~LastStep /\ job.does = "enable" /\ may' = may
  BY DEF StartStub, TypeInv, InPlace, Jobs, DisableLabels, PageLabels, Idle, LastStep, At
<1>2. CASE job.stub < Len(Installed)
  <2>1. job' = [job EXCEPT !.at = "emptyStub", !.stub = job.stub + 1]
    BY <1>2 DEF StartStub
  <2>2. job.stub + 1 \in 1 .. Len(Installed)
    BY <1>2, StubType, InstalledType
  <2>3. job' \in Jobs /\ Same /\ job'.text = job.text /\ job'.at = "emptyStub" /\ job'.stub = job.stub + 1
    BY <1>1, <2>1, <2>2 DEF Jobs, Same, EnableLabels
  <2>4. InPlace(job)'
    BY <1>1, <2>3 DEF TypeInv, InPlace, Same, EnableLabels
  <2> QED BY <1>1, <1>2, <2>3, <2>4
<1>3. CASE ~(job.stub < Len(Installed))
  <2>1. Done
    BY <1>3 DEF StartStub
  <2>2. job'.at = "servers"
    BY <1>1, <2>1, DoneMoves DEF StartStub, Moves, EnableMoves
  <2> QED BY <1>1, <1>3, <2>1, <2>2, DoneMoves
<1> QED BY <1>2, <1>3

\* EnableEncryptedDNS begins with a row whose stash it has just put together.
LEMMA EnableBegins ==
  ASSUME TypeInv, NEW p \in Providers, NEW f \in BOOLEAN, NEW prev \in Seq(Addresses),
         StartEnable(p, f, prev), may' = may
  PROVE  /\ (job \in Jobs /\ InPlace(job))'
         /\ At("enable", {"save"})' /\ job'.stub = 1
         /\ \/ job'.row = NewRow(p, f, prev)
            \/ "read" \in may /\ job'.row = RowWithoutRead(p, f, prev)
<1>1. stashUpstreams(conf.servers, prev) \in Seq(Addresses)
  BY ListsOf DEF TypeInv, Confs
<1>2. /\ NewRow(p, f, prev) \in Rows /\ RowWithoutRead(p, f, prev) \in Rows
      /\ \A row \in {NewRow(p, f, prev), RowWithoutRead(p, f, prev)} :
           row.enabled /\ row.provider \in Providers
  BY <1>1 DEF Rows, NewRow, RowWithoutRead
<1>3. ASSUME NEW row \in {NewRow(p, f, prev), RowWithoutRead(p, f, prev)}, job' = Enabling(row)
      PROVE  /\ (job \in Jobs /\ InPlace(job))'
             /\ At("enable", {"save"})' /\ job'.stub = 1 /\ job'.row = row
  <2>1. /\ job' = [NoJob EXCEPT !.does = "enable", !.at = "save", !.row = row]
        /\ row \in Rows /\ row.enabled /\ row.provider \in Providers
    BY <1>2, <1>3 DEF Enabling
  <2>2. job' \in Jobs /\ job'.does = "enable" /\ job'.at = "save" /\ job'.row = row /\ job'.stub = 1
    BY <2>1, ConstJobs DEF Jobs, NoJob, EnableLabels
  <2> QED BY <2>1, <2>2 DEF InPlace, At, EnableLabels
<1>4. CASE job' = Enabling(NewRow(p, f, prev))
  BY <1>3, <1>4
<1>5. CASE "read" \in may /\ job' = Enabling(RowWithoutRead(p, f, prev))
  BY <1>3, <1>5
<1> QED BY <1>4, <1>5 DEF StartEnable

LEMMA DisableBegins ==
  ASSUME TypeInv, ToggleOff
  PROVE  /\ (job \in Jobs /\ InPlace(job))'
         /\ At("disable", {"stop"})'
         /\ job'.row = [cfg EXCEPT !.enabled = FALSE] /\ job'.row \in Rows
         /\ job'.row.stash = cfg.stash /\ job'.row.fallback = cfg.fallback
<1> DEFINE row == [cfg EXCEPT !.enabled = FALSE]
<1>1. row \in Rows /\ ~row.enabled /\ row.stash = cfg.stash /\ row.fallback = cfg.fallback
  BY DEF TypeInv, Rows
<1>2. job' = [NoJob EXCEPT !.does = "disable", !.at = "stop", !.row = row]
  BY DEF ToggleOff, Disabling
<1> HIDE DEF row
<1>3. job' \in Jobs /\ job'.does = "disable" /\ job'.at = "stop" /\ job'.row = row
  BY <1>1, <1>2, ConstJobs DEF Jobs, NoJob, DisableLabels
<1>4. (job \in Jobs /\ InPlace(job))' /\ At("disable", {"stop"})'
  BY <1>1, <1>3 DEF InPlace, At, DisableLabels
<1> QED BY <1>1, <1>3, <1>4 DEF row

LEMMA PageBegins ==
  ASSUME TypeInv, NEW l \in PlainLists, SetUpstream(l)
  PROVE  /\ (job \in Jobs /\ InPlace(job))'
         /\ At("page", {"servers"})' /\ job'.list = l
<1>1. job' = [NoJob EXCEPT !.does = "page", !.at = "servers", !.list = l] /\ may' = may
  BY DEF SetUpstream, Setting
<1>2. l \in Seq(Addresses) /\ (Ordinary(l) \/ "oddList" \in may)
  BY Lists DEF SetUpstream
<1>3. job' \in Jobs /\ job'.does = "page" /\ job'.at = "servers" /\ job'.list = l
  BY <1>1, <1>2, ConstJobs DEF Jobs, NoJob, EnableLabels
<1> QED BY <1>1, <1>2, <1>3 DEF InPlace, At, PageLabels

\* What SetUpstreamServers and setStrictOrder are about to write.
LEMMA NewTexts ==
  ASSUME TypeInv, ~Idle
  PROVE  /\ [conf EXCEPT !.servers = NewServers] \in Confs
         /\ [conf EXCEPT !.strict = job.row.enabled] \in Confs
<1>1. /\ job \in Jobs /\ job.row \in Rows /\ job.list \in Seq(Addresses)
      /\ job.does \in {"enable", "disable", "page"} /\ job.row.enabled \in BOOLEAN
  BY DEF TypeInv, Jobs, InPlace, Idle, Rows
<1>2. NewServers \in Seq(Addresses)
  <2>1. buildEncryptedServers(job.row) \in Seq(Addresses)
        /\ restoreUpstreams(job.row.stash) \in Seq(Addresses)
    BY <1>1, ListsOf DEF Rows
  <2> QED BY <1>1, <2>1 DEF NewServers
<1> QED BY <1>1, <1>2 DEF TypeInv, Confs

LEMMA InitType == Init => TypeInv
<1> SUFFICES ASSUME Init PROVE TypeInv
  OBVIOUS
<1>1. cfg \in Rows
  BY Lists DEF Init, Rows
<1>2. conf \in Confs /\ loaded \in Confs
  BY Lists DEF Init, Confs
<1>3. job \in Jobs /\ InPlace(job)
  BY ConstJobs DEF Init, NoJob, InPlace
<1> QED BY <1>1, <1>2, <1>3 DEF Init, TypeInv

LEMMA NextType == TypeInv /\ [Next]_vars => TypeInv'
<1> SUFFICES ASSUME TypeInv, [Next]_vars PROVE TypeInv'
  OBVIOUS
<1>0. job.does \in {"nothing", "enable", "disable", "page"} /\ InPlace(job) /\ job \in Jobs
  BY DEF TypeInv, Jobs
<1>1. ASSUME NEW p \in Providers, NEW f \in BOOLEAN, ToggleOn(p, f) PROVE TypeInv'
  <2>1. (job \in Jobs /\ InPlace(job))'
    BY <1>1, EnableBegins, Lists DEF ToggleOn
  <2> QED BY <1>1, <2>1 DEF ToggleOn, TypeInv
<1>2. CASE ToggleOff
  BY <1>2, DisableBegins DEF ToggleOff, TypeInv
<1>3. ASSUME NEW p \in Providers, NEW f \in BOOLEAN, SaveConfigOn(p, f) PROVE TypeInv'
  <2>0. cfg.stash \in Seq(Addresses)
    BY DEF TypeInv, Rows
  <2>1. (job \in Jobs /\ InPlace(job))'
    BY <1>3, <2>0, EnableBegins DEF SaveConfigOn
  <2> QED BY <1>3, <2>1 DEF SaveConfigOn, TypeInv
<1>4. ASSUME NEW p \in Providers, NEW f \in BOOLEAN, SaveConfigOff(p, f) PROVE TypeInv'
  <2>1. cfg' \in Rows
    BY <1>4 DEF SaveConfigOff, TypeInv, Rows
  <2> QED BY <1>4, <2>1 DEF SaveConfigOff, TypeInv, InPlace
<1>5. ASSUME NEW l \in PlainLists, SetUpstream(l) PROVE TypeInv'
  BY <1>5, PageBegins DEF SetUpstream, TypeInv
<1>6. CASE SaveRow
  <2>1. ~Idle /\ cfg' \in Rows
    BY <1>0, <1>6 DEF SaveRow, Idle, Jobs
  <2> QED BY <1>6, <2>1, DoneMoves DEF SaveRow, TypeInv
<1>7. CASE TruncateStubConfig
  <2>1. ~Idle /\ file' \in [StubAddrs -> Providers \cup {Off}]
    BY <1>7 DEF TruncateStubConfig, TypeInv, Idle
  <2> QED BY <1>7, <2>1, DoneMoves DEF TruncateStubConfig, TypeInv
<1>8. CASE WriteStubConfig
  <2>1. ~Idle /\ job.row.provider \in Providers \cup {Off}
    BY <1>0, <1>8 DEF WriteStubConfig, Idle, Jobs, Rows
  <2>2. file' \in [StubAddrs -> Providers \cup {Off}]
    BY <1>8, <2>1 DEF WriteStubConfig, TypeInv
  <2> QED BY <1>8, <2>1, <2>2, DoneMoves DEF WriteStubConfig, TypeInv
<1>9. CASE StartStub
  <2>1. Stub \in StubAddrs /\ (job \in Jobs /\ InPlace(job))'
    BY <1>9, StubType, StartMoves
  <2>2. running' \in [StubAddrs -> Providers \cup {Off}] /\ boot' \subseteq StubAddrs
    BY <1>9, <2>1 DEF StartStub, TypeInv
  <2> QED BY <1>9, <2>1, <2>2 DEF StartStub, TypeInv
<1>10. CASE StopStubs
  <2>1. ~Idle /\ running' \in [StubAddrs -> Providers \cup {Off}]
    BY <1>10 DEF StopStubs, TypeInv, Idle
  <2> QED BY <1>10, <2>1, DoneMoves DEF StopStubs, TypeInv
<1>11. CASE SetServers
  <2>1. ~Idle /\ [conf EXCEPT !.servers = NewServers] \in Confs
    BY <1>11, NewTexts DEF SetServers, Idle
  <2>2. (job \in Jobs /\ InPlace(job))'
    BY <1>11, <2>1, TruncateMoves DEF SetServers
  <2> QED BY <1>11, <2>2, ConstJobs DEF SetServers, Truncate, TypeInv
<1>12. CASE SetStrictOrder
  <2>1. ~Idle /\ [conf EXCEPT !.strict = job.row.enabled] \in Confs
    BY <1>12, NewTexts DEF SetStrictOrder, Idle
  <2>2. (job \in Jobs /\ InPlace(job))'
    BY <1>12, <2>1, TruncateMoves DEF SetStrictOrder
  <2> QED BY <1>12, <2>2, ConstJobs DEF SetStrictOrder, Truncate, TypeInv
<1>13. CASE WriteConf
  <2>1. ~Idle /\ job.text \in Confs
    BY <1>0, <1>13 DEF WriteConf, Idle, Jobs
  <2>2. plain' \in PlainLists /\ (Ordinary(plain') \/ "oddList" \in may)
    BY <1>0, <1>13 DEF WriteConf, InPlace, TypeInv
  <2> QED BY <1>13, <2>1, <2>2, DoneMoves DEF WriteConf, TypeInv
<1>14. CASE RestartDNSMasq
  <2>1. ~Idle
    BY <1>14 DEF RestartDNSMasq, Idle
  <2> QED BY <1>14, <2>1, DoneMoves DEF RestartDNSMasq, TypeInv
<1>15. CASE StepFails
  BY <1>15, EndedMoves DEF StepFails, TypeInv
<1>16. CASE WriteFails
  <2>1. job.text \in Confs
    BY <1>0 DEF Jobs
  <2>2. ASSUME NEW n \in 0 .. Len(job.text.servers),
               conf' = [job.text EXCEPT !.servers = SubSeq(job.text.servers, 1, n)]
        PROVE  conf' \in Confs
    <3>1. SubSeq(job.text.servers, 1, n) \in Seq(Addresses)
      BY <2>1, SubSeqProperties DEF Confs
    <3> QED BY <2>1, <2>2, <3>1 DEF Confs
  <2>3. conf' \in Confs
    BY <1>16, <2>2, ConstJobs DEF WriteFails
  <2> QED BY <1>16, <2>3, EndedMoves DEF WriteFails, TypeInv
<1>17. CASE RestartRefused
  BY <1>17, EndedMoves DEF RestartRefused, TypeInv
<1>18. CASE Reboot
  <2>1. running' \in [StubAddrs -> Providers \cup {Off}]
    BY <1>18 DEF Reboot, TypeInv
  <2>2. may' = may
    BY <1>18 DEF Reboot
  <2> QED BY <1>18, <2>1, <2>2, EndedMoves DEF Reboot, TypeInv
<1>19. CASE UNCHANGED vars
  BY <1>19 DEF vars, TypeInv, InPlace
<1> QED BY <1>1, <1>2, <1>3, <1>4, <1>5, <1>6, <1>7, <1>8, <1>9, <1>10, <1>11, <1>12,
           <1>13, <1>14, <1>15, <1>16, <1>17, <1>18, <1>19 DEF Next, Step

-----------------------------------------------------------------------------
(* The user's servers.                                                     *)

LEMMA PlainNoStub ==
  ASSUME TypeInv, Ordinary(plain)
  PROVE  /\ plain \in Seq(Addresses) /\ plain # << >>
         /\ \A i \in 1 .. Len(plain) : plain[i] \notin StubAddrs
<1>1. plain \in Seq(Addresses)
  BY Lists DEF TypeInv
<1>2. DOMAIN plain = 1 .. Len(plain)
  BY <1>1
<1> QED BY <1>1, <1>2 DEF Ordinary, Range

LEMMA StashOf ==
  ASSUME TypeInv, Ordinary(plain), NEW prev,
         conf.servers \in {plain, Installed, Installed \o plain}
  PROVE  /\ stashUpstreams(conf.servers, prev) \in {plain, prev}
         /\ conf.servers = plain => stashUpstreams(conf.servers, prev) = plain
<1>0. /\ plain \in Seq(Addresses) /\ plain # << >> /\ << >> \in Seq(Addresses) /\ Len(<< >>) = 0
      /\ Installed \in Seq(Addresses)
      /\ \A i \in 1 .. Len(plain) : plain[i] \notin StubAddrs
  BY PlainNoStub, Lists
<1>1. \A i \in 1 .. Len(Installed) : Installed[i] \in StubAddrs
  BY InstalledType, ElementOfSeq
<1>2. PlainOnly(Installed \o plain) = plain
  BY <1>0, <1>1, PlainOnlyKeeps
<1>3. PlainOnly(plain) = plain
  <2>1. \A i \in 1 .. Len(<< >>) : << >>[i] \in StubAddrs
    BY <1>0
  <2>2. PlainOnly(<< >> \o plain) = plain
    BY <1>0, <2>1, PlainOnlyKeeps
  <2> QED BY <1>0, <2>2, ConcatEmptySeq
<1>4. PlainOnly(Installed) = << >>
  <2>1. \A i \in 1 .. Len(<< >>) : << >>[i] \notin StubAddrs
    BY <1>0
  <2>2. PlainOnly(Installed \o << >>) = << >>
    BY <1>0, <1>1, <2>1, PlainOnlyKeeps
  <2> QED BY <1>0, <2>2, ConcatEmptySeq
<1> QED BY <1>0, <1>2, <1>3, <1>4 DEF stashUpstreams

LEMMA BuiltOf ==
  ASSUME NEW row \in Rows, row.stash = plain, plain # << >>
  PROVE  /\ buildEncryptedServers(row) \in {Installed, Installed \o plain}
         /\ restoreUpstreams(row.stash) = plain
         /\ row.fallback => buildEncryptedServers(row) = Installed \o plain
<1>1. Installed \o << >> = Installed
  BY InstalledType, ConcatEmptySeq
<1> QED BY <1>1 DEF buildEncryptedServers, restoreUpstreams

LEMMA InitMeant == Init => MeantInv
<1> SUFFICES ASSUME Init PROVE Meant
  BY DEF MeantInv
<1>1. /\ ~cfg.enabled /\ conf = PlainConf /\ loaded = conf
      /\ job.does = "nothing" /\ job.at = "idle"
  BY DEF Init, NoJob, PlainConf
<1> QED BY <1>1 DEF Meant, KnowsPlain, RowFollows, OffIsPlain, OnIsBuilt, GoesBack, At, Idle

LEMMA NextMeant == TypeInv /\ TypeInv' /\ MeantInv /\ [Next]_vars => MeantInv'
<1> SUFFICES ASSUME TypeInv, TypeInv', MeantInv, [Next]_vars, (UsedAsMeant /\ WritesComplete)'
             PROVE  Meant'
  BY DEF MeantInv
<1>0. may' = may
  BY DEF Next, Step, vars, ToggleOn, ToggleOff, SaveConfigOn, SaveConfigOff, SetUpstream, SaveRow,
         TruncateStubConfig, WriteStubConfig, StartStub, StopStubs, SetServers, SetStrictOrder,
         Truncate, WriteConf, RestartDNSMasq, StepFails, WriteFails, RestartRefused, Reboot
<1>a. /\ Meant
      /\ may \cap {"read", "toggleAgain", "offWhileOff", "editWhileOn", "oddList", "write", "midway"} = {}
  BY <1>0 DEF MeantInv, UsedAsMeant, WritesComplete
<1>b. /\ job \in Jobs /\ InPlace(job) /\ cfg \in Rows /\ conf \in Confs
      /\ job' \in Jobs /\ InPlace(job)' /\ conf' \in Confs
      /\ Ordinary(plain)
      /\ \A p \in {job.does, job'.does} : p \in {"nothing", "enable", "disable", "page"}
  BY <1>a DEF TypeInv, Jobs
<1>c. plain # << >> /\ plain \in Seq(Addresses)
  BY <1>b, PlainNoStub
<1> USE DEF Meant, KnowsPlain, RowFollows, OffIsPlain, OnIsBuilt, GoesBack, At, Idle
<1>1. ASSUME NEW p \in Providers, NEW f \in BOOLEAN, NEW prev \in Seq(Addresses), Idle,
             StartEnable(p, f, prev), cfg.enabled => prev = plain,
             UNCHANGED <<may, cfg, conf, loaded, plain, behind>>
      PROVE  Meant'
  <2>1. At("enable", {"save"})' /\ job'.row = NewRow(p, f, prev)
    BY <1>1, <1>a, EnableBegins
  <2>2. conf.servers \in OnServers /\ (~cfg.enabled => conf.servers = plain)
    BY <1>1, <1>a DEF PlainConf, OnServers, Writing
  <2>3. job'.row.stash = plain
    BY <1>1, <1>b, <2>1, <2>2, StashOf DEF NewRow, OnServers
  <2> QED BY <1>1, <1>a, <2>1, <2>2, <2>3 DEF PlainConf, Writing, OnServers
<1>2. ASSUME NEW p \in Providers, NEW f \in BOOLEAN, ToggleOn(p, f) PROVE Meant'
  BY <1>1, <1>2, <1>a, Lists DEF ToggleOn
<1>3. CASE ToggleOff
  <2>1. At("disable", {"stop"})' /\ job'.row.stash = cfg.stash /\ cfg.enabled
    BY <1>3, <1>a, DisableBegins DEF ToggleOff
  <2> QED BY <1>3, <1>a, <2>1 DEF ToggleOff, PlainConf, Writing, OnServers
<1>4. ASSUME NEW p \in Providers, NEW f \in BOOLEAN, SaveConfigOn(p, f) PROVE Meant'
  <2>1. cfg.stash \in Seq(Addresses) /\ cfg.stash = plain
    BY <1>4, <1>a, <1>b DEF SaveConfigOn, Rows
  <2> QED BY <1>1, <1>4, <2>1 DEF SaveConfigOn
<1>5. ASSUME NEW p \in Providers, NEW f \in BOOLEAN, SaveConfigOff(p, f) PROVE Meant'
  <2>1. ~cfg'.enabled /\ ~cfg.enabled
    BY <1>5, <1>b DEF SaveConfigOff, Rows
  <2> QED BY <1>5, <1>a, <1>b, <2>1 DEF SaveConfigOff, PlainConf, InPlace
<1>6. ASSUME NEW l \in PlainLists, SetUpstream(l) PROVE Meant'
  <2>1. At("page", {"servers"})' /\ ~cfg.enabled
    BY <1>6, <1>a, PageBegins DEF SetUpstream
  <2> QED BY <1>6, <1>a, <2>1 DEF SetUpstream, PlainConf
<1>7. CASE SaveRow
  <2>1. ~Idle /\ ~LastStep /\ Same /\ Moves(job.does, job.at, job'.at)
    BY <1>7, <1>0, DoneMoves DEF SaveRow, LastStep
  <2>2. \/ At("enable", {"save"}) /\ At("enable", {"emptyStub"})' /\ job.row.enabled
        \/ At("disable", {"save"}) /\ At("disable", {"reload"})' /\ ~job.row.enabled
    BY <1>7, <1>b, <2>1 DEF SaveRow, Moves, EnableMoves, DisableMoves, PageMoves, Same, InPlace
  <2>3. ~cfg.enabled => conf.servers = plain
    BY <1>a, <2>2 DEF PlainConf
  <2> QED BY <1>7, <1>a, <2>1, <2>2, <2>3 DEF SaveRow, Same, PlainConf, OnServers, Writing
\* A step that touches neither dnsmasq nor the row.
<1>8. ASSUME ~Idle, ~LastStep, Same, UNCHANGED <<cfg, conf, loaded, plain, behind>>,
             \/ job.does = "enable" /\ job.at \in {"emptyStub", "writeStub", "start"}
                  /\ job'.at \in {"emptyStub", "writeStub", "start", "servers"}
             \/ At("disable", {"stop"}) /\ At("disable", {"strict"})'
      PROVE  Meant'
  BY <1>8, <1>a DEF Same, Writing, OnServers, PlainConf
<1>9. CASE TruncateStubConfig \/ WriteStubConfig
  <2>1. ~Idle /\ ~LastStep /\ Same /\ Moves(job.does, job.at, job'.at)
    BY <1>9, <1>0, DoneMoves DEF TruncateStubConfig, WriteStubConfig, LastStep
  <2> QED BY <1>8, <1>9, <2>1 DEF TruncateStubConfig, WriteStubConfig, Moves, EnableMoves, DisableMoves, PageMoves
<1>10. CASE StartStub
  <2>1. ~Idle /\ job.does = "enable" /\ Same /\ job'.at \in {"emptyStub", "servers"} /\ ~LastStep
    BY <1>10, StartMoves DEF StartStub, LastStep
  <2> QED BY <1>8, <1>10, <2>1 DEF StartStub
<1>11. CASE StopStubs
  <2>1. ~Idle /\ ~LastStep /\ Same /\ Moves(job.does, job.at, job'.at)
    BY <1>11, <1>0, DoneMoves DEF StopStubs, LastStep
  <2>2. At("disable", {"stop"}) /\ At("disable", {"strict"})'
    BY <1>11, <2>1 DEF StopStubs, Moves, EnableMoves, DisableMoves, PageMoves, Same
  <2> QED BY <1>8, <1>11, <2>1, <2>2 DEF StopStubs
<1>12. CASE SetServers
  <2>1. ~Idle /\ [conf EXCEPT !.servers = NewServers] \in Confs
    BY <1>12, NewTexts DEF SetServers
  <2>2. /\ Same /\ job'.text = [conf EXCEPT !.servers = NewServers] /\ job'.at = "writeServers"
        /\ job.at = "servers" /\ UNCHANGED <<cfg, loaded, plain, behind>>
    BY <1>12, <2>1, TruncateMoves DEF SetServers, Truncate
  <2>3. job'.text.servers = NewServers /\ job'.text.strict = conf.strict
    BY <1>b, <2>2 DEF Confs
  <2>4. CASE job.does = "enable"
    <3>1. NewServers \in OnServers
      BY <1>a, <1>b, <1>c, <2>4, BuiltOf DEF NewServers, OnServers, Jobs
    <3> QED BY <1>a, <2>2, <2>3, <2>4, <3>1 DEF Same, Writing, OnServers
  <2>5. CASE job.does = "disable"
    <3>1. NewServers = plain
      BY <1>a, <1>b, <1>c, <2>5, BuiltOf DEF NewServers, Jobs
    <3>2. job'.text = PlainConf
      <4>1. job'.text \in Confs /\ ~job'.text.strict
        BY <1>a, <1>b, <2>2, <2>3, <2>5 DEF Jobs
      <4> QED BY <2>3, <3>1, <4>1 DEF Confs, PlainConf
    <3> QED BY <1>a, <2>2, <2>3, <2>5, <3>1, <3>2 DEF Same, Writing, OnServers, PlainConf
  <2>6. CASE job.does = "page"
    <3>1. conf = PlainConf /\ NewServers = job.list
      BY <1>a, <2>2, <2>6 DEF NewServers
    <3>2. job'.text = [servers |-> job.list, strict |-> FALSE]
      <4>1. job'.text \in Confs /\ ~job'.text.strict
        BY <1>b, <2>3, <3>1 DEF Jobs, PlainConf
      <4> QED BY <2>3, <3>1, <4>1 DEF Confs
    <3> QED BY <1>a, <2>2, <2>6, <3>2 DEF Same
  <2> QED BY <1>b, <2>1, <2>4, <2>5, <2>6 DEF InPlace
<1>13. CASE SetStrictOrder
  <2>1. ~Idle /\ [conf EXCEPT !.strict = job.row.enabled] \in Confs
    BY <1>13, NewTexts DEF SetStrictOrder
  <2>2. /\ Same /\ job'.text = [conf EXCEPT !.strict = job.row.enabled] /\ job'.at = "writeStrict"
        /\ job.at = "strict" /\ UNCHANGED <<cfg, loaded, plain, behind>>
    BY <1>13, <2>1, TruncateMoves DEF SetStrictOrder, Truncate
  <2>3. job'.text.servers = conf.servers /\ job'.text.strict = job.row.enabled
    BY <1>b, <2>2 DEF Confs
  <2>4. job.does \in {"enable", "disable"} /\ cfg.enabled /\ (job.does = "disable" => ~job.row.enabled)
    BY <1>a, <1>b, <2>2 DEF InPlace, PageLabels
  <2> QED BY <1>a, <2>2, <2>3, <2>4 DEF Same, Writing, OnServers
<1>14. CASE WriteConf
  <2>1. /\ ~Idle /\ ~LastStep /\ Same /\ Moves(job.does, job.at, job'.at) /\ job'.text = job.text
        /\ UNCHANGED <<cfg, loaded, behind>> /\ conf' = job.text
    BY <1>14, <1>0, DoneMoves DEF WriteConf, LastStep
  <2>2. \/ At("enable", {"writeServers", "writeStrict"}) /\ At("enable", {"restart", "reload"})' /\ cfg.enabled
        \/ At("disable", {"writeStrict"}) /\ At("disable", {"servers"})'
        \/ At("disable", {"writeServers"}) /\ At("disable", {"restart"})'
        \/ At("page", {"writeServers"}) /\ At("page", {"restart"})' /\ ~cfg.enabled
    BY <1>14, <1>a, <2>1 DEF WriteConf, Moves, EnableMoves, DisableMoves, PageMoves, Same
  <2>3. CASE At("page", {"writeServers"})
    BY <1>14, <1>a, <2>1, <2>2, <2>3 DEF WriteConf, PlainConf, Same
  <2>4. CASE job.does # "page"
    <3>1. plain' = plain
      BY <1>14, <2>4 DEF WriteConf
    <3> QED BY <1>a, <2>1, <2>2, <2>4, <3>1 DEF Writing, PlainConf, OnServers, Same
  <2> QED BY <2>2, <2>3, <2>4
<1>15. CASE RestartDNSMasq
  <2>1. /\ ~Idle /\ loaded' = conf /\ UNCHANGED <<cfg, conf, plain>>
        /\ job.at \in {"restart", "reload"}
    BY <1>15 DEF RestartDNSMasq
  <2>2. CASE LastStep
    <3>1. job'.does = "nothing" /\ job'.at = "idle"
      BY <1>0, <1>15, <2>1, <2>2, DoneMoves, EndedMoves DEF RestartDNSMasq
    <3> QED BY <1>a, <1>b, <2>1, <2>2, <3>1 DEF LastStep, PlainConf, OnServers, Writing
  <2>3. CASE ~LastStep
    <3>1. Same /\ Moves(job.does, job.at, job'.at)
      BY <1>0, <1>15, <2>1, <2>3, DoneMoves DEF RestartDNSMasq
    <3>2. \/ At("enable", {"restart"}) /\ At("enable", {"strict"})'
          \/ At("disable", {"restart"}) /\ At("disable", {"save"})'
      BY <2>1, <3>1 DEF Moves, EnableMoves, DisableMoves, PageMoves, Same
    <3> QED BY <1>a, <2>1, <3>1, <3>2 DEF PlainConf, OnServers, Writing, Same
  <2> QED BY <2>2, <2>3
\* A request that ends early, but not while it writes dnsmasq.conf.
<1>16. ASSUME Ended, ~Idle, job.at \notin Writing, UNCHANGED <<cfg, conf, plain>>,
              \/ loaded' = conf
              \/ loaded' = loaded /\ (behind \/ At("page", {"restart"}) => behind')
       PROVE  Meant'
  <2>1. job'.does = "nothing" /\ job'.at = "idle"
    BY <1>16, EndedMoves
  <2>2. ~cfg.enabled => conf = PlainConf /\ (loaded' = conf' \/ behind')
    <3>1. ASSUME ~cfg.enabled
          PROVE  At("enable", {"save"}) \/ At("page", {"servers", "restart"}) \/ At("disable", {"reload"})
      BY <1>16, <1>a, <1>b, <3>1 DEF InPlace, PageLabels, Writing
    <3> QED BY <1>16, <1>a, <3>1
  <2>3. cfg.enabled => conf.servers \in OnServers
    BY <1>16, <1>a
  <2> QED BY <1>16, <1>a, <2>1, <2>2, <2>3 DEF PlainConf, OnServers, Writing
<1>17. CASE StepFails
  <2>1. ~Idle /\ job.at \notin Writing /\ job.at # "restart" /\ behind' = behind
    BY <1>17 DEF StepFails, Writing
  <2> QED BY <1>16, <1>17, <1>b, <2>1 DEF StepFails, TypeInv
<1>18. CASE WriteFails
  BY <1>18, <1>a DEF WriteFails
<1>19. CASE RestartRefused
  <2>1. ~Idle /\ job.at \notin Writing /\ (job.does = "page" => job.at = "restart")
    BY <1>19, <1>b DEF RestartRefused, Writing, InPlace, PageLabels
  <2>2. behind \/ job.does = "page" => behind'
    BY <1>19, Zenon DEF RestartRefused
  <2> QED BY <1>16, <1>19, <2>1, <2>2 DEF RestartRefused
<1>20. CASE Reboot
  <2>1. Ended /\ job.at \notin Writing /\ loaded' = conf /\ UNCHANGED <<cfg, conf, plain>>
    BY <1>20, <1>a DEF Reboot, Writing
  <2>2. CASE ~Idle
    BY <1>16, <2>1, <2>2
  <2>3. CASE Idle
    <3>1. job'.does = "nothing" /\ job'.at = "idle"
      BY <2>1, EndedMoves
    <3> QED BY <1>a, <2>1, <2>3, <3>1 DEF PlainConf, OnServers, Writing
  <2> QED BY <2>2, <2>3
<1>21. CASE UNCHANGED vars
  BY <1>21, <1>a DEF vars, PlainConf, OnServers
<1> QED BY <1>2, <1>3, <1>4, <1>5, <1>6, <1>7, <1>9, <1>10, <1>11, <1>12,
           <1>13, <1>14, <1>15, <1>17, <1>18, <1>19, <1>20, <1>21 DEF Next, Step

-----------------------------------------------------------------------------
(* When nothing fails.                                                     *)

LEMMA InitCalm == Init => CalmInv
<1> SUFFICES ASSUME Init PROVE Calmly
  BY DEF CalmInv
<1>1. ~cfg.enabled /\ job.does = "nothing"
  BY DEF Init, NoJob
<1> QED BY <1>1 DEF Calmly, At

LEMMA NextCalm == TypeInv /\ TypeInv' /\ CalmInv /\ [Next]_vars => CalmInv'
<1> SUFFICES ASSUME TypeInv, TypeInv', CalmInv, [Next]_vars, may' \subseteq {"noFallback"}
             PROVE  Calmly'
  BY DEF CalmInv
<1>0. may' = may
  BY DEF Next, Step, vars, ToggleOn, ToggleOff, SaveConfigOn, SaveConfigOff, SetUpstream, SaveRow,
         TruncateStubConfig, WriteStubConfig, StartStub, StopStubs, SetServers, SetStrictOrder,
         Truncate, WriteConf, RestartDNSMasq, StepFails, WriteFails, RestartRefused, Reboot
<1>a. /\ Calmly
      /\ \A c \in FaultKinds \cup {"reboot", "midway", "noHTTPS", "toggleAgain", "editWhileOn"} : c \notin may
  BY <1>0 DEF CalmInv, FaultKinds
<1>b. /\ job \in Jobs /\ InPlace(job) /\ cfg \in Rows /\ conf \in Confs
      /\ job' \in Jobs /\ InPlace(job)' /\ conf' \in Confs
      /\ job.does \in {"nothing", "enable", "disable", "page"}
      /\ job.stub \in 1 .. Len(Installed) /\ Stub \in StubAddrs
  BY StubType DEF TypeInv, Jobs
<1>c. /\ Len(Installed) \in Nat \ {0} /\ \A i \in 1 .. Len(Installed) : Installed[i] \in StubAddrs
      /\ \A i, j \in 1 .. Len(Installed) : Installed[i] = Installed[j] => i = j
  <2>1. \A i, j \in 1 .. Len(Installed) : Installed[i] = Installed[j] => i = j
    BY InstalledCases
  <2> QED BY <2>1, InstalledType, ElementOfSeq
<1> USE DEF Calmly, At
<1>1. ASSUME NEW p \in Providers, NEW f \in BOOLEAN, NEW prev \in Seq(Addresses),
             StartEnable(p, f, prev), MayChoose(p, f)
      PROVE  Calmly'
  <2>1. At("enable", {"save"})' /\ job'.row.provider = p /\ job'.stub = 1
    <3>1. At("enable", {"save"})' /\ job'.stub = 1
          /\ (job'.row = NewRow(p, f, prev) \/ job'.row = RowWithoutRead(p, f, prev))
      BY <1>0, <1>1, EnableBegins
    <3> QED BY <3>1 DEF NewRow, RowWithoutRead
  <2>2. p \notin NoHTTPS
    BY <1>1, <1>a DEF MayChoose
  <2>3. Running(0)'
    BY DEF Running
  <2> QED BY <2>1, <2>2, <2>3
<1>2. ASSUME NEW p \in Providers, NEW f \in BOOLEAN, ToggleOn(p, f) PROVE Calmly'
  BY <1>1, <1>2, Lists DEF ToggleOn
<1>3. CASE ToggleOff
  BY <1>3, DisableBegins
<1>4. ASSUME NEW p \in Providers, NEW f \in BOOLEAN, SaveConfigOn(p, f) PROVE Calmly'
  <2>1. cfg.stash \in Seq(Addresses)
    BY <1>b DEF Rows
  <2> QED BY <1>1, <1>4, <2>1 DEF SaveConfigOn
<1>5. ASSUME NEW p \in Providers, NEW f \in BOOLEAN, SaveConfigOff(p, f) PROVE Calmly'
  <2>1. ~cfg'.enabled /\ job' = job /\ job.does = "nothing"
    BY <1>5, <1>b DEF SaveConfigOff, Rows, InPlace, Idle
  <2> QED BY <2>1
<1>6. ASSUME NEW l \in PlainLists, SetUpstream(l) PROVE Calmly'
  <2>1. ~cfg.enabled /\ cfg' = cfg
    BY <1>6, <1>a DEF SetUpstream
  <2> QED BY <1>6, <2>1, PageBegins
\* A step of EnableEncryptedDNS, and where it leads.
<1>d. ASSUME ~Idle, Done
      PROVE  IF LastStep THEN job'.does = "nothing"
             ELSE /\ Same /\ Moves(job.does, job.at, job'.at)
                  /\ job'.text = job.text /\ job'.stub = job.stub
  BY <1>0, <1>d, DoneMoves, EndedMoves
\* Steps of the other requests.
<1>e. ASSUME job.does \in {"disable", "page"}, job'.does = job.does, cfg' = cfg,
             At("disable", {"reload"})' => At("disable", {"reload"})
      PROVE  Calmly'
  BY <1>a, <1>e
<1>7. CASE SaveRow
  <2>1. ~Idle /\ ~LastStep /\ cfg' = job.row /\ job.at = "save" /\ UNCHANGED running
    BY <1>7 DEF SaveRow, LastStep, Idle
  <2>2. Same /\ Moves(job.does, "save", job'.at) /\ job'.stub = job.stub
    BY <1>7, <1>d, <2>1 DEF SaveRow
  <2>3. CASE job.does = "enable"
    <3>1. job'.at = "emptyStub"
      BY <2>2, <2>3 DEF Moves, EnableMoves
    <3>2. Running(0)'
      BY DEF Running
    <3> QED BY <1>a, <2>1, <2>2, <2>3, <3>1, <3>2 DEF Same
  <2>4. CASE job.does # "enable"
    <3>1. job.does = "disable" /\ job'.at = "reload" /\ ~job.row.enabled
      BY <1>b, <2>2, <2>4 DEF Moves, DisableMoves, PageMoves, InPlace
    <3> QED BY <2>1, <2>2, <3>1 DEF Same
  <2> QED BY <2>3, <2>4
<1>8. CASE TruncateStubConfig
  <2>1. ~Idle /\ ~LastStep /\ job.at = "emptyStub" /\ UNCHANGED <<cfg, running>>
    BY <1>8 DEF TruncateStubConfig, LastStep, Idle
  <2>2. Same /\ Moves(job.does, "emptyStub", job'.at) /\ job'.stub = job.stub
    BY <1>8, <1>d, <2>1 DEF TruncateStubConfig
  <2>3. job.does = "enable" /\ job'.at = "writeStub"
    BY <2>2 DEF Moves, EnableMoves, DisableMoves, PageMoves
  <2> QED BY <1>a, <2>1, <2>2, <2>3 DEF Same, Running
<1>9. CASE WriteStubConfig
  <2>1. ~Idle /\ ~LastStep /\ job.at = "writeStub" /\ UNCHANGED <<cfg, running>>
        /\ file' = [file EXCEPT ![Stub] = job.row.provider]
    BY <1>9 DEF WriteStubConfig, LastStep, Idle
  <2>2. Same /\ Moves(job.does, "writeStub", job'.at) /\ job'.stub = job.stub
    BY <1>9, <1>d, <2>1 DEF WriteStubConfig
  <2>3. job.does = "enable" /\ job'.at = "start"
    BY <2>2 DEF Moves, EnableMoves, DisableMoves, PageMoves
  <2>4. file'[Stub] # Off /\ Stub' = Stub
    BY <1>b, <2>1, <2>2, <2>3, DoHAssumption DEF TypeInv, InPlace, Stub
  <2> QED BY <1>a, <2>1, <2>2, <2>3, <2>4 DEF Same, Running
<1>10. CASE StartStub
  <2>1. job.at = "start" /\ UNCHANGED cfg
        /\ running' = [running EXCEPT ![Stub] = IF running[Stub] = Off THEN file[Stub] ELSE running[Stub]]
    BY <1>10, <1>a DEF StartStub, FaultKinds
  <2>2. /\ job.does = "enable" /\ Same
        /\ IF job.stub < Len(Installed) THEN job'.at = "emptyStub" /\ job'.stub = job.stub + 1
           ELSE job'.at = "servers" /\ job'.stub = job.stub
    BY <1>10, StartMoves
  <2>3. file[Stub] # Off /\ Running(job.stub - 1)
    BY <1>a, <2>1, <2>2
  <2>4. \A i \in 1 .. job.stub : running'[Installed[i]] # Off
    <3>1. running'[Stub] # Off /\ \A s \in StubAddrs : running[s] # Off => running'[s] # Off
      BY <1>b, <2>1, <2>3 DEF TypeInv
    <3>2. ASSUME NEW i \in 1 .. job.stub PROVE running'[Installed[i]] # Off
      <4>1. CASE i = job.stub
        BY <3>1, <4>1 DEF Stub
      <4>2. CASE i # job.stub
        <5>1. i \in 1 .. job.stub - 1 /\ i \in 1 .. Len(Installed)
          BY <1>b, <1>c, <4>2
        <5> QED BY <1>c, <2>3, <3>1, <5>1 DEF Running
      <4> QED BY <4>1, <4>2
    <3> QED BY <3>2
  <2>5. CASE job.stub < Len(Installed)
    <3>1. \A i \in 1 .. job'.stub - 1 : running'[Installed[i]] # Off
      BY <1>b, <2>2, <2>4, <2>5
    <3>2. Running(job.stub - 1)'
      BY <3>1 DEF Running
    <3> QED BY <1>a, <1>b, <2>1, <2>2, <2>5, <3>2 DEF Same
  <2>6. CASE job.stub = Len(Installed)
    <3>1. Running(Len(Installed))'
      BY <2>4, <2>6 DEF Running
    <3> QED BY <1>a, <1>b, <2>1, <2>2, <2>6, <3>1 DEF Same
  <2> QED BY <1>b, <1>c, <2>5, <2>6
<1>11. CASE StopStubs
  <2>1. ~Idle /\ ~LastStep /\ job.at = "stop" /\ cfg' = cfg
    BY <1>11 DEF StopStubs, LastStep, Idle
  <2>2. Same /\ Moves(job.does, "stop", job'.at)
    BY <1>11, <1>d, <2>1 DEF StopStubs
  <2>3. job.does = "disable" /\ job'.at = "strict"
    BY <2>2 DEF Moves, EnableMoves, DisableMoves, PageMoves
  <2> QED BY <1>e, <2>1, <2>2, <2>3 DEF Same
<1>12. CASE SetServers
  <2>1. ~Idle /\ [conf EXCEPT !.servers = NewServers] \in Confs
    BY <1>12, NewTexts DEF SetServers, Idle
  <2>2. /\ Same /\ job'.text = [conf EXCEPT !.servers = NewServers] /\ job'.at = "writeServers"
        /\ job.at = "servers" /\ UNCHANGED <<cfg, running>>
    BY <1>12, <2>1, TruncateMoves DEF SetServers, Truncate
  <2>3. CASE job.does = "enable"
    <3>1. job'.text.servers = buildEncryptedServers(job.row)
      BY <1>b, <2>2, <2>3 DEF Confs, NewServers
    <3> QED BY <1>a, <2>2, <2>3, <3>1 DEF Same, Running, buildEncryptedServers
  <2>4. CASE job.does # "enable"
    BY <1>b, <1>e, <2>1, <2>2, <2>4 DEF Same, InPlace, Idle
  <2> QED BY <2>3, <2>4
<1>13. CASE SetStrictOrder
  <2>1. ~Idle /\ [conf EXCEPT !.strict = job.row.enabled] \in Confs
    BY <1>13, NewTexts DEF SetStrictOrder, Idle
  <2>2. /\ Same /\ job'.text = [conf EXCEPT !.strict = job.row.enabled] /\ job'.at = "writeStrict"
        /\ job.at = "strict" /\ UNCHANGED <<cfg, running>>
    BY <1>13, <2>1, TruncateMoves DEF SetStrictOrder, Truncate
  <2>3. CASE job.does = "enable"
    <3>1. conf.servers = buildEncryptedServers(job.row) /\ job.row.enabled
      BY <1>a, <1>b, <2>2, <2>3 DEF InPlace
    <3>2. job'.text = [servers |-> buildEncryptedServers(job.row), strict |-> TRUE]
      BY <1>b, <2>2, <3>1 DEF Confs, Jobs, Rows
    <3> QED BY <1>a, <2>2, <2>3, <3>2 DEF Same, Running, buildEncryptedServers
  <2>4. CASE job.does # "enable"
    BY <1>b, <1>e, <2>1, <2>2, <2>4 DEF Same, InPlace, Idle
  <2> QED BY <2>3, <2>4
<1>14. CASE WriteConf
  <2>1. ~Idle /\ ~LastStep /\ job.at \in Writing /\ UNCHANGED <<cfg, running>> /\ conf' = job.text
    BY <1>14 DEF WriteConf, LastStep, Idle, Writing
  <2>2. Same /\ Moves(job.does, job.at, job'.at) /\ job'.stub = job.stub
    BY <1>14, <1>d, <2>1 DEF WriteConf
  <2>3. CASE job.does = "enable"
    <3>1. \/ job.at = "writeServers" /\ job'.at = "restart"
          \/ job.at = "writeStrict" /\ job'.at = "reload"
      BY <2>1, <2>2, <2>3 DEF Moves, EnableMoves, Writing
    <3>2. Running(Len(Installed))'
      BY <1>a, <2>1, <2>3, <3>1 DEF Running
    <3>3. job.at = "writeStrict" => EnabledWell(job.row)'
      BY <1>a, <2>1, <2>2, <2>3, <3>2 DEF EnabledWell, Same, buildEncryptedServers
    <3> QED BY <1>a, <2>1, <2>2, <2>3, <3>1, <3>2, <3>3 DEF Same, buildEncryptedServers, EnabledWell
  <2>4. CASE job.does # "enable"
    <3>1. At("disable", {"reload"})' => At("disable", {"reload"})
      BY <2>1, <2>2 DEF Moves, DisableMoves, Same, Writing
    <3> QED BY <1>b, <1>e, <2>1, <2>2, <2>4, <3>1 DEF Same, InPlace, Idle
  <2> QED BY <2>3, <2>4
<1>15. CASE RestartDNSMasq
  <2>1. /\ ~Idle /\ loaded' = conf /\ UNCHANGED <<cfg, conf, running>>
        /\ job.at \in {"restart", "reload"} /\ Done
    BY <1>15 DEF RestartDNSMasq, Idle
  <2>2. CASE LastStep /\ job.does = "enable"
    <3>1. job'.does = "nothing" /\ cfg = job.row /\ EnabledWell(job.row)
      BY <1>a, <1>d, <2>1, <2>2 DEF LastStep
    <3>2. EnabledWell(cfg)'
      BY <2>1, <3>1 DEF EnabledWell, Running, buildEncryptedServers
    <3> QED BY <2>1, <3>1, <3>2
  <2>3. CASE LastStep /\ job.does # "enable"
    <3>1. job'.does = "nothing" /\ ~cfg'.enabled
      BY <1>a, <1>d, <2>1, <2>3 DEF LastStep
    <3> QED BY <3>1
  <2>4. CASE ~LastStep
    <3>1. Same /\ Moves(job.does, job.at, job'.at) /\ job'.stub = job.stub
      BY <1>d, <2>1, <2>4
    <3>2. \/ At("enable", {"restart"}) /\ At("enable", {"strict"})'
          \/ At("disable", {"restart"}) /\ At("disable", {"save"})'
      BY <2>1, <3>1 DEF Moves, EnableMoves, DisableMoves, PageMoves, Same
    <3> QED BY <1>a, <1>e, <2>1, <3>1, <3>2 DEF Same, Running, buildEncryptedServers
  <2> QED BY <2>2, <2>3, <2>4
<1>16. CASE StepFails
  <2>1. job.at = "emptyStub" /\ job.row.provider \in NoHTTPS
    BY <1>16, <1>a DEF StepFails, FaultKinds, HasNoStamp
  <2>2. job.does = "enable"
    BY <1>b, <2>1 DEF InPlace, DisableLabels, PageLabels
  <2> QED BY <1>a, <2>1, <2>2
<1>17. CASE WriteFails \/ RestartRefused
  BY <1>17, <1>a DEF WriteFails, RestartRefused, FaultKinds
<1>18. CASE Reboot
  BY <1>18, <1>a DEF Reboot
<1>19. CASE UNCHANGED vars
  BY <1>19, <1>a DEF vars, EnabledWell, Running, buildEncryptedServers, Stub
<1> QED BY <1>2, <1>3, <1>4, <1>5, <1>6, <1>7, <1>8, <1>9, <1>10, <1>11, <1>12,
           <1>13, <1>14, <1>15, <1>16, <1>17, <1>18, <1>19 DEF Next, Step

-----------------------------------------------------------------------------
(* With the fallback to plain DNS.                                         *)

LEMMA OrdinaryHasPlain ==
  ASSUME NEW l \in PlainLists \cup {DefaultPlain}, Ordinary(l)
  PROVE  HasPlain(l)
<1>1. l \in Seq(Addresses) /\ l # << >>
  BY Lists DEF Ordinary
<1>2. Len(l) \in Nat \ {0} /\ DOMAIN l = 1 .. Len(l)
  BY <1>1
<1>3. 1 \in 1 .. Len(l) /\ l[1] \in Range(l)
  BY <1>2 DEF Range
<1> QED BY <1>3 DEF HasPlain, Ordinary

LEMMA StashHasPlain ==
  ASSUME NEW l \in Seq(Addresses), NEW prev, prev = << >> \/ HasPlain(prev)
  PROVE  stashUpstreams(l, prev) = << >> \/ HasPlain(stashUpstreams(l, prev))
<1>1. PlainOnly(l) \in Seq(Addresses \ StubAddrs)
  BY PlainOnlyType
<1>2. ASSUME PlainOnly(l) # << >> PROVE HasPlain(PlainOnly(l))
  <2>1. 1 \in 1 .. Len(PlainOnly(l))
    BY <1>1, <1>2
  <2>2. PlainOnly(l)[1] \notin StubAddrs
    BY <1>1, <2>1, ElementOfSeq
  <2> QED BY <2>1, <2>2 DEF HasPlain
<1> QED BY <1>2 DEF stashUpstreams

LEMMA BuiltHasPlain ==
  ASSUME NEW row \in Rows, row.stash = << >> \/ HasPlain(row.stash)
  PROVE  /\ HasPlain(restoreUpstreams(row.stash))
         /\ row.fallback => HasPlain(buildEncryptedServers(row))
<1>1. HasPlain(restoreUpstreams(row.stash))
  <2>1. HasPlain(DefaultPlain)
    BY OrdinaryHasPlain, DoHAssumption
  <2> QED BY <2>1 DEF restoreUpstreams
<1>2. ASSUME row.fallback PROVE HasPlain(buildEncryptedServers(row))
  <2> DEFINE l == restoreUpstreams(row.stash)
  <2>1. l \in Seq(Addresses) /\ Installed \in Seq(Addresses) /\ HasPlain(l)
    BY <1>1, Lists, ListsOf DEF Rows
  <2>2. buildEncryptedServers(row) = Installed \o l
    BY <1>2 DEF buildEncryptedServers
  <2> HIDE DEF l
  <2>3. PICK i \in 1 .. Len(l) : l[i] \notin StubAddrs
    BY <2>1 DEF HasPlain
  <2>4. /\ Len(Installed) + i \in 1 .. Len(Installed \o l)
        /\ (Installed \o l)[Len(Installed) + i] = l[i]
    BY <2>1
  <2> QED BY <2>2, <2>3, <2>4 DEF HasPlain
<1> QED BY <1>1, <1>2

LEMMA InitAnswering == Init => AnsweringInv
<1> SUFFICES ASSUME Init, may \cap {"noFallback", "oddList"} = {} PROVE Answering
  BY DEF AnsweringInv
<1>1. HasPlain(plain) /\ HasPlain(DefaultPlain)
  BY OrdinaryHasPlain, DoHAssumption DEF Init
<1>2. /\ conf.servers = plain /\ loaded.servers = plain
      /\ cfg.stash = DefaultPlain /\ cfg.fallback
      /\ job.does = "nothing" /\ job.at = "idle"
  BY DEF Init, NoJob
<1> QED BY <1>1, <1>2 DEF Answering, Fallback, PastServers, At, Writing

LEMMA NextAnswering == TypeInv /\ TypeInv' /\ AnsweringInv /\ [Next]_vars => AnsweringInv'
<1> SUFFICES ASSUME TypeInv, TypeInv', AnsweringInv, [Next]_vars,
                    may' \cap {"noFallback", "oddList"} = {}
             PROVE  Answering'
  BY DEF AnsweringInv
<1>0. may' = may
  BY DEF Next, Step, vars, ToggleOn, ToggleOff, SaveConfigOn, SaveConfigOff, SetUpstream, SaveRow,
         TruncateStubConfig, WriteStubConfig, StartStub, StopStubs, SetServers, SetStrictOrder,
         Truncate, WriteConf, RestartDNSMasq, StepFails, WriteFails, RestartRefused, Reboot
<1>a. Answering /\ "noFallback" \notin may /\ "oddList" \notin may
  BY <1>0 DEF AnsweringInv
<1>b. /\ conf \in Confs /\ loaded \in Confs /\ cfg \in Rows /\ cfg.fallback \in BOOLEAN
      /\ job \in Jobs /\ InPlace(job) /\ job.row \in Rows /\ job.text \in Confs
  BY DEF TypeInv, Jobs, Rows
<1>c. WritesComplete' <=> WritesComplete
  BY <1>0 DEF WritesComplete
<1> USE DEF Answering, PastServers, At
\* A request begins.
<1>1. ASSUME Idle, job'.at \in {"save", "stop", "servers"}, ~PastServers',
             UNCHANGED <<cfg, conf, loaded>>,
             job'.does \in {"enable", "disable"} => Fallback(job'.row)
      PROVE  Answering'
  BY <1>1, <1>a, <1>c DEF Idle, Writing, Fallback, HasPlain
<1>2. ASSUME NEW p \in Providers, NEW f \in BOOLEAN, NEW prev \in Seq(Addresses), Idle,
             prev = << >> \/ HasPlain(prev), StartEnable(p, f, prev), MayChoose(p, f),
             UNCHANGED <<cfg, conf, loaded>>
      PROVE  Answering'
  <2>1. stashUpstreams(conf.servers, prev) = << >> \/ HasPlain(stashUpstreams(conf.servers, prev))
    BY <1>b, <1>2, StashHasPlain DEF Confs
  <2>2. At("enable", {"save"})'
        /\ (job'.row = NewRow(p, f, prev) \/ job'.row = RowWithoutRead(p, f, prev))
    BY <1>0, <1>2, EnableBegins
  <2>3. Fallback(job'.row)
    BY <1>a, <1>2, <2>1, <2>2 DEF MayChoose, Fallback, NewRow, RowWithoutRead
  <2> QED BY <1>1, <1>2, <2>2, <2>3
<1>3. ASSUME NEW p \in Providers, NEW f \in BOOLEAN, ToggleOn(p, f) PROVE Answering'
  BY <1>2, <1>3, Lists DEF ToggleOn
<1>4. CASE ToggleOff
  <2>1. At("disable", {"stop"})' /\ job'.row.stash = cfg.stash /\ job'.row.fallback = cfg.fallback
    BY <1>4, DisableBegins
  <2>2. Fallback(job'.row)
    BY <1>a, <2>1 DEF Fallback
  <2> QED BY <1>1, <1>4, <2>1, <2>2 DEF ToggleOff
<1>5. ASSUME NEW p \in Providers, NEW f \in BOOLEAN, SaveConfigOn(p, f) PROVE Answering'
  <2>1. cfg.stash \in Seq(Addresses) /\ (cfg.stash = << >> \/ HasPlain(cfg.stash))
    BY <1>a, <1>b DEF Fallback, Rows
  <2> QED BY <1>2, <1>5, <2>1 DEF SaveConfigOn
<1>6. ASSUME NEW p \in Providers, NEW f \in BOOLEAN, SaveConfigOff(p, f) PROVE Answering'
  <2>1. /\ cfg'.stash = cfg.stash /\ cfg'.fallback = f /\ f = TRUE
        /\ UNCHANGED <<conf, loaded, job>>
    BY <1>6, <1>a, <1>b DEF SaveConfigOff, MayChoose, Rows
  <2>2. Fallback(cfg)' /\ (job.does \in {"enable", "disable"} => Fallback(job'.row))
    BY <1>a, <2>1 DEF Fallback
  <2> QED BY <1>a, <1>c, <2>1, <2>2 DEF HasPlain, Writing
<1>7. ASSUME NEW l \in PlainLists, SetUpstream(l) PROVE Answering'
  <2>1. At("page", {"servers"})'
    BY <1>7, PageBegins
  <2> QED BY <1>1, <1>7, <2>1 DEF SetUpstream
\* A step that leaves dnsmasq alone.
<1>8. ASSUME ~Idle, ~LastStep, Same, Moves(job.does, job.at, job'.at), UNCHANGED <<conf, loaded>>,
             job.at \in {"save", "emptyStub", "writeStub", "start", "stop"},
             cfg' = cfg \/ (job.at = "save" /\ cfg' = job.row)
      PROVE  Answering'
  <2>1. Fallback(cfg)' /\ (job'.does \in {"enable", "disable"} => Fallback(job'.row))
    <3>1. job.at = "save" => job.does \in {"enable", "disable"}
      BY <1>8 DEF Moves, PageMoves
    <3>2. Fallback(cfg')
      BY <1>8, <1>a, <3>1
    <3> QED BY <1>8, <1>a, <3>2 DEF Same, Fallback
  <2>2. job'.at \in {"emptyStub", "writeStub", "start", "servers", "strict", "reload"}
        /\ (PastServers' => At("disable", {"save"}))
    BY <1>8 DEF Moves, EnableMoves, DisableMoves, PageMoves, Same
  <2> QED BY <1>8, <1>a, <1>c, <2>1, <2>2 DEF Writing, HasPlain, Same
<1>9. CASE SaveRow
  <2>1. ~Idle /\ ~LastStep /\ job.at = "save" /\ Done /\ cfg' = job.row /\ UNCHANGED <<conf, loaded>>
    BY <1>9 DEF SaveRow, Idle, LastStep
  <2> QED BY <1>0, <1>8, <2>1, DoneMoves
<1>10. CASE TruncateStubConfig \/ WriteStubConfig \/ StopStubs
  <2>1. ~Idle /\ ~LastStep /\ job.at \in {"emptyStub", "writeStub", "stop"} /\ Done
        /\ UNCHANGED <<cfg, conf, loaded>>
    BY <1>10 DEF TruncateStubConfig, WriteStubConfig, StopStubs, Idle, LastStep
  <2> QED BY <1>0, <1>8, <2>1, DoneMoves
<1>11. CASE StartStub
  <2>1. /\ ~Idle /\ job.at = "start" /\ job.does = "enable" /\ Same
        /\ job'.at \in {"emptyStub", "servers"} /\ UNCHANGED <<cfg, conf, loaded>>
    BY <1>11, StartMoves DEF StartStub
  <2>2. Fallback(cfg)' /\ Fallback(job'.row)
    BY <1>a, <2>1 DEF Same, Fallback
  <2> QED BY <1>a, <1>c, <2>1, <2>2 DEF Writing, HasPlain, Same
<1>12. CASE SetServers
  <2>1. ~Idle /\ [conf EXCEPT !.servers = NewServers] \in Confs
    BY <1>12, NewTexts DEF SetServers, Idle
  <2>2. /\ Same /\ job'.text = [conf EXCEPT !.servers = NewServers] /\ job'.at = "writeServers"
        /\ job.at = "servers" /\ UNCHANGED <<cfg, loaded>>
    BY <1>12, <2>1, TruncateMoves DEF SetServers, Truncate
  <2>3. HasPlain(NewServers)
    <3>1. CASE job.does \in {"enable", "disable"}
      BY <1>a, <1>b, <3>1, BuiltHasPlain DEF NewServers, Fallback
    <3>2. CASE job.does = "page"
      BY <1>a, <1>b, <3>2, OrdinaryHasPlain DEF NewServers, InPlace
    <3> QED BY <1>b, <2>1, <3>1, <3>2 DEF Jobs, InPlace, Idle
  <2>4. HasPlain(job'.text.servers)
    BY <1>b, <2>2, <2>3 DEF Confs
  <2>5. Fallback(cfg)' /\ (job'.does \in {"enable", "disable"} => Fallback(job'.row))
    BY <1>a, <2>2 DEF Same, Fallback
  <2> QED BY <1>a, <1>c, <2>2, <2>4, <2>5 DEF Writing, HasPlain
<1>13. CASE SetStrictOrder
  <2>1. ~Idle /\ [conf EXCEPT !.strict = job.row.enabled] \in Confs
    BY <1>13, NewTexts DEF SetStrictOrder, Idle
  <2>2. /\ Same /\ job'.text = [conf EXCEPT !.strict = job.row.enabled] /\ job'.at = "writeStrict"
        /\ job.at = "strict" /\ UNCHANGED <<cfg, loaded>>
    BY <1>13, <2>1, TruncateMoves DEF SetStrictOrder, Truncate
  <2>3. job'.text.servers = conf.servers
    BY <1>b, <2>2 DEF Confs
  <2>4. Fallback(cfg)' /\ (job'.does \in {"enable", "disable"} => Fallback(job'.row))
    BY <1>a, <2>2 DEF Same, Fallback
  <2> QED BY <1>a, <1>c, <2>2, <2>3, <2>4 DEF Writing, HasPlain, Same
<1>14. CASE WriteConf
  <2>1. ~Idle /\ ~LastStep /\ job.at \in Writing /\ Done /\ UNCHANGED <<cfg, loaded>> /\ conf' = job.text
    BY <1>14 DEF WriteConf, Idle, LastStep, Writing
  <2>2. Same /\ Moves(job.does, job.at, job'.at)
    BY <1>0, <2>1, DoneMoves
  <2>3. \/ job.at = "writeServers" /\ job'.at = "restart"
        \/ At("enable", {"writeStrict"}) /\ job'.at = "reload"
        \/ At("disable", {"writeStrict"}) /\ At("disable", {"servers"})'
    BY <2>1, <2>2 DEF Moves, EnableMoves, DisableMoves, PageMoves, Writing, Same
  <2>4. Fallback(cfg)' /\ (job'.does \in {"enable", "disable"} => Fallback(job'.row))
    BY <1>a, <2>1, <2>2 DEF Same, Fallback
  <2> QED BY <1>a, <1>c, <2>1, <2>2, <2>3, <2>4 DEF Writing, HasPlain, Same
<1>15. CASE RestartDNSMasq
  <2>1. /\ ~Idle /\ job.at \in {"restart", "reload"} /\ Done /\ UNCHANGED <<cfg, conf>> /\ loaded' = conf
    BY <1>15 DEF RestartDNSMasq, Idle
  <2>2. HasPlain(conf.servers)
    BY <1>a, <1>b, <2>1 DEF InPlace, Jobs, PageLabels
  <2>3. CASE LastStep
    <3>1. job'.does = "nothing" /\ job'.at = "idle"
      BY <1>0, <2>1, <2>3, DoneMoves, EndedMoves
    <3> QED BY <1>a, <2>1, <2>2, <3>1 DEF Writing, HasPlain, Fallback
  <2>4. CASE ~LastStep
    <3>1. Same /\ Moves(job.does, job.at, job'.at)
      BY <1>0, <2>1, <2>4, DoneMoves
    <3>2. job'.at \in {"strict", "save"}
      BY <2>1, <3>1 DEF Moves, EnableMoves, DisableMoves, PageMoves
    <3>3. Fallback(cfg)' /\ (job'.does \in {"enable", "disable"} => Fallback(job'.row))
      BY <1>a, <2>1, <3>1 DEF Same, Fallback
    <3> QED BY <1>a, <2>1, <2>2, <3>2, <3>3 DEF Writing, HasPlain
  <2> QED BY <2>3, <2>4
\* A request is over, or the router reboots.
<1>16. ASSUME Ended, cfg' = cfg,
              WritesComplete => job.at \notin Writing /\ conf' = conf /\ loaded' \in {loaded, conf}
       PROVE  Answering'
  <2>1. job'.does = "nothing" /\ job'.at = "idle"
    BY <1>16, EndedMoves
  <2>2. Fallback(cfg)'
    BY <1>16, <1>a DEF Fallback
  <2>3. WritesComplete => HasPlain(conf.servers)' /\ HasPlain(loaded.servers)'
    BY <1>16, <1>a DEF HasPlain
  <2> QED BY <1>c, <2>1, <2>2, <2>3 DEF Writing
<1>17. CASE StepFails
  BY <1>16, <1>17 DEF StepFails, Writing
<1>18. CASE WriteFails
  BY <1>16, <1>18 DEF WriteFails, WritesComplete
<1>19. CASE RestartRefused
  BY <1>16, <1>19 DEF RestartRefused, Writing
<1>20. CASE Reboot
  BY <1>16, <1>20 DEF Reboot, Writing, WritesComplete
<1>21. CASE UNCHANGED vars
  BY <1>21, <1>a, <1>c DEF vars, Fallback, HasPlain
<1> QED BY <1>3, <1>4, <1>5, <1>6, <1>7, <1>9, <1>10, <1>11, <1>12,
           <1>13, <1>14, <1>15, <1>17, <1>18, <1>19, <1>20, <1>21 DEF Next, Step

-----------------------------------------------------------------------------
(* The theorems.                                                           *)

IInv == TypeInv /\ MeantInv /\ CalmInv /\ AnsweringInv

LEMMA Invariant == Spec => []IInv
<1>1. Init => IInv
  BY InitType, InitMeant, InitCalm, InitAnswering DEF IInv
<1>2. IInv /\ [Next]_vars => IInv'
  BY NextType, NextMeant, NextCalm, NextAnswering DEF IInv
<1> QED BY <1>1, <1>2, PTL DEF Spec

\* Whatever step fails or is refused and wherever the router reboots, but for a write
\* of dnsmasq.conf cut off: between requests, a router whose row says off has the
\* servers the user set, without strict order, in dnsmasq.conf, and in dnsmasq unless
\* the DNS page could not restart it (doh.go:240-309, dns.go:39-63).
THEOREM PlainServersComeBack == Spec => []PlainRestoredAfterFailures
<1>1. IInv => PlainRestoredAfterFailures
  BY DEF IInv, MeantInv, Meant, OffIsPlain, PlainConf, PlainRestoredAfterFailures, PlainRestored
<1> QED BY <1>1, Invariant, PTL

\* While the row says on, its stash is the servers the user set: no order of
\* toggling, reconfiguring, failing and rebooting replaces it, as long as every
\* write of dnsmasq.conf is complete (stashUpstreams, doh.go:466-480).
THEOREM StashIsTheUsers == Spec => []StashKept
<1>1. IInv => StashKept
  BY DEF IInv, MeantInv, Meant, KnowsPlain, StashKept
<1> QED BY <1>1, Invariant, PTL

\* When nothing fails, the request that turns encrypted DNS on leaves dnsmasq with
\* the installed stubs first, running, then the user's servers if he wants them.
THEOREM StubsAskedFirst == Spec => []EncryptedInOrder
<1>1. IInv => EncryptedInOrder
  <2> SUFFICES ASSUME IInv, may \subseteq {"noFallback"}, Idle, cfg.enabled
               PROVE  /\ loaded = [strict |-> TRUE,
                                   servers |-> Installed \o (IF cfg.fallback THEN plain ELSE << >>)]
                      /\ \A i \in DOMAIN Installed : running[Installed[i]] # Off
    BY DEF EncryptedInOrder
  <2>1. Meant /\ Calmly /\ TypeInv
    BY DEF IInv, MeantInv, CalmInv, UsedAsMeant, WritesComplete
  <2>2. EnabledWell(cfg) /\ loaded = conf
    BY <2>1 DEF Calmly, TypeInv, InPlace, Idle
  <2>3. buildEncryptedServers(cfg) = Installed \o (IF cfg.fallback THEN plain ELSE << >>)
    <3>1. Ordinary(plain) /\ cfg.stash = plain
      BY <2>1 DEF Meant, KnowsPlain, TypeInv
    <3>2. plain # << >>
      BY <2>1, <3>1, PlainNoStub
    <3> QED BY <3>1, <3>2 DEF buildEncryptedServers, restoreUpstreams
  <2>4. \A i \in DOMAIN Installed : running[Installed[i]] # Off
    <3>1. DOMAIN Installed = 1 .. Len(Installed)
      BY InstalledType
    <3> QED BY <2>2, <3>1 DEF EnabledWell, Running
  <2> QED BY <2>2, <2>3, <2>4 DEF EnabledWell
<1> QED BY <1>1, Invariant, PTL

\* A plain server always answers.
LEMMA PlainAnswers ==
  ASSUME NEW l \in Seq(Addresses), HasPlain(l)
  PROVE  \E a \in Range(l) : a \notin StubAddrs
<1>1. PICK i \in 1 .. Len(l) : l[i] \notin StubAddrs
  BY DEF HasPlain
<1>2. l[i] \in Range(l)
  BY DEF Range
<1> QED BY <1>1, <1>2

\* With the fallback always on, dnsmasq keeps a plain server whatever step fails and
\* wherever the router reboots, but for a write of dnsmasq.conf cut off
\* (buildEncryptedServers, doh.go:439-454).
THEOREM NamesKeepResolving == Spec => []SomeServerAnswers
<1>1. IInv => SomeServerAnswers
  <2> SUFFICES ASSUME IInv, may \cap {"noFallback", "oddList"} = {}, WritesComplete
               PROVE  Answers
    BY DEF SomeServerAnswers
  <2>1. HasPlain(loaded.servers) /\ loaded.servers \in Seq(Addresses)
    BY DEF IInv, AnsweringInv, Answering, TypeInv, Confs
  <2> QED BY <2>1, PlainAnswers DEF Answers
<1> QED BY <1>1, Invariant, PTL

\* With the fallback always on, a request that comes to its end leaves dnsmasq with a
\* plain server, also when earlier writes of dnsmasq.conf were cut off
\* (restoreUpstreams, doh.go:511-524).
THEOREM CompletedRequestsRepair == Spec => CompletionRepairs
<1>1. ASSUME IInv, IInv', may \cap {"noFallback", "oddList"} = {}, RestartDNSMasq, Idle'
      PROVE  Answers'
  <2>1. job.at \in {"restart", "reload"} /\ loaded' = conf /\ TypeInv /\ Answering
    BY <1>1 DEF RestartDNSMasq, IInv, AnsweringInv
  <2>2. HasPlain(conf.servers)
    BY <2>1 DEF Answering, PastServers, At, TypeInv, InPlace, Jobs, PageLabels
  <2>3. \E a \in Range(loaded'.servers) : a \notin StubAddrs
    BY <2>1, <2>2, PlainAnswers DEF TypeInv, Confs
  <2> QED BY <2>3 DEF Answers
<1>2. IInv /\ IInv' /\ [Next]_vars
        => [may \cap {"noFallback", "oddList"} = {} /\ RestartDNSMasq /\ Idle' => Answers']_vars
  BY <1>1
<1> QED BY <1>2, Invariant, PTL DEF Spec, CompletionRepairs
=============================================================================
