-------------------------- MODULE Firewall_proofs --------------------------
(***************************************************************************)
(* The blocked devices (DeviceBlocks) and the rules of the user            *)
(* (CustomRules), each a script of the firewall's own, for any number of   *)
(* requests, devices, windows and rules.                                   *)
(*                                                                         *)
(* Of all mishaps, requests that overlap alone never part a rule from its  *)
(* row: the invariant follows a request through its steps. Between the     *)
(* row and the rule the two disagree in a known way, and no two requests   *)
(* are ever about the same device.                                         *)
(*                                                                         *)
(* A place in the list of the user's rules is counted over the lines of    *)
(* the file.  Requests that do not overlap on the file keep it sorted, as  *)
(* rules only come in at the end, and however old a place is, at most as   *)
(* many older rules are left in the file, or in the lines a request has    *)
(* read and writes again, as stood above it (Fits).                        *)
(***************************************************************************)
EXTENDS DeviceBlocks, CustomRules, FiniteSetTheorems, WellFoundedInduction,
        SequenceTheorems, TLAPS

-----------------------------------------------------------------------------
(* Blocked devices.                                                        *)

Typed ==
  /\ rules \in [MACs -> Nat]
  /\ step \in [Requests -> Steps]
  /\ mac \in [Requests -> MACs]

OneRequestPerDevice ==
  \A q, r \in Requests :
    q # r /\ step[q] # "idle" /\ step[r] # "idle" => mac[q] # mac[r]

\* What the row and the rule of a request's device are at each of its steps.
FollowsSteps(r) ==
  /\ step[r] = "insertRule" => mac[r] \in blocked /\ rules[mac[r]] = 0
  /\ step[r] = "deleteRule" => mac[r] \notin blocked /\ rules[mac[r]] = 1
  /\ step[r] \in {"list", "truncate", "write"} => rules[mac[r]] = BlockedRules(mac[r])

Followed ==
  /\ Typed
  /\ OneRequestPerDevice
  /\ \A r \in Requests : FollowsSteps(r)
  /\ RulesMatch

IInv == may \subseteq {"overlap"} => Followed

\* A step of one request that touches only its own device's row and rule and
\* leaves that device as FollowsSteps says keeps the invariant.
LEMMA OwnDeviceOnly ==
  ASSUME Followed, NEW r \in Requests, NEW s \in Steps,
         step[r] # "idle",
         step' = [step EXCEPT ![r] = s], UNCHANGED mac,
         Typed',
         \A m \in MACs : m # mac[r] =>
           (m \in blocked' <=> m \in blocked) /\ rules'[m] = rules[m],
         FollowsSteps(r)',
         s = "idle" => rules'[mac[r]] = BlockedRules(mac[r])'
  PROVE  Followed'
<1> USE DEF Followed, Typed
<1>1. OneRequestPerDevice'
  BY DEF OneRequestPerDevice
<1>2. ASSUME NEW q \in Requests PROVE FollowsSteps(q)'
  <2>1. CASE q = r
    BY <2>1
  <2>2. CASE q # r /\ step[q] # "idle"
    <3>1. mac[q] # mac[r] /\ mac[q] \in MACs /\ step'[q] = step[q]
      BY <2>2 DEF OneRequestPerDevice
    <3> QED
      BY <3>1 DEF FollowsSteps, BlockedRules
  <2>3. CASE q # r /\ step[q] = "idle"
    BY <2>3 DEF FollowsSteps
  <2> QED
    BY <2>1, <2>2, <2>3
<1>3. RulesMatch'
  <2> SUFFICES ASSUME NEW m \in MACs, ~InFlight(m)'
               PROVE rules'[m] = BlockedRules(m)'
    BY DEF RulesMatch
  <2>1. CASE m = mac[r]
    BY <2>1 DEF InFlight
  <2>2. CASE m # mac[r]
    <3>1. ~InFlight(m)
      BY <2>2 DEF InFlight
    <3> QED
      BY <3>1, <2>2 DEF RulesMatch, BlockedRules
  <2> QED
    BY <2>1, <2>2
<1> QED
  BY <1>1, <1>2, <1>3

\* A request that starts on a device no other request is about, changing only
\* that device's row, keeps the invariant.
LEMMA FreshRequest ==
  ASSUME Followed, NEW r \in Requests, NEW m \in MACs, NEW s \in {"insertRule", "deleteRule"},
         step[r] = "idle", ~InFlight(m),
         step' = [step EXCEPT ![r] = s], mac' = [mac EXCEPT ![r] = m],
         UNCHANGED rules,
         \A n \in MACs : n # m => (n \in blocked' <=> n \in blocked),
         FollowsSteps(r)'
  PROVE  Followed'
<1> USE DEF Followed, Typed, Steps
<1>1. Typed'
  OBVIOUS
<1>2. \A q \in Requests : q # r => step'[q] = step[q] /\ mac'[q] = mac[q]
  OBVIOUS
<1>3. step'[r] = s /\ mac'[r] = m
  OBVIOUS
<1>4. \A q \in Requests : q # r /\ step[q] # "idle" => mac[q] # m
  BY DEF InFlight
<1>5. OneRequestPerDevice'
  BY <1>2, <1>3, <1>4 DEF OneRequestPerDevice
<1>6. ASSUME NEW q \in Requests PROVE FollowsSteps(q)'
  <2>1. CASE q = r
    BY <2>1
  <2>2. CASE q # r
    BY <2>2, <1>2, <1>4 DEF FollowsSteps, BlockedRules
  <2> QED
    BY <2>1, <2>2
<1>7. RulesMatch'
  <2> SUFFICES ASSUME NEW n \in MACs, ~InFlight(n)'
               PROVE rules'[n] = BlockedRules(n)'
    BY DEF RulesMatch
  <2>1. n # m /\ ~InFlight(n)
    BY <1>2, <1>3 DEF InFlight
  <2> QED
    BY <2>1 DEF RulesMatch, BlockedRules
<1> QED
  BY <1>1, <1>5, <1>6, <1>7

\* A step of a request, nothing failing and no page stale, keeps the invariant.
LEMMA RequestsFollow ==
  ASSUME Followed, {"stale", "fault"} \cap may = {}, NEW r \in Requests,
         \/ \E m \in MACs : StartBlock(r, m) \/ StartUnblock(r, m)
         \/ InsertRule(r) \/ DeleteRule(r) \/ ListRows(r) \/ Truncate(r) \/ WriteScript(r)
  PROVE  Followed'
<1> USE DEF Go, MayStart
<1>1. ASSUME NEW m \in MACs, StartBlock(r, m) PROVE Followed'
  <2>1. ~InFlight(m) /\ m \notin blocked /\ rules[m] = 0
    BY <1>1 DEF StartBlock, Followed, RulesMatch, BlockedRules
  <2>2. FollowsSteps(r)'
    BY <1>1, <2>1 DEF StartBlock, FollowsSteps, Followed, Typed
  <2> QED
    BY <1>1, <2>1, <2>2, FreshRequest DEF StartBlock
<1>2. ASSUME NEW m \in MACs, StartUnblock(r, m) PROVE Followed'
  <2>1. ~InFlight(m) /\ m \in blocked /\ rules[m] = 1
    BY <1>2 DEF StartUnblock, Followed, RulesMatch, BlockedRules
  <2>2. FollowsSteps(r)'
    BY <1>2, <2>1 DEF StartUnblock, FollowsSteps, Followed, Typed
  <2> QED
    BY <1>2, <2>1, <2>2, FreshRequest DEF StartUnblock
<1>3. ASSUME InsertRule(r) PROVE Followed'
  <2>1. mac[r] \in blocked /\ rules[mac[r]] = 0
    BY <1>3 DEF InsertRule, Followed, FollowsSteps
  <2>2. Typed' /\ rules' = [rules EXCEPT ![mac[r]] = 1]
    BY <1>3, <2>1 DEF InsertRule, Followed, Typed, Steps
  <2>3. FollowsSteps(r)'
    BY <1>3, <2>1, <2>2 DEF InsertRule, Followed, Typed, FollowsSteps, BlockedRules
  <2> QED
    BY <1>3, <2>2, <2>3, OwnDeviceOnly DEF InsertRule, Followed, Typed, Steps
<1>4. ASSUME DeleteRule(r) PROVE Followed'
  <2>1. mac[r] \notin blocked /\ rules[mac[r]] = 1
    BY <1>4 DEF DeleteRule, Followed, FollowsSteps
  <2>2. Typed' /\ rules' = [rules EXCEPT ![mac[r]] = 0]
    BY <1>4, <2>1 DEF DeleteRule, Followed, Typed, Steps
  <2>3. FollowsSteps(r)'
    BY <1>4, <2>1, <2>2 DEF DeleteRule, Followed, Typed, FollowsSteps, BlockedRules
  <2> QED
    BY <1>4, <2>2, <2>3, OwnDeviceOnly DEF DeleteRule, Followed, Typed, Steps
<1>5. ASSUME ListRows(r) PROVE Followed'
  <2>1. step[r] = "list" /\ step' = [step EXCEPT ![r] = "truncate"]
        /\ UNCHANGED <<blocked, rules, mac>>
    BY <1>5 DEF ListRows
  <2>2. Typed' /\ FollowsSteps(r)'
    BY <2>1 DEF Followed, Typed, Steps, FollowsSteps, BlockedRules
  <2> QED
    BY <2>1, <2>2, OwnDeviceOnly DEF Steps
<1>6. ASSUME WriteScript(r) PROVE Followed'
  <2>1. step[r] = "write" /\ step' = [step EXCEPT ![r] = "idle"]
        /\ UNCHANGED <<blocked, rules, mac>>
    BY <1>6 DEF WriteScript, Written
  <2>2. Typed' /\ FollowsSteps(r)' /\ rules'[mac[r]] = BlockedRules(mac[r])'
    BY <2>1 DEF Followed, Typed, Steps, FollowsSteps, BlockedRules
  <2> QED
    BY <2>1, <2>2, OwnDeviceOnly DEF Steps
<1>7. ASSUME Truncate(r) PROVE Followed'
  <2>1. step[r] = "truncate" /\ step' = [step EXCEPT ![r] = "write"]
        /\ UNCHANGED <<blocked, rules, mac>>
    BY <1>7 DEF Truncate
  <2>2. Typed' /\ FollowsSteps(r)'
    BY <2>1 DEF Followed, Typed, Steps, FollowsSteps, BlockedRules
  <2> QED
    BY <2>1, <2>2, OwnDeviceOnly DEF Steps
<1> QED
  BY <1>1, <1>2, <1>3, <1>4, <1>5, <1>6, <1>7

LEMMA StutterFollows == Followed /\ UNCHANGED vars => Followed'
BY DEF vars, Followed, Typed, OneRequestPerDevice, FollowsSteps, RulesMatch, BlockedRules, InFlight

LEMMA MayStays == [Next]_vars => may' = may
BY DEF Next, vars, StartBlock, StartUnblock, InsertRule, DeleteRule, ListRows, Truncate,
       WriteScript, WriteFails, Written, ReloadFirewall, Reboot

LEMMA InitFollowed == Init => Followed
BY DEF Init, Followed, Typed, Steps, OneRequestPerDevice, FollowsSteps, RulesMatch, BlockedRules

\* Requests for different devices never disturb each other's rule, for any
\* number of devices and of requests in flight.
THEOREM RulesAlwaysFollowRows == Spec => []RulesFollowRows
<1>1. Followed /\ may \subseteq {"overlap"} /\ [Next]_vars => Followed'
  <2> SUFFICES ASSUME Followed, may \subseteq {"overlap"}, [Next]_vars PROVE Followed'
    OBVIOUS
  <2>1. ~ReloadFirewall /\ ~Reboot /\ \A r \in Requests : ~WriteFails(r)
    BY DEF ReloadFirewall, Reboot, MayReload, WriteFails
  <2> QED
    BY <2>1, RequestsFollow, StutterFollows DEF Next
<1>2. IInv /\ [Next]_vars => IInv'
  BY <1>1, MayStays DEF IInv
<1>3. IInv => RulesFollowRows
  BY DEF IInv, Followed, RulesFollowRows
<1>4. Init => IInv
  BY InitFollowed DEF IInv
<1> QED
  BY <1>2, <1>3, <1>4, PTL DEF Spec

-----------------------------------------------------------------------------
(* Requests one after the other.  What one is about to write is the table, *)
(* as nobody else has changed it since it was read, and the script it has  *)
(* truncated is still empty; with nothing failing either, the script is    *)
(* the table whenever no request is in flight, so a reload puts back the   *)
(* very rules that were there.                                             *)

Serial ==
  /\ step \in [Requests -> Steps] /\ listed \in [Requests -> SUBSET MACs]
  /\ \A q, r \in Requests : step[q] # "idle" /\ step[r] # "idle" => q = r
  /\ \A r \in Requests : step[r] \in {"truncate", "write"} => listed[r] = blocked
  /\ \A r \in Requests : step[r] = "write" => script = {}
  /\ blocked \subseteq MACs

SerialInv == "overlap" \notin may => Serial

Calm == Followed /\ Serial /\ (Idle => script = blocked)

CalmInv == may \subseteq {"reload"} => Calm

LEMMA SerialStep == "overlap" \notin may /\ Serial /\ [Next]_vars => Serial'
<1> SUFFICES ASSUME "overlap" \notin may, Serial, [Next]_vars PROVE Serial'
  OBVIOUS
<1> USE DEF Serial, Go, Steps
<1>1. ASSUME NEW r \in Requests, NEW m \in MACs, StartBlock(r, m) PROVE Serial'
  BY <1>1 DEF StartBlock, MayStart, Idle
<1>2. ASSUME NEW r \in Requests, NEW m \in MACs, StartUnblock(r, m) PROVE Serial'
  BY <1>2 DEF StartUnblock, MayStart, Idle
<1>3. ASSUME NEW r \in Requests, InsertRule(r) \/ DeleteRule(r) PROVE Serial'
  BY <1>3 DEF InsertRule, DeleteRule
<1>4. ASSUME NEW r \in Requests, ListRows(r) PROVE Serial'
  BY <1>4 DEF ListRows
<1>5. ASSUME NEW r \in Requests, Truncate(r) \/ WriteScript(r) \/ WriteFails(r) PROVE Serial'
  BY <1>5 DEF Truncate, WriteScript, WriteFails, Written
<1>6. CASE ReloadFirewall \/ Reboot
  BY <1>6 DEF ReloadFirewall, Reboot
<1>7. CASE UNCHANGED vars
  BY <1>7 DEF vars
<1> QED BY <1>1, <1>2, <1>3, <1>4, <1>5, <1>6, <1>7 DEF Next

LEMMA InitSerial == Init => Serial
BY DEF Init, Serial, Steps

\* Requests one after the other: a write that succeeds leaves the whole table in the
\* script, and no step gives it a device too many, whatever failed before
\* (device_blocks.go 68-85).
THEOREM ScriptAlwaysHeals == Spec => ScriptHeals
<1>1. Init => SerialInv
  BY InitSerial DEF SerialInv
<1>2. SerialInv /\ [Next]_vars => SerialInv'
  BY SerialStep, MayStays DEF SerialInv
<1>3. ASSUME Serial, NEW r \in Requests, WriteScript(r) PROVE script' = blocked'
  BY <1>3 DEF WriteScript, Written, Serial, Go
<1>4. ASSUME Serial, Next, script' # script PROVE script' \subseteq blocked'
  <2>1. PICK r \in Requests : Truncate(r) \/ WriteScript(r) \/ WriteFails(r)
    BY <1>4 DEF Next, StartBlock, StartUnblock, InsertRule, DeleteRule, ListRows, ReloadFirewall,
                Reboot
  <2>2. CASE Truncate(r)
    BY <1>4, <2>2 DEF Truncate
  <2>3. CASE WriteScript(r)
    BY <1>3, <1>4, <2>3
  <2>4. CASE WriteFails(r)
    BY <1>4, <2>4 DEF WriteFails, Written, Serial, Go
  <2> QED BY <2>1, <2>2, <2>3, <2>4
<1>5. SerialInv /\ [Next]_vars =>
        [ "overlap" \notin may =>
            /\ \A r \in Requests : WriteScript(r) => script' = blocked'
            /\ script' # script => script' \subseteq blocked' ]_vars
  BY <1>3, <1>4 DEF SerialInv
<1> QED BY <1>1, <1>2, <1>5, PTL DEF Spec, ScriptHeals

\* With one click at a time and nothing failing, the table, the kernel and the script
\* agree whenever no request is in flight, through reloads and reboots.
THEOREM InSyncAlwaysWhenIdle == Spec => []InSyncWhenIdle
<1>1. Init => CalmInv
  BY InitFollowed, InitSerial DEF Init, CalmInv, Calm
<1>2. ASSUME Calm, may \subseteq {"reload"}, [Next]_vars PROVE Calm'
  <2>1. Serial'
    BY <1>2, SerialStep DEF Calm
  <2>2. ASSUME NEW r \in Requests,
               \/ \E m \in MACs : StartBlock(r, m) \/ StartUnblock(r, m)
               \/ InsertRule(r) \/ DeleteRule(r) \/ ListRows(r) \/ Truncate(r)
        PROVE  ~Idle'
    BY <1>2, <2>2 DEF StartBlock, StartUnblock, InsertRule, DeleteRule, ListRows, Truncate, Go,
                      Idle, Calm, Serial
  <2>3. ASSUME NEW r \in Requests, WriteScript(r) PROVE script' = blocked'
    BY <1>2, <2>3 DEF WriteScript, Written, Calm, Serial, Go
  <2>4. ASSUME NEW r \in Requests,
               \/ \E m \in MACs : StartBlock(r, m) \/ StartUnblock(r, m)
               \/ InsertRule(r) \/ DeleteRule(r) \/ ListRows(r) \/ Truncate(r) \/ WriteScript(r)
        PROVE  Calm'
    BY <1>2, <2>1, <2>2, <2>3, <2>4, RequestsFollow DEF Calm
  <2>5. CASE ReloadFirewall \/ Reboot
    <3>1. Idle /\ script = blocked /\ Followed
      BY <1>2, <2>5 DEF ReloadFirewall, Reboot, MayReload, Calm
    <3>2. rules' = rules
      <4>1. \A m \in MACs : ~InFlight(m)
        BY <3>1 DEF Idle, InFlight
      <4>2. rules \in [MACs -> Nat] /\ \A m \in MACs : rules[m] = BlockedRules(m)
        BY <3>1, <4>1 DEF Followed, Typed, RulesMatch
      <4> QED BY <2>5, <3>1, <4>2 DEF ReloadFirewall, Reboot, BlockedRules
    <3>3. step' = step /\ UNCHANGED <<blocked, script, mac>>
      BY <2>5, <3>1 DEF ReloadFirewall, Reboot, Idle, Followed, Typed
    <3>4. Followed'
      BY <3>1, <3>2, <3>3
         DEF Followed, Typed, OneRequestPerDevice, FollowsSteps, RulesMatch, BlockedRules, InFlight
    <3> QED BY <2>1, <3>1, <3>3, <3>4 DEF Calm
  <2>6. CASE UNCHANGED vars
    BY <1>2, <2>1, <2>6, StutterFollows DEF vars, Calm, Idle
  <2>7. \A r \in Requests : ~WriteFails(r)
    BY <1>2 DEF WriteFails
  <2> QED BY <1>2, <2>4, <2>5, <2>6, <2>7 DEF Next
<1>3. CalmInv /\ [Next]_vars => CalmInv'
  BY <1>2, MayStays DEF CalmInv
<1>4. CalmInv => InSyncWhenIdle
  BY DEF CalmInv, Calm, InSyncWhenIdle, Followed, RulesMatch, Idle, InFlight
<1> QED BY <1>1, <1>3, <1>4, PTL DEF Spec

-----------------------------------------------------------------------------
(* Counting places.                                                        *)

LEMMA UpTo ==
  ASSUME NEW N \in Nat, NEW S, 0 \in S, \A n \in 1 .. N : n - 1 \in S => n \in S
  PROVE  0 .. N \subseteq S
<1> SUFFICES ASSUME (0 .. N) \ S # {} PROVE FALSE
  OBVIOUS
<1> DEFINE T == (0 .. N) \ S
<1>1. T # {} /\ T \subseteq Nat
  OBVIOUS
<1> HIDE DEF T
<1>2. \E x \in T : \A y \in T : <<y, x>> \notin OpToRel(<, Nat)
  BY <1>1, NatLessThanWellFounded, WFMin
<1>3. PICK x \in T : \A y \in T : ~(y < x)
  BY <1>1, <1>2 DEF OpToRel
<1>4. x \in 1 .. N /\ x - 1 \in Nat /\ x - 1 < x
  BY DEF T
<1>5. x - 1 \in T
  BY <1>4 DEF T
<1> QED BY <1>3, <1>4, <1>5

Ahead(places, i) == {j \in places : j < i}

LEMMA AheadFinite ==
  ASSUME NEW S, IsFiniteSet(S), NEW i
  PROVE  IsFiniteSet(Ahead(S, i)) /\ Before(S, i) = Cardinality(Ahead(S, i)) /\ Before(S, i) \in Nat
<1>1. Ahead(S, i) \subseteq S /\ Before(S, i) = Cardinality(Ahead(S, i))
  BY DEF Ahead, Before
<1> QED BY <1>1, FS_Subset, FS_CardinalityType

\* Of two places the later one has more before it.
LEMMA BeforeGrows ==
  ASSUME NEW S \in SUBSET Nat, IsFiniteSet(S), NEW i \in S, NEW j \in S, i < j
  PROVE  Before(S, i) < Before(S, j)
<1>0. \A x \in S : x \in Nat
  OBVIOUS
<1>1. Ahead(S, i) \subseteq Ahead(S, j) /\ i \in Ahead(S, j) /\ i \notin Ahead(S, i)
  <2>1. \A x, y \in S : x \in Ahead(S, y) <=> x < y
    BY DEF Ahead
  <2>2. \A y \in S : Ahead(S, y) \subseteq S
    BY DEF Ahead
  <2>3. ASSUME NEW x \in Ahead(S, i) PROVE x \in Ahead(S, j)
    <3>1. x \in S /\ x < i
      BY <2>1, <2>2
    <3>2. x < j
      BY <1>0, <3>1
    <3> QED BY <2>1, <3>1, <3>2
  <2>4. ~(i < i)
    BY <1>0
  <2> QED BY <2>1, <2>3, <2>4
<1>2. Ahead(S, i) # Ahead(S, j)
  BY <1>1
<1>3. Cardinality(Ahead(S, i)) <= Cardinality(Ahead(S, j))
      /\ Cardinality(Ahead(S, i)) # Cardinality(Ahead(S, j))
  BY <1>1, <1>2, AheadFinite, FS_Subset
<1> QED BY <1>3, AheadFinite

LEMMA Places ==
  ASSUME NEW S \in SUBSET Nat, IsFiniteSet(S)
  PROVE  /\ Cardinality(S) \in Nat
         /\ \A i \in S : Before(S, i) \in Nat /\ Before(S, i) < Cardinality(S)
         /\ \A i, j \in S : Before(S, i) = Before(S, j) => i = j
         /\ \A k \in 1 .. Cardinality(S) : \E i \in S : Before(S, i) = k - 1
<1>0. Cardinality(S) \in Nat /\ \A i : Before(S, i) \in Nat
  BY AheadFinite, FS_CardinalityType
<1>1. ASSUME NEW i \in S PROVE Before(S, i) < Cardinality(S)
  <2>1. Ahead(S, i) \subseteq S /\ i \notin Ahead(S, i)
    BY DEF Ahead
  <2>2. Cardinality(Ahead(S, i)) <= Cardinality(S) /\ Cardinality(Ahead(S, i)) # Cardinality(S)
    BY <2>1, FS_Subset
  <2> QED BY <1>0, <2>2, AheadFinite
<1>2. ASSUME NEW i \in S, NEW j \in S, Before(S, i) = Before(S, j)
      PROVE  i = j
  <2>1. ~(i < j) /\ ~(j < i)
    BY <1>0, <1>2, BeforeGrows
  <2> QED BY <2>1
<1>3. ASSUME NEW T \in SUBSET S, S \ T # {}
      PROVE  \E i \in S \ T : \A j \in S \ T : ~(j < i)
  <2>1. \E i \in S \ T : \A j \in S \ T : <<j, i>> \notin OpToRel(<, Nat)
    BY <1>3, NatLessThanWellFounded, WFMin
  <2> QED BY <2>1 DEF OpToRel
<1>4. \A k \in 1 .. Cardinality(S) : \E i \in S : Before(S, i) = k - 1
  <2> DEFINE N == Cardinality(S)
             Taken == {k \in 0 .. N : k = 0 \/ \E i \in S : Before(S, i) = k - 1}
  <2>1. 0 \in Taken /\ N \in Nat
    BY <1>0
  <2>2. ASSUME NEW k \in 1 .. N, k - 1 \in Taken PROVE k \in Taken
    <3>1. CASE k = 1
      <4>1. S # {}
        <5>1. N # 0
          BY <1>0, <3>1
        <5> QED BY <5>1, FS_EmptySet
      <4>2. PICK i \in S : \A j \in S : ~(j < i)
        BY <1>3, <4>1
      <4>3. Ahead(S, i) = {}
        BY <4>2 DEF Ahead
      <4>4. Before(S, i) = k - 1
        BY <3>1, <4>3, AheadFinite, FS_EmptySet
      <4> QED BY <4>4
    <3>2. CASE k # 1
      <4>1. PICK i \in S : Before(S, i) = k - 2
        BY <2>2, <3>2
      <4> DEFINE T == Ahead(S, i) \cup {i}
      <4>2. T \subseteq S /\ IsFiniteSet(T) /\ Cardinality(T) = k - 1
        <5>1. i \notin Ahead(S, i) /\ Ahead(S, i) \subseteq S
          BY DEF Ahead
        <5>2. IsFiniteSet(Ahead(S, i)) /\ Cardinality(Ahead(S, i)) = k - 2
          BY <4>1, AheadFinite
        <5> QED BY <5>1, <5>2, FS_AddElement
      <4>3. S \ T # {}
        BY <4>2
      <4>4. PICK j \in S \ T : \A x \in S \ T : ~(x < j)
        BY <1>3, <4>2, <4>3
      <4>5. Ahead(S, j) = T
        <5>1. ASSUME NEW x \in S, x < j PROVE x \in T
          BY <4>4, <5>1
        <5>2. i < j
          BY <4>4 DEF Ahead
        <5>3. ASSUME NEW x \in T PROVE x \in S /\ x < j
          BY <5>2 DEF Ahead
        <5> HIDE DEF T
        <5> QED BY <4>2, <5>1, <5>3 DEF Ahead
      <4>6. Before(S, j) = k - 1
        BY <4>2, <4>5, AheadFinite
      <4> QED BY <4>4, <4>6
    <3> QED BY <3>1, <3>2
  <2> HIDE DEF Taken, N
  <2>3. 0 .. N \subseteq Taken
    BY <2>1, <2>2, UpTo
  <2> QED BY <2>1, <2>3 DEF Taken, N
<1> QED BY <1>0, <1>1, <1>2, <1>4

LEMMA NthOf ==
  ASSUME NEW S \in SUBSET Nat, IsFiniteSet(S)
  PROVE  /\ \A k \in 1 .. Cardinality(S) : Nth(S, k) \in S /\ Before(S, Nth(S, k)) = k - 1
         /\ \A i \in S : \E k \in 1 .. Cardinality(S) : Nth(S, k) = i
<1>1. ASSUME NEW k \in 1 .. Cardinality(S)
      PROVE  Nth(S, k) \in S /\ Before(S, Nth(S, k)) = k - 1
  <2>1. \E i \in S : Before(S, i) = k - 1
    BY Places
  <2> QED BY <2>1 DEF Nth
<1>2. ASSUME NEW i \in S PROVE \E k \in 1 .. Cardinality(S) : Nth(S, k) = i
  <2> DEFINE k == Before(S, i) + 1
  <2>1. k \in 1 .. Cardinality(S) /\ Before(S, i) = k - 1
    BY Places
  <2> HIDE DEF k
  <2>2. Nth(S, k) \in S /\ Before(S, Nth(S, k)) = Before(S, i)
    BY <1>1, <2>1
  <2>3. \A x, y \in S : Before(S, x) = Before(S, y) => x = y
    BY Places
  <2>4. Nth(S, k) = i
    BY <2>2, <2>3
  <2> QED BY <2>1, <2>4
<1> QED BY <1>1, <1>2

-----------------------------------------------------------------------------
(* The rules of a file, and the list of them.                              *)

LineSet == [kind : {"rule", "other", "comment", "text"}, id : Nat]

Ids(ls) == {ls[i].id : i \in Listed(ls)}
Older(ls, n) == {r \in Ids(ls) : r < n}

\* Rules are only added at the end, so the older ones stand first.
Sorted(ls) ==
  /\ ls \in Seq(LineSet)
  /\ \A i, j \in Listed(ls) : i < j => ls[i].id < ls[j].id

LEMMA ListedAre ==
  ASSUME NEW ls \in Seq(LineSet)
  PROVE  /\ Len(ls) \in Nat /\ \A i \in 1 .. Len(ls) : ls[i] \in LineSet
         /\ Commands(ls) = {i \in 1 .. Len(ls) : ls[i].kind \in {"rule", "other"}}
         /\ Listed(ls) = {i \in 1 .. Len(ls) : ls[i].kind = "rule"}
         /\ Commands(ls) \in SUBSET Nat /\ IsFiniteSet(Commands(ls))
         /\ Listed(ls) \in SUBSET Nat /\ IsFiniteSet(Listed(ls))
         /\ Ids(ls) \subseteq Nat
<1>1. Len(ls) \in Nat /\ \A i \in 1 .. Len(ls) : ls[i] \in LineSet
  BY LenProperties, ElementOfSeq
<1>2. /\ Commands(ls) = {i \in 1 .. Len(ls) : ls[i].kind \in {"rule", "other"}}
      /\ Listed(ls) = {i \in 1 .. Len(ls) : ls[i].kind = "rule"}
  BY DEF Commands, Listed, IsIPTables, HasChain
<1>3. IsFiniteSet(1 .. Len(ls)) /\ 1 .. Len(ls) \subseteq Nat
  BY <1>1, FS_Interval
<1>4. Commands(ls) \subseteq 1 .. Len(ls) /\ Listed(ls) \subseteq 1 .. Len(ls)
  BY <1>2
<1>5. IsFiniteSet(Commands(ls)) /\ IsFiniteSet(Listed(ls))
  BY <1>3, <1>4, FS_Subset
<1>6. Ids(ls) \subseteq Nat
  <2>1. ASSUME NEW i \in Listed(ls) PROVE ls[i].id \in Nat
    BY <1>1, <1>4 DEF LineSet
  <2> QED BY <2>1 DEF Ids
<1> QED BY <1>1, <1>2, <1>3, <1>4, <1>5, <1>6

LEMMA OlderFinite ==
  ASSUME NEW ls \in Seq(LineSet), NEW n \in Nat
  PROVE  IsFiniteSet(Older(ls, n)) /\ Cardinality(Older(ls, n)) \in Nat
<1>1. Older(ls, n) \in SUBSET Nat /\ \A r \in Older(ls, n) : r <= n
  BY ListedAre DEF Older
<1> QED BY <1>1, FS_BoundedSetOfNaturals, FS_CardinalityType

\* The rules of a file that are older than one of them are those above it.
LEMMA OlderAbove ==
  ASSUME NEW ls, Sorted(ls), NEW i \in Listed(ls)
  PROVE  Cardinality(Older(ls, ls[i].id)) = Before(Listed(ls), i)
<1> DEFINE A == Ahead(Listed(ls), i)
           f == [j \in A |-> ls[j].id]
<1>0. /\ ls \in Seq(LineSet) /\ \A j, k \in Listed(ls) : j < k => ls[j].id < ls[k].id
      /\ Listed(ls) \in SUBSET Nat /\ IsFiniteSet(Listed(ls))
      /\ \A j \in Listed(ls) : ls[j].id \in Nat /\ ls[j].id \in Ids(ls)
  <2>1. \A j \in Listed(ls) : ls[j].id \in Ids(ls)
    BY DEF Ids
  <2> QED BY <2>1, ListedAre DEF Sorted
<1>1. \A j \in Listed(ls) : ls[j].id < ls[i].id <=> j < i
  <2> SUFFICES ASSUME NEW j \in Listed(ls) PROVE ls[j].id < ls[i].id <=> j < i
    OBVIOUS
  <2>1. CASE j < i
    BY <1>0, <2>1
  <2>2. CASE j = i
    BY <1>0, <2>2
  <2>3. CASE i < j
    <3>1. ls[i].id < ls[j].id
      BY <1>0, <2>3
    <3> QED BY <1>0, <2>3, <3>1
  <2> QED BY <1>0, <2>1, <2>2, <2>3
<1>2. \A j \in A : j \in Listed(ls) /\ j < i
  BY DEF Ahead
<1>3. \A j \in Listed(ls) : j < i => j \in A
  BY DEF Ahead
<1> HIDE DEF A
<1>4. f \in [A -> Older(ls, ls[i].id)]
  BY <1>0, <1>1, <1>2 DEF Older
<1>5. ASSUME NEW r \in Older(ls, ls[i].id) PROVE \E j \in A : f[j] = r
  <2>1. PICK j \in Listed(ls) : r = ls[j].id
    BY DEF Older, Ids
  <2>2. r < ls[i].id
    BY DEF Older
  <2>3. j \in A
    BY <1>1, <1>3, <2>1, <2>2
  <2> QED BY <2>1, <2>3
<1>6. ASSUME NEW j \in A, NEW k \in A, f[j] = f[k] PROVE j = k
  <2>1. ls[j].id = ls[k].id /\ j \in Listed(ls) /\ k \in Listed(ls)
    BY <1>2, <1>6
  <2>2. ~(j < k) /\ ~(k < j)
    BY <1>0, <2>1
  <2> QED BY <1>0, <2>1, <2>2
<1> HIDE DEF f
<1>7. f \in Bijection(A, Older(ls, ls[i].id))
  BY <1>4, <1>5, <1>6 DEF Bijection, Injection, Surjection, IsInjective
<1>8. IsFiniteSet(A)
  BY <1>0, AheadFinite DEF A
<1>9. Cardinality(Older(ls, ls[i].id)) = Cardinality(A)
  BY <1>7, <1>8, FS_Bijection DEF ExistsBijection
<1> QED BY <1>0, <1>9, AheadFinite DEF A

LEMMA ListIs ==
  ASSUME NEW ls \in Seq(LineSet)
  PROVE  /\ GetCustomRules(ls) \in Seq(Nat) /\ Rules(ls) = Ids(ls)
         /\ Len(GetCustomRules(ls)) = Cardinality(Listed(ls))
         /\ \A k \in 1 .. Len(GetCustomRules(ls)) :
              /\ Nth(Listed(ls), k) \in Listed(ls) /\ Before(Listed(ls), Nth(Listed(ls), k)) = k - 1
              /\ GetCustomRules(ls)[k] = ls[Nth(Listed(ls), k)].id
              /\ GetCustomRules(ls)[k] \in Ids(ls)
<1> DEFINE n == Cardinality(Listed(ls))
           g == GetCustomRules(ls)
<1>1. ls \in Seq(LineSet) /\ Listed(ls) \in SUBSET Nat /\ IsFiniteSet(Listed(ls)) /\ Ids(ls) \subseteq Nat
  BY ListedAre
<1>2. n \in Nat
  BY <1>1, FS_CardinalityType
<1>3. /\ \A k \in 1 .. n : Nth(Listed(ls), k) \in Listed(ls) /\ Before(Listed(ls), Nth(Listed(ls), k)) = k - 1
      /\ \A i \in Listed(ls) : \E k \in 1 .. n : Nth(Listed(ls), k) = i
  BY <1>1, NthOf
<1>4. g = [k \in 1 .. n |-> ls[Nth(Listed(ls), k)].id]
  BY DEF GetCustomRules
<1> HIDE DEF n, g
<1>5. ASSUME NEW k \in 1 .. n
      PROVE  g[k] = ls[Nth(Listed(ls), k)].id /\ g[k] \in Ids(ls) /\ g[k] \in Nat
  BY <1>1, <1>3, <1>4 DEF Ids
<1>6. g \in Seq(Nat) /\ Len(g) = n
  BY <1>2, <1>4, <1>5
<1>8. ToSet(g) = {g[k] : k \in 1 .. n}
  BY <1>4 DEF ToSet
<1>9. Rules(ls) = Ids(ls)
  <2>1. ASSUME NEW r \in Ids(ls) PROVE r \in ToSet(g)
    <3>1. PICK i \in Listed(ls) : r = ls[i].id
      BY DEF Ids
    <3>2. PICK k \in 1 .. n : Nth(Listed(ls), k) = i
      BY <1>3
    <3> QED BY <1>5, <1>8, <3>1, <3>2
  <2>2. ToSet(g) \subseteq Ids(ls)
    BY <1>5, <1>8
  <2> QED BY <2>1, <2>2 DEF Rules, g
<1> QED BY <1>3, <1>5, <1>6, <1>9 DEF g, n

LEMMA ListOf ==
  ASSUME NEW ls, Sorted(ls), NEW k \in 1 .. Len(GetCustomRules(ls))
  PROVE  GetCustomRules(ls)[k] \in Ids(ls) /\ Cardinality(Older(ls, GetCustomRules(ls)[k])) = k - 1
<1>1. ls \in Seq(LineSet)
  BY DEF Sorted
<1>2. /\ Nth(Listed(ls), k) \in Listed(ls) /\ Before(Listed(ls), Nth(Listed(ls), k)) = k - 1
      /\ GetCustomRules(ls)[k] = ls[Nth(Listed(ls), k)].id /\ GetCustomRules(ls)[k] \in Ids(ls)
  BY <1>1, ListIs
<1> QED BY <1>2, OlderAbove

-----------------------------------------------------------------------------
(* What the operations do to the rules of the file.                        *)

\* A file whose rules are some of another's, in the same order.
LEMMA PartOf ==
  ASSUME NEW ls, Sorted(ls), NEW ms \in Seq(LineSet), NEW f \in [Listed(ms) -> Listed(ls)],
         \A i \in Listed(ms) : ms[i].id = ls[f[i]].id,
         \A i, j \in Listed(ms) : i < j => f[i] < f[j]
  PROVE  Sorted(ms) /\ Ids(ms) = {ls[f[i]].id : i \in Listed(ms)} /\ Ids(ms) \subseteq Ids(ls)
<1>1. \A i, j \in Listed(ls) : i < j => ls[i].id < ls[j].id
  BY DEF Sorted
<1>2. ASSUME NEW i \in Listed(ms), NEW j \in Listed(ms), i < j PROVE ms[i].id < ms[j].id
  <2>1. f[i] \in Listed(ls) /\ f[j] \in Listed(ls) /\ f[i] < f[j]
    BY <1>2
  <2> QED BY <1>1, <2>1
<1>3. Ids(ms) = {ls[f[i]].id : i \in Listed(ms)}
  BY DEF Ids
<1>4. Ids(ms) \subseteq Ids(ls)
  BY <1>3 DEF Ids
<1> QED BY <1>2, <1>3, <1>4 DEF Sorted

LEMMA RemoveAtIs ==
  ASSUME NEW ls \in Seq(LineSet), NEW i \in 1 .. Len(ls)
  PROVE  /\ RemoveAt(ls, i) \in Seq(LineSet) /\ Len(RemoveAt(ls, i)) = Len(ls) - 1
         /\ \A j \in 1 .. Len(ls) - 1 : RemoveAt(ls, i)[j] = IF j < i THEN ls[j] ELSE ls[j + 1]
<1> DEFINE a == SubSeq(ls, 1, i - 1)
           b == SubSeq(ls, i + 1, Len(ls))
<1>1. Len(ls) \in Nat /\ \A j \in 1 .. Len(ls) : ls[j] \in LineSet
  BY ListedAre
<1>2. a \in Seq(LineSet) /\ Len(a) = i - 1 /\ \A j \in 1 .. i - 1 : a[j] = ls[j]
  <2>1. \A j \in 1 .. i - 1 : ls[j] \in LineSet
    BY <1>1
  <2>2. 1 \in Int /\ i - 1 \in Int
    BY <1>1
  <2>3. /\ a \in Seq(LineSet) /\ Len(a) = IF 1 <= i - 1 THEN (i - 1) - 1 + 1 ELSE 0
        /\ \A j \in 1 .. (i - 1) - 1 + 1 : a[j] = ls[1 + j - 1]
    BY <2>1, <2>2, SubSeqProperties
  <2> HIDE DEF a
  <2>4. Len(a) = i - 1
    BY <1>1, <2>3
  <2>5. ASSUME NEW j \in 1 .. i - 1 PROVE a[j] = ls[j]
    <3>1. j \in 1 .. (i - 1) - 1 + 1 /\ 1 + j - 1 = j
      BY <1>1
    <3> QED BY <2>3, <3>1
  <2> QED BY <2>3, <2>4, <2>5
<1>3. b \in Seq(LineSet) /\ Len(b) = Len(ls) - i /\ \A j \in 1 .. Len(ls) - i : b[j] = ls[i + j]
  <2>1. \A j \in i + 1 .. Len(ls) : ls[j] \in LineSet
    BY <1>1
  <2>2. i + 1 \in Int /\ Len(ls) \in Int
    BY <1>1
  <2>3. /\ b \in Seq(LineSet) /\ Len(b) = IF i + 1 <= Len(ls) THEN Len(ls) - (i + 1) + 1 ELSE 0
        /\ \A j \in 1 .. Len(ls) - (i + 1) + 1 : b[j] = ls[i + 1 + j - 1]
    BY <2>1, <2>2, SubSeqProperties
  <2> HIDE DEF b
  <2>4. Len(b) = Len(ls) - i
    BY <1>1, <2>3
  <2>5. ASSUME NEW j \in 1 .. Len(ls) - i PROVE b[j] = ls[i + j]
    <3>1. j \in 1 .. Len(ls) - (i + 1) + 1 /\ i + 1 + j - 1 = i + j
      BY <1>1
    <3> QED BY <2>3, <3>1
  <2> QED BY <2>3, <2>4, <2>5
<1>4. RemoveAt(ls, i) = a \o b
  BY DEF RemoveAt
<1> HIDE DEF a, b
<1>5. /\ a \o b \in Seq(LineSet) /\ Len(a \o b) = Len(a) + Len(b)
      /\ \A j \in 1 .. Len(a) + Len(b) : (a \o b)[j] = IF j <= Len(a) THEN a[j] ELSE b[j - Len(a)]
  BY <1>2, <1>3, ConcatProperties
<1>6. Len(a) + Len(b) = Len(ls) - 1
  BY <1>1, <1>2, <1>3
<1>7. ASSUME NEW j \in 1 .. Len(ls) - 1
      PROVE  (a \o b)[j] = IF j < i THEN ls[j] ELSE ls[j + 1]
  <2>1. (a \o b)[j] = IF j <= i - 1 THEN a[j] ELSE b[j - (i - 1)]
    BY <1>2, <1>5, <1>6
  <2>2. CASE j < i
    <3>1. j <= i - 1 /\ j \in 1 .. i - 1
      BY <1>1, <2>2
    <3> QED BY <1>2, <2>1, <2>2, <3>1
  <2>3. CASE ~(j < i)
    <3>1. ~(j <= i - 1) /\ j - (i - 1) \in 1 .. Len(ls) - i /\ i + (j - (i - 1)) = j + 1
      BY <1>1, <2>3
    <3> QED BY <1>3, <2>1, <2>3, <3>1
  <2> QED BY <2>2, <2>3
<1> QED BY <1>4, <1>5, <1>6, <1>7

LEMMA Removed ==
  ASSUME NEW ls, Sorted(ls), NEW i \in 1 .. Len(ls)
  PROVE  /\ Sorted(RemoveAt(ls, i))
         /\ Ids(RemoveAt(ls, i)) = {ls[j].id : j \in Listed(ls) \ {i}}
<1> DEFINE ms == RemoveAt(ls, i)
           f == [j \in Listed(ms) |-> IF j < i THEN j ELSE j + 1]
<1>0. ls \in Seq(LineSet) /\ Len(ls) \in Nat /\ Listed(ls) = {j \in 1 .. Len(ls) : ls[j].kind = "rule"}
  BY ListedAre DEF Sorted
<1>1. /\ ms \in Seq(LineSet) /\ Len(ms) = Len(ls) - 1
      /\ \A j \in 1 .. Len(ls) - 1 : ms[j] = IF j < i THEN ls[j] ELSE ls[j + 1]
  BY <1>0, RemoveAtIs
<1> HIDE DEF ms
<1>2. Listed(ms) = {j \in 1 .. Len(ls) - 1 : ms[j].kind = "rule"}
  BY <1>1, ListedAre
<1>3. ASSUME NEW j \in Listed(ms)
      PROVE  /\ j \in 1 .. Len(ls) - 1 /\ f[j] = (IF j < i THEN j ELSE j + 1)
             /\ f[j] \in Listed(ls) \ {i} /\ ms[j] = ls[f[j]]
  <2>1. j \in 1 .. Len(ls) - 1 /\ ms[j].kind = "rule" /\ f[j] = (IF j < i THEN j ELSE j + 1)
    BY <1>2
  <2>2. f[j] \in 1 .. Len(ls) /\ f[j] # i /\ ms[j] = ls[f[j]]
    BY <1>0, <1>1, <2>1
  <2> QED BY <1>0, <2>1, <2>2
<1>4. f \in [Listed(ms) -> Listed(ls)]
  BY <1>3
<1>5. ASSUME NEW j \in Listed(ls) \ {i} PROVE \E k \in Listed(ms) : f[k] = j
  <2> DEFINE k == IF j < i THEN j ELSE j - 1
  <2>1. j \in 1 .. Len(ls) /\ j # i /\ ls[j].kind = "rule"
    BY <1>0
  <2>2. k \in 1 .. Len(ls) - 1 /\ (IF k < i THEN k ELSE k + 1) = j
    BY <1>0, <2>1
  <2> HIDE DEF k
  <2>3. ms[k] = ls[j]
    BY <1>1, <2>2
  <2>4. k \in Listed(ms)
    BY <1>2, <2>1, <2>2, <2>3
  <2> QED BY <2>2, <2>4
<1>6. ASSUME NEW j \in Listed(ms), NEW k \in Listed(ms), j < k PROVE f[j] < f[k]
  BY <1>0, <1>3, <1>6
<1> HIDE DEF f
<1>7. Sorted(ms) /\ Ids(ms) = {ls[f[j]].id : j \in Listed(ms)}
  <2>1. \A j \in Listed(ms) : ms[j].id = ls[f[j]].id
    BY <1>3
  <2>2. \A j, k \in Listed(ms) : j < k => f[j] < f[k]
    BY <1>6
  <2> QED BY SMTT(20), <1>1, <1>4, <2>1, <2>2, PartOf
<1>8. {ls[f[j]].id : j \in Listed(ms)} = {ls[j].id : j \in Listed(ls) \ {i}}
  BY <1>3, <1>5
<1> QED BY <1>7, <1>8 DEF ms

\* The raw editor adds no rule.
LEMMA Inserted ==
  ASSUME NEW ls, Sorted(ls), NEW i \in 1 .. Len(ls), NEW l \in LineSet, l.kind # "rule"
  PROVE  Sorted(InsertAt(ls, i + 1, l)) /\ Ids(InsertAt(ls, i + 1, l)) \subseteq Ids(ls)
<1> DEFINE a == SubSeq(ls, 1, i)
           b == SubSeq(ls, i + 1, Len(ls))
           ms == InsertAt(ls, i + 1, l)
           f == [j \in Listed(ms) |-> IF j <= i THEN j ELSE j - 1]
<1>0. /\ ls \in Seq(LineSet) /\ Len(ls) \in Nat /\ \A j \in 1 .. Len(ls) : ls[j] \in LineSet
      /\ Listed(ls) = {j \in 1 .. Len(ls) : ls[j].kind = "rule"}
  BY ListedAre DEF Sorted
<1>1. a \in Seq(LineSet) /\ Len(a) = i /\ \A j \in 1 .. i : a[j] = ls[j]
  <2>1. \A j \in 1 .. i : ls[j] \in LineSet
    BY <1>0
  <2>2. /\ a \in Seq(LineSet) /\ Len(a) = IF 1 <= i THEN i - 1 + 1 ELSE 0
        /\ \A j \in 1 .. i - 1 + 1 : a[j] = ls[1 + j - 1]
    BY <1>0, <2>1, SubSeqProperties
  <2> HIDE DEF a
  <2> QED BY <1>0, <2>2
<1>2. b \in Seq(LineSet) /\ Len(b) = Len(ls) - i /\ \A j \in 1 .. Len(ls) - i : b[j] = ls[i + j]
  <2>1. \A j \in i + 1 .. Len(ls) : ls[j] \in LineSet
    BY <1>0
  <2>2. i + 1 \in Int /\ Len(ls) \in Int
    BY <1>0
  <2>3. /\ b \in Seq(LineSet) /\ Len(b) = IF i + 1 <= Len(ls) THEN Len(ls) - (i + 1) + 1 ELSE 0
        /\ \A j \in 1 .. Len(ls) - (i + 1) + 1 : b[j] = ls[i + 1 + j - 1]
    BY <2>1, <2>2, SubSeqProperties
  <2> HIDE DEF b
  <2>4. Len(b) = Len(ls) - i
    BY <1>0, <2>3
  <2>5. ASSUME NEW j \in 1 .. Len(ls) - i PROVE b[j] = ls[i + j]
    <3>1. j \in 1 .. Len(ls) - (i + 1) + 1 /\ i + 1 + j - 1 = i + j
      BY <1>0
    <3> QED BY <2>3, <3>1
  <2> QED BY <2>3, <2>4, <2>5
<1>3. ms = (a \o <<l>>) \o b
  <2>1. (i + 1) - 1 = i
    BY <1>0
  <2> QED BY <2>1 DEF InsertAt
<1> HIDE DEF a, b, ms
<1>4. /\ a \o <<l>> \in Seq(LineSet) /\ Len(a \o <<l>>) = i + 1
      /\ \A j \in 1 .. i + 1 : (a \o <<l>>)[j] = IF j <= i THEN ls[j] ELSE l
  <2>1. a \o <<l>> = Append(a, l)
    BY <1>1, AppendIsConcat
  <2> QED BY <1>0, <1>1, <2>1, AppendProperties
<1>5. /\ ms \in Seq(LineSet) /\ Len(ms) = Len(ls) + 1
      /\ \A j \in 1 .. Len(ls) + 1 :
           ms[j] = IF j <= i THEN ls[j] ELSE IF j = i + 1 THEN l ELSE ls[j - 1]
  <2> DEFINE d == a \o <<l>>
  <2>1. d \in Seq(LineSet) /\ Len(d) = i + 1 /\ \A j \in 1 .. i + 1 : d[j] = IF j <= i THEN ls[j] ELSE l
    BY <1>4
  <2>2. ms = d \o b
    BY <1>3
  <2> HIDE DEF d
  <2>3. /\ ms \in Seq(LineSet) /\ Len(ms) = Len(d) + Len(b)
        /\ \A j \in 1 .. Len(d) + Len(b) : ms[j] = IF j <= Len(d) THEN d[j] ELSE b[j - Len(d)]
    BY <1>2, <2>1, <2>2, ConcatProperties
  <2>4. Len(d) + Len(b) = Len(ls) + 1
    BY <1>0, <1>2, <2>1
  <2>5. ASSUME NEW j \in 1 .. Len(ls) + 1
        PROVE  ms[j] = IF j <= i THEN ls[j] ELSE IF j = i + 1 THEN l ELSE ls[j - 1]
    <3>1. ms[j] = IF j <= i + 1 THEN d[j] ELSE b[j - (i + 1)]
      BY <2>1, <2>3, <2>4
    <3>2. CASE j <= i + 1
      <4>1. j \in 1 .. i + 1 /\ (~(j <= i) => j = i + 1)
        BY <1>0, <3>2
      <4> QED BY <2>1, <3>1, <3>2, <4>1
    <3>3. CASE ~(j <= i + 1)
      <4>1. j - (i + 1) \in 1 .. Len(ls) - i /\ i + (j - (i + 1)) = j - 1 /\ ~(j <= i) /\ j # i + 1
        BY <1>0, <3>3
      <4> QED BY <1>2, <3>1, <3>3, <4>1
    <3> QED BY <3>2, <3>3
  <2> QED BY <2>3, <2>4, <2>5
<1>6. Listed(ms) = {j \in 1 .. Len(ls) + 1 : ms[j].kind = "rule"}
  BY <1>5, ListedAre
<1>7. ASSUME NEW j \in Listed(ms)
      PROVE  f[j] = (IF j <= i THEN j ELSE j - 1) /\ f[j] \in Listed(ls) /\ ms[j] = ls[f[j]] /\ j # i + 1
             /\ j \in Nat
  <2>1. j \in 1 .. Len(ls) + 1 /\ ms[j].kind = "rule" /\ f[j] = (IF j <= i THEN j ELSE j - 1)
    BY <1>6
  <2>2. j # i + 1
    BY <1>0, <1>5, <2>1
  <2>3. f[j] \in 1 .. Len(ls) /\ ms[j] = ls[f[j]]
    BY <1>0, <1>5, <2>1, <2>2
  <2> QED BY <1>0, <2>1, <2>2, <2>3
<1>8. ASSUME NEW j \in Listed(ms), NEW k \in Listed(ms), j < k PROVE f[j] < f[k]
  BY <1>0, <1>7, <1>8
<1>9. f \in [Listed(ms) -> Listed(ls)]
  BY <1>7
<1> HIDE DEF f
<1>10. Sorted(ms) /\ Ids(ms) \subseteq Ids(ls)
  <2>1. \A j \in Listed(ms) : ms[j].id = ls[f[j]].id
    BY <1>7
  <2>2. \A j, k \in Listed(ms) : j < k => f[j] < f[k]
    BY <1>8
  <2> QED BY SMTT(20), <1>5, <1>9, <2>1, <2>2, PartOf
<1> QED BY <1>10 DEF ms

\* A line at the end, and a rule newer than all there are.
LEMMA Appended ==
  ASSUME NEW ls, Sorted(ls), NEW l \in LineSet,
         l.kind = "rule" => \A r \in Ids(ls) : r < l.id
  PROVE  /\ Sorted(Append(ls, l))
         /\ \A r \in Ids(Append(ls, l)) : r \in Ids(ls) \/ (l.kind = "rule" /\ r = l.id)
<1> DEFINE ms == Append(ls, l)
           n == Len(ls)
<1>0. /\ ls \in Seq(LineSet) /\ n \in Nat /\ Listed(ls) = {j \in 1 .. n : ls[j].kind = "rule"}
      /\ \A i, j \in Listed(ls) : i < j => ls[i].id < ls[j].id
      /\ \A j \in Listed(ls) : ls[j].id \in Ids(ls)
  <2>1. \A j \in Listed(ls) : ls[j].id \in Ids(ls)
    BY DEF Ids
  <2> QED BY <2>1, ListedAre DEF Sorted
<1>1. ms \in Seq(LineSet) /\ Len(ms) = n + 1 /\ (\A j \in 1 .. n : ms[j] = ls[j]) /\ ms[n + 1] = l
  BY <1>0, AppendProperties
<1> HIDE DEF ms
<1>2. Listed(ms) = {j \in 1 .. n + 1 : ms[j].kind = "rule"}
  BY <1>1, ListedAre
<1> HIDE DEF n
<1>3. ASSUME NEW j \in Listed(ms)
      PROVE  \/ j \in Listed(ls) /\ ms[j] = ls[j] /\ j \in 1 .. n
             \/ j = n + 1 /\ ms[j] = l /\ l.kind = "rule"
  <2>1. j \in 1 .. n + 1 /\ ms[j].kind = "rule"
    BY <1>2
  <2>2. CASE j = n + 1
    BY <1>1, <2>1, <2>2
  <2>3. CASE j # n + 1
    <3>1. j \in 1 .. n
      BY <1>0, <2>1, <2>3
    <3> QED BY <1>0, <1>1, <2>1, <3>1
  <2> QED BY <2>2, <2>3
<1>4. ASSUME NEW i \in Listed(ms), NEW j \in Listed(ms), i < j PROVE ms[i].id < ms[j].id
  <2>1. i \in Listed(ls) /\ ms[i] = ls[i] /\ i \in 1 .. n
    <3>1. i # n + 1
      <4>1. j \in 1 .. n + 1 /\ i \in 1 .. n + 1
        BY <1>2
      <4> QED BY <1>0, <1>4, <4>1
    <3> QED BY <1>3, <3>1
  <2>2. CASE j \in Listed(ls) /\ ms[j] = ls[j]
    BY <1>0, <1>4, <2>1, <2>2
  <2>3. CASE ms[j] = l /\ l.kind = "rule"
    BY <1>0, <2>1, <2>3
  <2> QED BY <1>3, <2>2, <2>3
<1>5. ASSUME NEW r \in Ids(ms) PROVE r \in Ids(ls) \/ (l.kind = "rule" /\ r = l.id)
  <2>1. PICK j \in Listed(ms) : r = ms[j].id
    BY DEF Ids
  <2> QED BY <1>0, <1>3, <2>1
<1> QED BY <1>1, <1>4, <1>5 DEF Sorted, ms

LEMMA Added ==
  ASSUME NEW ls, Sorted(ls), NEW n \in Nat, \A r \in Ids(ls) : r < n, NEW commented
  PROVE  /\ Sorted(ls \o NewLines(n, commented))
         /\ \A r \in Ids(ls \o NewLines(n, commented)) : r \in Ids(ls) \/ r = n
<1> DEFINE x == L("comment", n)
           y == L("rule", n)
<1>1. ls \in Seq(LineSet) /\ x \in LineSet /\ y \in LineSet /\ x.kind = "comment" /\ y.kind = "rule" /\ y.id = n
  BY DEF Sorted, L, LineSet
<1>2. NewLines(n, commented) = (IF commented THEN <<x>> ELSE <<>>) \o <<y>>
  BY DEF NewLines
<1> HIDE DEF x, y
<1>3. <<x>> \in Seq(LineSet) /\ <<y>> \in Seq(LineSet)
  BY <1>1
<1>4. CASE commented
  <2>1. ls \o NewLines(n, commented) = (ls \o <<x>>) \o <<y>>
    BY <1>1, <1>2, <1>3, <1>4, ConcatAssociative
  <2>2. Sorted(Append(ls, x)) /\ \A r \in Ids(Append(ls, x)) : r \in Ids(ls)
    BY <1>1, Appended
  <2>3. ls \o <<x>> = Append(ls, x) /\ Append(ls, x) \in Seq(LineSet)
    BY <1>1, AppendIsConcat, AppendProperties
  <2> DEFINE ms == Append(ls, x)
  <2>4. ms \o <<y>> = Append(ms, y)
    BY <1>1, <2>3, AppendIsConcat
  <2> HIDE DEF ms
  <2>5. /\ Sorted(Append(ms, y))
        /\ \A r \in Ids(Append(ms, y)) : r \in Ids(ms) \/ r = n
    <3>1. Sorted(ms) /\ \A r \in Ids(ms) : r < n
      BY <2>2 DEF ms
    <3> QED BY <1>1, <3>1, Appended
  <2>6. ls \o NewLines(n, commented) = Append(ms, y)
    BY <2>1, <2>3, <2>4 DEF ms
  <2>7. \A r \in Ids(ms) : r \in Ids(ls)
    BY <2>2 DEF ms
  <2> QED BY <2>5, <2>6, <2>7
<1>5. CASE ~commented
  <2>1. NewLines(n, commented) = <<y>>
    BY <1>2, <1>3, <1>5, ConcatEmptySeq
  <2>2. ls \o NewLines(n, commented) = Append(ls, y)
    BY <1>1, <2>1, AppendIsConcat
  <2>3. Sorted(Append(ls, y)) /\ \A r \in Ids(Append(ls, y)) : r \in Ids(ls) \/ r = n
    BY <1>1, Appended
  <2> QED BY <2>2, <2>3
<1> QED BY <1>4, <1>5

\* The first lines of a file, which is what a failed write leaves.
LEMMA Cut ==
  ASSUME NEW ls, Sorted(ls), NEW n \in 0 .. Len(ls)
  PROVE  Sorted(SubSeq(ls, 1, n)) /\ Ids(SubSeq(ls, 1, n)) \subseteq Ids(ls)
<1> DEFINE ms == SubSeq(ls, 1, n)
           f == [j \in Listed(ms) |-> j]
<1>0. /\ ls \in Seq(LineSet) /\ Len(ls) \in Nat /\ \A j \in 1 .. Len(ls) : ls[j] \in LineSet
      /\ Listed(ls) = {j \in 1 .. Len(ls) : ls[j].kind = "rule"}
  BY ListedAre DEF Sorted
<1>1. ms \in Seq(LineSet) /\ Len(ms) = n /\ \A j \in 1 .. n : ms[j] = ls[j]
  <2>1. \A j \in 1 .. n : ls[j] \in LineSet
    BY <1>0
  <2>2. /\ ms \in Seq(LineSet) /\ Len(ms) = IF 1 <= n THEN n - 1 + 1 ELSE 0
        /\ \A j \in 1 .. n - 1 + 1 : ms[j] = ls[1 + j - 1]
    BY <1>0, <2>1, SubSeqProperties
  <2> HIDE DEF ms
  <2> QED BY <1>0, <2>2
<1> HIDE DEF ms
<1>2. ASSUME NEW j \in Listed(ms) PROVE f[j] = j /\ j \in Listed(ls) /\ ms[j] = ls[j]
  <2>1. j \in 1 .. n /\ ms[j].kind = "rule"
    BY <1>1, ListedAre
  <2> QED BY <1>0, <1>1, <2>1
<1>3. f \in [Listed(ms) -> Listed(ls)]
  BY <1>2
<1> HIDE DEF f
<1>4. Sorted(ms) /\ Ids(ms) \subseteq Ids(ls)
  <2>1. \A j \in Listed(ms) : ms[j].id = ls[f[j]].id
    BY <1>2
  <2>2. \A j, k \in Listed(ms) : j < k => f[j] < f[k]
    BY <1>2
  <2> QED BY SMTT(20), <1>1, <1>3, <2>1, <2>2, PartOf
<1> QED BY <1>4 DEF ms

LEMMA NoLines == Sorted(<<>>) /\ Ids(<<>>) = {} /\ GetCustomRules(<<>>) = <<>>
<1>1. Listed(<<>>) = {}
  BY DEF Listed, Commands
<1>2. GetCustomRules(<<>>) = <<>>
  BY <1>1, FS_EmptySet DEF GetCustomRules
<1> QED BY <1>1, <1>2 DEF Sorted, Ids

\* The file with its #! line only.
LEMMA FirstLine == Sorted(<<Text>>) /\ Ids(<<Text>>) = {}
<1>1. Text \in LineSet /\ Text.kind = "text"
  BY DEF Text, L, LineSet
<1>2. Append(<<>>, Text) = <<Text>>
  OBVIOUS
<1> QED BY <1>1, <1>2, NoLines, Appended

\* A place names one command of the file, or none.
LEMMA RemainingIs ==
  ASSUME NEW ls \in Seq(LineSet), NEW p
  PROVE  /\ Remaining(ls, p) = ls
            \/ \E i \in Commands(ls) : RuleIdx(ls, i) = p /\ Remaining(ls, p) = RemoveAt(ls, i)
         /\ \A i \in Commands(ls) : RuleIdx(ls, i) = p => Remaining(ls, p) = RemoveAt(ls, i)
<1> DEFINE gone == {i \in Commands(ls) : RuleIdx(ls, i) = p}
<1>1. ASSUME NEW i \in gone, NEW j \in gone PROVE i = j
  <2>1. Before(Commands(ls), i) = Before(Commands(ls), j)
    BY DEF RuleIdx
  <2> QED BY <2>1, ListedAre, Places
<1>2. Remaining(ls, p) = IF gone = {} THEN ls ELSE RemoveAt(ls, CHOOSE i \in gone : TRUE)
  BY DEF Remaining
<1>3. \A i \in Commands(ls) : RuleIdx(ls, i) = p => i \in gone
  OBVIOUS
<1>4. \A i \in gone : i \in Commands(ls) /\ RuleIdx(ls, i) = p
  OBVIOUS
<1> HIDE DEF gone
<1>5. ASSUME NEW i \in gone PROVE (CHOOSE j \in gone : TRUE) = i
  BY <1>1
<1>6. \A i \in gone : Remaining(ls, p) = RemoveAt(ls, i)
  BY <1>2, <1>5
<1> QED BY <1>2, <1>3, <1>4, <1>6

LEMMA RemainingType ==
  ASSUME NEW ls \in Seq(LineSet), NEW p
  PROVE  Remaining(ls, p) \in Seq(LineSet)
<1>1. \A i \in Commands(ls) : i \in 1 .. Len(ls)
  BY DEF Commands
<1> QED BY <1>1, RemainingIs, RemoveAtIs

\* Deleting takes rules out of a sorted file and brings none in.
LEMMA Deleted ==
  ASSUME NEW ls, Sorted(ls), NEW p
  PROVE  /\ Sorted(Remaining(ls, p)) /\ Ids(Remaining(ls, p)) \subseteq Ids(ls)
         /\ \A i \in Commands(ls) : RuleIdx(ls, i) = p =>
              Ids(Remaining(ls, p)) = {ls[j].id : j \in Listed(ls) \ {i}}
<1>1. ls \in Seq(LineSet) /\ \A i \in Commands(ls) : i \in 1 .. Len(ls)
  BY DEF Sorted, Commands
<1>2. ASSUME NEW i \in Commands(ls), Remaining(ls, p) = RemoveAt(ls, i)
      PROVE  /\ Sorted(Remaining(ls, p))
             /\ Ids(Remaining(ls, p)) = {ls[j].id : j \in Listed(ls) \ {i}}
  BY <1>1, <1>2, Removed
<1>3. ASSUME NEW i \in Commands(ls), Remaining(ls, p) = RemoveAt(ls, i)
      PROVE  Ids(Remaining(ls, p)) \subseteq Ids(ls)
  <2>1. {ls[j].id : j \in Listed(ls) \ {i}} \subseteq {ls[j].id : j \in Listed(ls)}
    OBVIOUS
  <2>2. Ids(ls) = {ls[j].id : j \in Listed(ls)}
    BY DEF Ids
  <2> QED BY <1>2, <1>3, <2>1, <2>2
<1> QED BY <1>1, <1>2, <1>3, RemainingIs

-----------------------------------------------------------------------------
(* Types, in every environment; and a deletion nobody disturbs.            *)

Jobs ==
  [does : {"add", "delete"}, window : Windows, place : Nat, rule : Nat, commented : BOOLEAN]

RulesTyped ==
  /\ added \in Nat /\ lines \in Seq(LineSet) /\ (~exists => lines = <<>>)
  /\ shown \in [Windows -> Seq(Nat)]
  /\ stage \in [Slots -> Stages]
  /\ job \in [Slots -> Jobs \cup {NoJob}]
  /\ got \in [Slots -> Seq(LineSet)]
  /\ lone \in [Slots -> BOOLEAN]
  /\ \A r \in Slots : stage[r] # "idle" => job[r] \in Jobs
  /\ \A r \in Slots : stage[r] \in {"idle", "sent", "stat"} => got[r] = <<>>
  /\ \A r \in Slots : stage[r] \in {"write", "append"} => exists

Undisturbed == \A r \in Slots : stage[r] = "write" /\ lone[r] => lines = <<>>

LEMMA OverType ==
  ASSUME lines \in Seq(LineSet), NEW text \in Seq(LineSet)
  PROVE  Over(text) \in Seq(LineSet)
<1>1. Len(text) \in Nat /\ Len(lines) \in Nat
  OBVIOUS
<1>2. SubSeq(lines, Len(text) + 1, Len(lines)) \in Seq(LineSet)
  BY <1>1
<1> QED BY <1>2 DEF Over

LEMMA OverNothing ==
  ASSUME lines = <<>>, NEW text \in Seq(LineSet)
  PROVE  Over(text) = text
<1>1. Len(text) \in Nat /\ Len(lines) = 0
  OBVIOUS
<1>2. SubSeq(lines, Len(text) + 1, Len(lines)) = <<>>
  BY <1>1
<1> QED BY <1>2 DEF Over

LEMMA LineTypes ==
  /\ Text \in LineSet /\ <<Text>> \in Seq(LineSet)
  /\ \A n \in Nat, c \in BOOLEAN : NewLines(n, c) \in Seq(LineSet)
<1>1. \A n \in Nat : L("comment", n) \in LineSet /\ L("rule", n) \in LineSet /\ L("text", n) \in LineSet
  BY DEF L, LineSet
<1>2. ASSUME NEW n \in Nat, NEW c \in BOOLEAN PROVE NewLines(n, c) \in Seq(LineSet)
  <2> DEFINE x == L("comment", n)
             y == L("rule", n)
  <2>1. NewLines(n, c) = (IF c THEN <<x>> ELSE <<>>) \o <<y>> /\ x \in LineSet /\ y \in LineSet
    BY <1>1 DEF NewLines
  <2> HIDE DEF x, y
  <2> QED BY <2>1
<1>3. Text \in LineSet
  BY <1>1 DEF Text
<1> QED BY <1>2, <1>3

LEMMA NewTextType ==
  ASSUME RulesTyped, NEW r \in Slots
  PROVE  NewText(r) \in Seq(LineSet)
<1>1. got[r] \in Seq(LineSet)
  BY DEF RulesTyped
<1> QED BY <1>1, LineTypes, RemainingType DEF NewText

LEMMA TypedInitially == RulesInit => RulesTyped /\ Undisturbed
BY DEF RulesInit, RulesTyped, Undisturbed, Stages

LEMMA JobTypes ==
  /\ \A w \in Windows, c \in BOOLEAN : Adding(w, c) \in Jobs /\ Adding(w, c).does = "add"
  /\ \A w \in Windows, p \in Nat, n \in Nat :
       /\ Deleting(w, p, n) \in Jobs /\ Deleting(w, p, n).does = "delete"
       /\ Deleting(w, p, n).place = p /\ Deleting(w, p, n).rule = n
  /\ NoJob.does = "none"
BY DEF Adding, Deleting, NoJob, Jobs

LEMMA EndType ==
  ASSUME RulesTyped, NEW r \in Slots, End(r)
  PROVE  /\ stage' \in [Slots -> Stages] /\ job' \in [Slots -> Jobs \cup {NoJob}]
         /\ got' \in [Slots -> Seq(LineSet)]
         /\ \A q \in Slots : stage'[q] # "idle" => job'[q] \in Jobs
         /\ \A q \in Slots : stage'[q] \in {"idle", "sent", "stat"} => got'[q] = <<>>
         /\ \A q \in Slots \ {r} : stage'[q] = stage[q]
         /\ stage'[r] = "idle"
<1>1. "idle" \in Stages /\ <<>> \in Seq(LineSet)
  BY DEF Stages
<1> QED BY <1>1 DEF End, RulesTyped

LEMMA TypedStep == RulesTyped /\ Undisturbed /\ [RulesNext]_rulesVars => RulesTyped' /\ Undisturbed'
<1> SUFFICES ASSUME RulesTyped, Undisturbed, [RulesNext]_rulesVars PROVE RulesTyped' /\ Undisturbed'
  OBVIOUS
<1>1. ASSUME NEW w \in Windows, OpenPage(w) PROVE RulesTyped' /\ Undisturbed'
  <2>1. GetCustomRules(lines) \in Seq(Nat)
    BY ListIs DEF RulesTyped
  <2> QED BY <1>1, <2>1 DEF OpenPage, RulesTyped, Undisturbed
<1>2. ASSUME NEW r \in Slots, NEW w \in Windows, NEW i \in DOMAIN shown[w], AskDelete(r, w, i)
      PROVE  RulesTyped' /\ Undisturbed'
  <2>1. i \in DOMAIN shown[w] /\ shown[w] \in Seq(Nat)
    BY <1>2 DEF AskDelete, RulesTyped
  <2>2. i - 1 \in Nat /\ shown[w][i] \in Nat
    BY <2>1, LenProperties, ElementOfSeq
  <2>3. Deleting(w, i - 1, shown[w][i]) \in Jobs
    BY <2>2, JobTypes
  <2>4. /\ stage[r] = "idle" /\ stage' = [stage EXCEPT ![r] = "sent"]
        /\ job' = [job EXCEPT ![r] = Deleting(w, i - 1, shown[w][i])]
        /\ UNCHANGED <<exists, lines, added, shown, got, lone>>
    BY <1>2 DEF AskDelete, Proceed
  <2> QED BY <2>3, <2>4 DEF RulesTyped, Undisturbed, Stages
<1>3. ASSUME NEW r \in Slots, NEW w \in Windows, NEW c \in BOOLEAN, AskAdd(r, w, c)
      PROVE  RulesTyped' /\ Undisturbed'
  <2>1. Adding(w, c) \in Jobs
    BY JobTypes
  <2>2. /\ stage[r] = "idle" /\ stage' = [stage EXCEPT ![r] = "stat"]
        /\ job' = [job EXCEPT ![r] = Adding(w, c)]
        /\ UNCHANGED <<exists, lines, added, shown, got, lone>>
    BY <1>3 DEF AskAdd, Proceed
  <2> QED BY <2>1, <2>2 DEF RulesTyped, Undisturbed, Stages
<1>4. ASSUME NEW r \in Slots, ReadRules(r) PROVE RulesTyped' /\ Undisturbed'
  <2>1. stage[r] = "sent" /\ UNCHANGED <<exists, lines, added, shown>>
    BY <1>4 DEF ReadRules
  <2>2. CASE /\ stage' = [stage EXCEPT ![r] = "truncate"] /\ got' = [got EXCEPT ![r] = lines]
             /\ lone' = [lone EXCEPT ![r] = TRUE] /\ UNCHANGED job
    BY <2>1, <2>2 DEF RulesTyped, Undisturbed, Stages
  <2>3. CASE End(r) /\ UNCHANGED lone
    BY <2>1, <2>3, EndType DEF RulesTyped, Undisturbed
  <2> QED BY <1>4, <2>2, <2>3 DEF ReadRules
<1>5. ASSUME NEW r \in Slots, Stat(r) PROVE RulesTyped' /\ Undisturbed'
  <2>1. /\ stage[r] = "stat" /\ UNCHANGED <<exists, lines, added, shown, job, got, lone>>
        /\ \/ exists /\ stage' = [stage EXCEPT ![r] = "append"]
           \/ stage' = [stage EXCEPT ![r] = "truncate"]
    BY <1>5 DEF Stat, Proceed
  <2> QED BY <2>1 DEF RulesTyped, Undisturbed, Stages
<1>6. ASSUME NEW r \in Slots, TruncateRules(r) PROVE RulesTyped' /\ Undisturbed'
  <2>1. /\ stage[r] = "truncate" /\ stage' = [stage EXCEPT ![r] = "write"] /\ exists' /\ lines' = <<>>
        /\ lone' = [q \in Slots |-> q \in {r} /\ lone[q]] /\ UNCHANGED <<added, shown, job, got>>
    BY <1>6 DEF TruncateRules, Proceed, Changed
  <2>2. lines' \in Seq(LineSet) /\ lone' \in [Slots -> BOOLEAN]
    BY <2>1 DEF RulesTyped
  <2> QED BY <2>1, <2>2 DEF RulesTyped, Undisturbed, Stages
<1>7. ASSUME NEW r \in Slots, WriteBack(r) PROVE RulesTyped' /\ Undisturbed'
  <2>1. /\ stage[r] = "write" /\ lines' = Over(NewText(r))
        /\ (stage' = [stage EXCEPT ![r] = "append"] \/ stage' = [stage EXCEPT ![r] = "answer"])
        /\ lone' = [q \in Slots |-> FALSE] /\ UNCHANGED <<exists, added, shown, job, got>>
    BY <1>7 DEF WriteBack, Proceed, Changed
  <2>2. lines' \in Seq(LineSet)
    BY <2>1, NewTextType, OverType DEF RulesTyped
  <2>3. exists
    BY <2>1 DEF RulesTyped
  <2> QED BY <2>1, <2>2, <2>3 DEF RulesTyped, Undisturbed, Stages
<1>8. ASSUME NEW r \in Slots, AppendRule(r) PROVE RulesTyped' /\ Undisturbed'
  <2>1. /\ stage[r] = "append" /\ lines' = lines \o NewLines(added + 1, job[r].commented)
        /\ stage' = [stage EXCEPT ![r] = "answer"] /\ added' = added + 1
        /\ lone' = [q \in Slots |-> FALSE] /\ UNCHANGED <<exists, shown, job, got>>
    BY <1>8 DEF AppendRule, Proceed, Changed
  <2>2. job[r].commented \in BOOLEAN /\ added + 1 \in Nat
    BY <2>1 DEF RulesTyped, Jobs
  <2>3. lines' \in Seq(LineSet)
    BY <2>1, <2>2, LineTypes DEF RulesTyped
  <2>4. exists
    BY <2>1 DEF RulesTyped
  <2> QED BY <2>1, <2>2, <2>3, <2>4 DEF RulesTyped, Undisturbed, Stages
<1>9. ASSUME NEW r \in Slots, Answer(r) PROVE RulesTyped' /\ Undisturbed'
  <2>1. GetCustomRules(lines) \in Seq(Nat) /\ <<>> \in Seq(Nat)
    BY ListIs DEF RulesTyped
  <2>2. End(r) /\ UNCHANGED <<exists, lines, added, lone>>
        /\ \E list \in Seq(Nat) : shown' = [shown EXCEPT ![job[r].window] = list]
    BY <1>9, <2>1 DEF Answer
  <2> QED BY <2>2, EndType DEF RulesTyped, Undisturbed
<1>10. ASSUME NEW r \in Slots, RequestFails(r) PROVE RulesTyped' /\ Undisturbed'
  <2>1. End(r) /\ UNCHANGED <<exists, added, shown>>
    BY <1>10 DEF RequestFails
  <2>2. CASE lone' = [lone EXCEPT ![r] = FALSE] /\ UNCHANGED lines
    BY <2>1, <2>2, EndType DEF RulesTyped, Undisturbed
  <2>3. ASSUME NEW n \in 0 .. Len(NewText(r)), stage[r] = "write", Changed(Over(SubSeq(NewText(r), 1, n)), {})
        PROVE  RulesTyped' /\ Undisturbed'
    <3>1. SubSeq(NewText(r), 1, n) \in Seq(LineSet)
      <4>1. ASSUME NEW t \in Seq(LineSet), NEW k \in 0 .. Len(t)
            PROVE  SubSeq(t, 1, k) \in Seq(LineSet)
        OBVIOUS
      <4> QED BY <4>1, NewTextType
    <3>2. lines' \in Seq(LineSet) /\ lone' = [q \in Slots |-> FALSE]
      BY <2>3, <3>1, OverType DEF Changed, RulesTyped
    <3>3. exists
      BY <2>3 DEF RulesTyped
    <3> QED BY <2>1, <3>2, <3>3, EndType DEF RulesTyped, Undisturbed
  <2> QED BY <1>10, <2>2, <2>3 DEF RequestFails
<1>11. CASE SaveFirewallScript
  <2>1. PICK i \in 1 .. Len(lines) : lines' = InsertAt(lines, i + 1, L("other", 0))
    BY <1>11 DEF SaveFirewallScript
  <2>2. L("other", 0) \in LineSet
    BY DEF L, LineSet
  <2>3. lines' \in Seq(LineSet)
    <3>1. SubSeq(lines, 1, (i + 1) - 1) \in Seq(LineSet) /\ SubSeq(lines, i + 1, Len(lines)) \in Seq(LineSet)
      <4>1. lines \in Seq(LineSet) /\ (i + 1) - 1 = i
        BY DEF RulesTyped
      <4> QED BY <4>1
    <3> QED BY <2>1, <2>2, <3>1 DEF InsertAt
  <2>4. Working = {} /\ exists /\ UNCHANGED <<exists, added, shown, stage, job, got, lone>>
    BY <1>11 DEF SaveFirewallScript
  <2>5. \A r \in Slots : stage[r] # "write"
    BY <2>4 DEF Working
  <2> QED BY <2>3, <2>4, <2>5 DEF RulesTyped, Undisturbed
<1>12. CASE UNCHANGED rulesVars
  BY <1>12 DEF rulesVars, RulesTyped, Undisturbed
<1> QED BY <1>1, <1>2, <1>3, <1>4, <1>5, <1>6, <1>7, <1>8, <1>9, <1>10, <1>11, <1>12 DEF RulesNext

LEMMA TypedAlways == RulesSpec => [](RulesTyped /\ Undisturbed)
BY TypedInitially, TypedStep, PTL DEF RulesSpec

\* A deletion that nobody disturbs between its read and its write, from a window
\* that is right about its row, removes the line of that row and no other, for any
\* number of windows, rules and requests and whatever overlaps, failures and hands
\* made of the file before: the place counted over the rules the page lists is the
\* one counted over the commands of the file (firewall.go 262-272, 301-312).
THEOREM RightRuleDeleted == RulesSpec => DeletesRuleAsCounted
<1>1. ASSUME RulesTyped, Undisturbed, NEW r \in Slots,
             WriteBack(r), job[r].does = "delete", lone[r], RightAbout(r)
      PROVE  lines' = RemoveAt(got[r], Nth(Listed(got[r]), job[r].place + 1))
  <2> DEFINE ls == got[r]
             list == GetCustomRules(ls)
             p == job[r].place
             k == Nth(Listed(ls), p + 1)
  <2>0. ls \in Seq(LineSet) /\ p \in Nat /\ stage[r] = "write" /\ lines' = Over(NewText(r))
        /\ NewText(r) = Remaining(ls, p)
    BY <1>1 DEF RulesTyped, Jobs, WriteBack, Proceed, Changed, NewText
  <2>1. p + 1 \in DOMAIN list /\ \A i \in Commands(ls) : i < k => i \in Listed(ls)
    BY <1>1 DEF RightAbout
  <2> HIDE DEF ls, p
  <2>2. k \in Listed(ls) /\ Before(Listed(ls), k) = (p + 1) - 1
    <3>1. list \in Seq(Nat)
      BY <2>0, ListIs
    <3>2. p + 1 \in 1 .. Len(list)
      BY <2>1, <3>1, LenProperties
    <3> QED BY <2>0, <3>2, ListIs
  <2> HIDE DEF list, k
  <2>3. Listed(ls) \subseteq Commands(ls)
    BY DEF Listed
  <2>4. {j \in Commands(ls) : j < k} = {j \in Listed(ls) : j < k}
    BY <2>1, <2>3
  <2>5. RuleIdx(ls, k) = p
    <3>1. RuleIdx(ls, k) = (p + 1) - 1
      BY <2>2, <2>4 DEF RuleIdx, Before
    <3> QED BY <2>0, <3>1
  <2>6. Remaining(ls, p) = RemoveAt(ls, k)
    BY <2>0, <2>2, <2>3, <2>5, RemainingIs
  <2>7. lines' = Remaining(ls, p)
    BY <1>1, <2>0, OverNothing, RemainingType DEF Undisturbed
  <2> QED BY <2>6, <2>7 DEF ls, k, p
<1>2. RulesTyped /\ Undisturbed
        => [\A r \in Slots :
              WriteBack(r) /\ job[r].does = "delete" /\ lone[r] /\ RightAbout(r)
                => lines' = RemoveAt(got[r], Nth(Listed(got[r]), job[r].place + 1))]_rulesVars
  BY <1>1
<1> QED BY <1>2, TypedAlways, PTL DEF DeletesRuleAsCounted

-----------------------------------------------------------------------------
(* Places that are out of date, where no two requests work on the file.    *)

\* A place that was shown for a rule is never too small: at most as many older rules
\* are left in these lines as stood above it.
NotBehind(n, ls, place, r) == r <= n /\ Cardinality(Older(ls, r)) <= place

Fits(n, ls, sh, jb) ==
  /\ Sorted(ls) /\ \A q \in Ids(ls) : q <= n
  /\ \A w \in Windows : \A i \in 1 .. Len(sh[w]) : NotBehind(n, ls, i - 1, sh[w][i])
  /\ \A r \in Slots : jb[r].does = "delete" => NotBehind(n, ls, jb[r].place, jb[r].rule)

Alone == \A q, r \in Working : q = r

Ordered ==
  /\ Alone
  /\ Fits(added, lines, shown, job)
  /\ \A r \in Slots : stage[r] \in {"truncate", "write"} => Fits(added, got[r], shown, job)
  /\ \A r \in Slots : stage[r] = "truncate" => lines = got[r]
  /\ \A r \in Slots : stage[r] = "write" => lines = <<>>

RulesInv == RulesTyped /\ Undisturbed /\ ("overlap" \notin allowed => Ordered)

\* Lines that lose rules or gain newer ones, windows that show what there is, and
\* requests that carry what a window shows.
Newer(n, ls, m, ms) ==
  n <= m /\ Sorted(ms) /\ \A q \in Ids(ms) : q <= m /\ (q \in Ids(ls) \/ q > n)
ShownFrom(sh, ms, sh2) ==
  \A w \in Windows : sh2[w] = sh[w] \/ sh2[w] = <<>> \/ sh2[w] = GetCustomRules(ms)
AskedFrom(sh, jb, jb2) ==
  \A r \in Slots : jb2[r].does = "delete" =>
    \/ jb2[r] = jb[r]
    \/ \E w \in Windows : \E i \in 1 .. Len(sh[w]) :
         jb2[r].place = i - 1 /\ jb2[r].rule = sh[w][i]

LEMMA FitsKeeps ==
  ASSUME NEW n \in Nat, NEW m \in Nat, NEW ls, NEW ms,
         NEW sh \in [Windows -> Seq(Nat)], NEW sh2,
         NEW jb \in [Slots -> Jobs \cup {NoJob}], NEW jb2,
         Fits(n, ls, sh, jb), Newer(n, ls, m, ms), ShownFrom(sh, ms, sh2), AskedFrom(sh, jb, jb2)
  PROVE  Fits(m, ms, sh2, jb2)
<1> USE DEF Newer
<1>0. Sorted(ls) /\ ls \in Seq(LineSet) /\ ms \in Seq(LineSet) /\ Ids(ms) \subseteq Nat
  BY ListedAre DEF Fits, Sorted
<1>1. ASSUME NEW r \in Nat, NEW p \in Nat, NotBehind(n, ls, p, r)
      PROVE  NotBehind(m, ms, p, r)
  <2>1. ASSUME NEW q \in Older(ms, r) PROVE q \in Older(ls, r)
    <3>1. q \in Ids(ms) /\ q < r /\ q \in Nat
      BY <1>0 DEF Older
    <3>2. ~(q > n)
      BY <1>1, <3>1 DEF NotBehind
    <3> QED BY <3>1, <3>2 DEF Older
  <2>2. Cardinality(Older(ms, r)) <= Cardinality(Older(ls, r))
    BY <1>0, <2>1, OlderFinite, FS_Subset
  <2>3. Cardinality(Older(ls, r)) \in Nat /\ Cardinality(Older(ms, r)) \in Nat
    BY <1>0, OlderFinite
  <2> QED BY <1>1, <2>2, <2>3 DEF NotBehind
<1>2. ASSUME NEW w \in Windows, NEW i \in 1 .. Len(sh[w])
      PROVE  sh[w][i] \in Nat /\ i - 1 \in Nat /\ NotBehind(m, ms, i - 1, sh[w][i])
  <2>1. sh[w] \in Seq(Nat)
    OBVIOUS
  <2>2. sh[w][i] \in Nat /\ i - 1 \in Nat /\ NotBehind(n, ls, i - 1, sh[w][i])
    BY <2>1, ElementOfSeq, LenProperties DEF Fits
  <2> QED BY <1>1, <2>2
<1>3. ASSUME NEW w \in Windows, NEW i \in 1 .. Len(sh2[w]) PROVE NotBehind(m, ms, i - 1, sh2[w][i])
  <2>1. CASE sh2[w] = sh[w]
    BY <1>2, <2>1
  <2>2. CASE sh2[w] = <<>>
    BY <2>2
  <2>3. CASE sh2[w] = GetCustomRules(ms)
    <3>1. i \in 1 .. Len(GetCustomRules(ms)) /\ GetCustomRules(ms) \in Seq(Nat)
      BY <1>0, <2>3, ListIs
    <3>2. /\ GetCustomRules(ms)[i] \in Ids(ms)
          /\ Cardinality(Older(ms, GetCustomRules(ms)[i])) = i - 1
      BY <3>1, ListOf
    <3>3. i - 1 \in Nat
      BY <3>1, LenProperties
    <3> QED BY <2>3, <3>2, <3>3 DEF NotBehind
  <2> QED BY <2>1, <2>2, <2>3 DEF ShownFrom
<1>4. ASSUME NEW r \in Slots, jb2[r].does = "delete" PROVE NotBehind(m, ms, jb2[r].place, jb2[r].rule)
  <2>1. CASE jb2[r] = jb[r]
    <3>1. jb[r] \in Jobs
      BY <1>4, <2>1 DEF NoJob
    <3>2. jb[r].place \in Nat /\ jb[r].rule \in Nat /\ NotBehind(n, ls, jb[r].place, jb[r].rule)
      BY <1>4, <2>1, <3>1 DEF Jobs, Fits
    <3> QED BY <1>1, <2>1, <3>2
  <2>2. CASE \E w \in Windows : \E i \in 1 .. Len(sh[w]) : jb2[r].place = i - 1 /\ jb2[r].rule = sh[w][i]
    BY <1>2, <2>2
  <2> QED BY <1>4, <2>1, <2>2 DEF AskedFrom
<1> QED BY <1>3, <1>4 DEF Fits

LEMMA OrderedInitially == RulesInit => Ordered
<1> SUFFICES ASSUME RulesInit PROVE Ordered
  OBVIOUS
<1>1. \A w \in Windows : Len(shown[w]) = 0
  BY DEF RulesInit
<1>2. \A r \in Slots : job[r].does # "delete" /\ stage[r] = "idle"
  BY DEF RulesInit, NoJob
<1>3. Fits(added, lines, shown, job)
  BY <1>1, <1>2, NoLines DEF RulesInit, Fits
<1> QED BY <1>2, <1>3 DEF Ordered, Alone, Working

\* Steps that leave the file and what is written back alone.
LEMMA FileAlone ==
  ASSUME RulesTyped, Ordered, UNCHANGED <<lines, added>>,
         ShownFrom(shown, lines, shown'), AskedFrom(shown, job, job'),
         \A r \in Slots : stage'[r] \in {"truncate", "write"} => stage'[r] = stage[r] /\ got'[r] = got[r],
         Alone'
  PROVE  Ordered'
<1>0. /\ added \in Nat /\ added <= added /\ shown \in [Windows -> Seq(Nat)]
      /\ job \in [Slots -> Jobs \cup {NoJob}]
  BY DEF RulesTyped
<1>1. ASSUME NEW ls, Fits(added, ls, shown, job), ShownFrom(shown, ls, shown')
      PROVE  Fits(added, ls, shown', job')
  <2>1. Newer(added, ls, added, ls)
    BY <1>0, <1>1 DEF Fits, Newer
  <2> QED BY <1>0, <1>1, <2>1, FitsKeeps
<1>2. ASSUME NEW r \in Slots, stage'[r] \in {"truncate", "write"}
      PROVE  Fits(added', got'[r], shown', job')
  <2>1. Fits(added, got[r], shown, job) /\ (lines = got[r] \/ lines = <<>>)
    BY <1>2 DEF Ordered
  <2>2. ShownFrom(shown, got[r], shown')
    BY <2>1, NoLines DEF ShownFrom
  <2> QED BY <1>1, <1>2, <2>1, <2>2
<1>3. \A r \in Slots : stage'[r] = "truncate" => lines' = got'[r]
  BY DEF Ordered
<1>4. \A r \in Slots : stage'[r] = "write" => lines' = <<>>
  BY DEF Ordered
<1>5. Fits(added', lines', shown', job')
  BY <1>1 DEF Ordered
<1> QED BY <1>2, <1>3, <1>4, <1>5 DEF Ordered

\* The file is given its new lines, and no request is about to write.
LEMMA FileWritten ==
  ASSUME RulesTyped, NEW ls, Fits(added, ls, shown, job), added' \in Nat,
         Newer(added, ls, added', lines'),
         shown' = shown, \A r \in Slots : job'[r] = job[r] \/ job'[r] = NoJob,
         \A r \in Slots : stage'[r] \notin {"truncate", "write"}, Alone'
  PROVE  Ordered'
<1>0. added \in Nat /\ shown \in [Windows -> Seq(Nat)] /\ job \in [Slots -> Jobs \cup {NoJob}]
  BY DEF RulesTyped
<1>1. AskedFrom(shown, job, job') /\ ShownFrom(shown, lines', shown')
  BY DEF NoJob, AskedFrom, ShownFrom
<1>2. Fits(added', lines', shown', job')
  BY <1>0, <1>1, FitsKeeps
<1> QED BY <1>2 DEF Ordered

LEMMA NewTextFits ==
  ASSUME RulesTyped, NEW r \in Slots, Sorted(got[r])
  PROVE  Sorted(NewText(r)) /\ Ids(NewText(r)) \subseteq Ids(got[r])
<1>1. CASE job[r].does = "add"
  BY <1>1, FirstLine DEF NewText
<1>2. CASE job[r].does # "add"
  BY <1>2, Deleted DEF NewText
<1> QED BY <1>1, <1>2

LEMMA OrderedStep ==
  RulesTyped /\ RulesTyped' /\ Undisturbed /\ "overlap" \notin allowed /\ Ordered /\ [RulesNext]_rulesVars
    => Ordered'
<1> SUFFICES ASSUME RulesTyped, RulesTyped', Undisturbed, "overlap" \notin allowed, Ordered,
                    [RulesNext]_rulesVars
             PROVE  Ordered'
  OBVIOUS
<1>0. /\ added \in Nat /\ added' \in Nat /\ Fits(added, lines, shown, job) /\ Sorted(lines)
      /\ \A q \in Ids(lines) : q \in Nat /\ q <= added
      /\ stage \in [Slots -> Stages] /\ job \in [Slots -> Jobs \cup {NoJob}]
      /\ got \in [Slots -> Seq(LineSet)] /\ lines \in Seq(LineSet)
      /\ shown \in [Windows -> Seq(Nat)]
  BY ListedAre DEF RulesTyped, Ordered, Fits, Sorted
<1>a. ASSUME NEW r \in Slots, stage[r] \notin {"idle", "sent"}
      PROVE  \A q \in Slots : q # r => stage[q] \in {"idle", "sent"}
  BY <1>a DEF Ordered, Alone, Working
<1>b. ASSUME NEW ls, Newer(added, lines, added, ls), lines' = ls, UNCHANGED <<added, shown>>,
             \A r \in Slots : job'[r] = job[r] \/ job'[r] = NoJob,
             \A r \in Slots : stage'[r] \notin {"truncate", "write"}, Alone'
      PROVE  Ordered'
  BY <1>0, <1>b, FileWritten
<1>1. ASSUME NEW w \in Windows, OpenPage(w) PROVE Ordered'
  <2>1. /\ shown' = [shown EXCEPT ![w] = GetCustomRules(lines)]
        /\ UNCHANGED <<lines, added, stage, job, got>>
    BY <1>1 DEF OpenPage
  <2>2. ShownFrom(shown, lines, shown')
    BY <1>0, <2>1 DEF ShownFrom
  <2>3. AskedFrom(shown, job, job') /\ Alone'
    BY <2>1 DEF AskedFrom, Ordered, Alone, Working
  <2> QED BY <2>1, <2>2, <2>3, FileAlone
<1>2. ASSUME NEW r \in Slots, NEW w \in Windows, NEW i \in DOMAIN shown[w], AskDelete(r, w, i) PROVE Ordered'
  <2>1. /\ i \in DOMAIN shown[w] /\ stage[r] = "idle" /\ stage' = [stage EXCEPT ![r] = "sent"]
        /\ job' = [job EXCEPT ![r] = Deleting(w, i - 1, shown[w][i])]
        /\ UNCHANGED <<lines, added, shown, got>>
    BY <1>2 DEF AskDelete, Proceed
  <2>2. AskedFrom(shown, job, job')
    <3>1. shown[w] \in Seq(Nat)
      BY <1>0
    <3>2. i \in 1 .. Len(shown[w]) /\ shown[w][i] \in Nat /\ i - 1 \in Nat
      BY <2>1, <3>1, LenProperties, ElementOfSeq
    <3>3. job'[r].place = i - 1 /\ job'[r].rule = shown[w][i]
      BY <1>0, <2>1, <3>2, JobTypes
    <3>4. \A q \in Slots : q # r => job'[q] = job[q]
      BY <1>0, <2>1
    <3> QED BY <3>2, <3>3, <3>4 DEF AskedFrom
  <2>3. ShownFrom(shown, lines, shown')
    BY <2>1 DEF ShownFrom
  <2>4. Alone' /\ \A q \in Slots : stage'[q] \in {"truncate", "write"} => stage'[q] = stage[q] /\ got'[q] = got[q]
    BY <1>0, <2>1 DEF Ordered, Alone, Working
  <2> QED BY <2>1, <2>2, <2>3, <2>4, FileAlone
<1>3. ASSUME NEW r \in Slots, NEW w \in Windows, NEW c \in BOOLEAN, AskAdd(r, w, c) PROVE Ordered'
  <2>1. /\ stage[r] = "idle" /\ stage' = [stage EXCEPT ![r] = "stat"] /\ Working = {}
        /\ job' = [job EXCEPT ![r] = Adding(w, c)] /\ UNCHANGED <<lines, added, shown, got>>
    BY <1>3 DEF AskAdd, Proceed, MayWork
  <2>2. AskedFrom(shown, job, job') /\ ShownFrom(shown, lines, shown')
    BY <1>0, <2>1, JobTypes DEF AskedFrom, ShownFrom
  <2>3. \A q \in Slots : stage[q] \in {"idle", "sent"}
    BY <2>1 DEF Working
  <2>4. Alone' /\ \A q \in Slots : stage'[q] \in {"truncate", "write"} => stage'[q] = stage[q] /\ got'[q] = got[q]
    BY <1>0, <2>1, <2>3 DEF Alone, Working
  <2> QED BY <2>1, <2>2, <2>4, FileAlone
<1>4. ASSUME NEW r \in Slots, ReadRules(r) PROVE Ordered'
  <2>0. stage[r] = "sent" /\ Working = {} /\ UNCHANGED <<lines, added, shown>>
    BY <1>4 DEF ReadRules, MayWork
  <2>1. \A q \in Slots : stage[q] \in {"idle", "sent"}
    BY <2>0 DEF Working
  <2>2. CASE stage' = [stage EXCEPT ![r] = "truncate"] /\ got' = [got EXCEPT ![r] = lines] /\ UNCHANGED job
    <3>1. \A q \in Slots : IF q = r THEN stage'[q] = "truncate" /\ got'[q] = lines
                                    ELSE stage'[q] \in {"idle", "sent"}
      BY <1>0, <2>1, <2>2
    <3>2. Alone'
      BY <3>1 DEF Alone, Working
    <3> QED BY <1>0, <2>0, <2>2, <3>1, <3>2 DEF Ordered
  <2>3. CASE End(r)
    <3>1. job' = [job EXCEPT ![r] = NoJob] /\ \A q \in Slots : stage'[q] \in {"idle", "sent"}
      BY <1>0, <2>1, <2>3 DEF End
    <3>2. AskedFrom(shown, job, job') /\ ShownFrom(shown, lines, shown')
      BY <1>0, <2>0, <3>1, JobTypes DEF AskedFrom, ShownFrom
    <3>3. Alone'
      BY <3>1 DEF Alone, Working
    <3> QED BY <2>0, <3>1, <3>2, <3>3, FileAlone
  <2> QED BY <1>4, <2>2, <2>3 DEF ReadRules
<1>5. ASSUME NEW r \in Slots, Stat(r) PROVE Ordered'
  <2>1. stage[r] = "stat" /\ UNCHANGED <<exists, lines, added, shown, job, got>>
    BY <1>5 DEF Stat, Proceed
  <2>2. \A q \in Slots : q # r => stage[q] \in {"idle", "sent"}
    BY <1>a, <2>1
  <2>3. \A q \in Slots : IF q = r THEN stage'[q] = (IF exists THEN "append" ELSE "truncate")
                                  ELSE stage'[q] = stage[q]
    BY <1>0, <1>5 DEF Stat, Proceed
  <2>4. Alone'
    BY <2>1, <2>2, <2>3 DEF Alone, Working
  <2>5. ~exists => lines = got[r]
    BY <2>1 DEF RulesTyped
  <2>6. \A q \in Slots : stage'[q] = "truncate" => lines' = got'[q]
    BY <2>1, <2>2, <2>3, <2>5
  <2>7. \A q \in Slots : stage'[q] # "write"
    BY <2>2, <2>3
  <2>8. \A q \in Slots : stage'[q] \in {"truncate", "write"} => got'[q] = lines
    BY <2>1, <2>6, <2>7
  <2> QED BY <1>0, <2>1, <2>4, <2>6, <2>7, <2>8 DEF Ordered
<1>6. ASSUME NEW r \in Slots, TruncateRules(r) PROVE Ordered'
  <2>1. /\ stage[r] = "truncate" /\ stage' = [stage EXCEPT ![r] = "write"] /\ lines' = <<>>
        /\ UNCHANGED <<added, shown, job, got>>
    BY <1>6 DEF TruncateRules, Proceed, Changed
  <2>2. \A q \in Slots : IF q = r THEN stage'[q] = "write" ELSE stage'[q] \in {"idle", "sent"}
    BY <1>0, <1>a, <2>1
  <2>3. Alone'
    BY <2>2 DEF Alone, Working
  <2>4. Fits(added, <<>>, shown, job)
    <3>1. Newer(added, lines, added, <<>>) /\ ShownFrom(shown, <<>>, shown) /\ AskedFrom(shown, job, job)
      BY <1>0, NoLines DEF Newer, ShownFrom, AskedFrom
    <3> QED BY <1>0, <3>1, FitsKeeps
  <2>5. Fits(added, got[r], shown, job)
    BY <2>1 DEF Ordered
  <2> QED BY <2>1, <2>2, <2>3, <2>4, <2>5 DEF Ordered
<1>7. ASSUME NEW r \in Slots, WriteBack(r) PROVE Ordered'
  <2>1. /\ stage[r] = "write" /\ lines' = Over(NewText(r)) /\ UNCHANGED <<added, shown, job>>
        /\ (stage' = [stage EXCEPT ![r] = "append"] \/ stage' = [stage EXCEPT ![r] = "answer"])
    BY <1>7 DEF WriteBack, Proceed, Changed
  <2>2. \A q \in Slots : IF q = r THEN stage'[q] \in {"append", "answer"} ELSE stage'[q] \in {"idle", "sent"}
    BY <1>0, <1>a, <2>1
  <2>3. Alone' /\ \A q \in Slots : stage'[q] \notin {"truncate", "write"}
    BY <2>2 DEF Alone, Working
  <2>4. lines = <<>> /\ Fits(added, got[r], shown, job)
    BY <2>1 DEF Ordered
  <2>5. lines' = NewText(r)
    BY <2>1, <2>4, OverNothing, NewTextType
  <2>6. Newer(added, got[r], added', lines')
    BY <1>0, <2>1, <2>4, <2>5, NewTextFits DEF Newer, Fits
  <2> QED BY <1>0, <2>1, <2>3, <2>4, <2>6, FileWritten
<1>8. ASSUME NEW r \in Slots, AppendRule(r) PROVE Ordered'
  <2>1. /\ stage[r] = "append" /\ lines' = lines \o NewLines(added + 1, job[r].commented)
        /\ stage' = [stage EXCEPT ![r] = "answer"] /\ added' = added + 1 /\ UNCHANGED <<shown, job>>
    BY <1>8 DEF AppendRule, Proceed, Changed
  <2>2. \A q \in Slots : IF q = r THEN stage'[q] = "answer" ELSE stage'[q] \in {"idle", "sent"}
    BY <1>0, <1>a, <2>1
  <2>3. Alone' /\ \A q \in Slots : stage'[q] \notin {"truncate", "write"}
    BY <2>2 DEF Alone, Working
  <2>4. added + 1 \in Nat /\ \A q \in Ids(lines) : q < added + 1 /\ q <= added + 1
    BY <1>0
  <2>5. Sorted(lines') /\ \A q \in Ids(lines') : q \in Ids(lines) \/ q = added + 1
    BY <1>0, <2>1, <2>4, Added
  <2>6. added <= added' /\ added + 1 > added
    BY <1>0, <2>1
  <2>7. Newer(added, lines, added', lines')
    BY <1>0, <2>1, <2>4, <2>5, <2>6 DEF Newer
  <2> QED BY <1>0, <2>1, <2>3, <2>7, FileWritten
<1>9. ASSUME NEW r \in Slots, Answer(r) PROVE Ordered'
  <2>1. /\ stage[r] = "answer" /\ End(r) /\ UNCHANGED <<lines, added>>
        /\ \/ shown' = [shown EXCEPT ![job[r].window] = GetCustomRules(lines)]
           \/ shown' = [shown EXCEPT ![job[r].window] = <<>>]
    BY <1>9 DEF Answer
  <2>2. ShownFrom(shown, lines, shown')
    BY <1>0, <2>1 DEF ShownFrom
  <2>3. job' = [job EXCEPT ![r] = NoJob] /\ \A q \in Slots : stage'[q] \in {"idle", "sent"}
    BY <1>0, <1>a, <2>1 DEF End
  <2>4. AskedFrom(shown, job, job')
    BY <1>0, <2>3, JobTypes DEF AskedFrom
  <2>5. Alone'
    BY <2>3 DEF Alone, Working
  <2> QED BY <2>1, <2>2, <2>3, <2>4, <2>5, FileAlone
<1>10. ASSUME NEW r \in Slots, RequestFails(r) PROVE Ordered'
  <2>1. /\ stage[r] # "idle" /\ UNCHANGED <<added, shown>>
        /\ stage' = [stage EXCEPT ![r] = "idle"] /\ job' = [job EXCEPT ![r] = NoJob]
        /\ got' = [got EXCEPT ![r] = <<>>]
    BY <1>10 DEF RequestFails, End
  <2>2. /\ stage'[r] = "idle" /\ job'[r] = NoJob
        /\ \A q \in Slots : q # r => stage'[q] = stage[q] /\ job'[q] = job[q] /\ got'[q] = got[q]
    BY <1>0, <2>1 DEF RulesTyped
  <2>3. Alone'
    BY <2>2 DEF Ordered, Alone, Working
  <2>4. CASE UNCHANGED lines
    <3>1. AskedFrom(shown, job, job') /\ ShownFrom(shown, lines, shown')
      BY <2>1, <2>2, JobTypes DEF AskedFrom, ShownFrom
    <3>2. \A q \in Slots : stage'[q] \in {"truncate", "write"} => stage'[q] = stage[q] /\ got'[q] = got[q]
      BY <2>2
    <3> QED BY <2>1, <2>3, <2>4, <3>1, <3>2, FileAlone
  <2>5. ASSUME NEW n \in 0 .. Len(NewText(r)), stage[r] = "write", Changed(Over(SubSeq(NewText(r), 1, n)), {})
        PROVE  Ordered'
    <3>1. lines = <<>> /\ Fits(added, got[r], shown, job)
      BY <2>5 DEF Ordered
    <3>2. Sorted(NewText(r)) /\ Ids(NewText(r)) \subseteq Ids(got[r])
      BY <3>1, NewTextFits DEF Fits
    <3>3. Sorted(SubSeq(NewText(r), 1, n)) /\ Ids(SubSeq(NewText(r), 1, n)) \subseteq Ids(got[r])
      BY <3>2, Cut
    <3>4. lines' = SubSeq(NewText(r), 1, n)
      BY <2>5, <3>1, <3>3, OverNothing DEF Changed, Sorted
    <3>5. Newer(added, got[r], added', lines')
      BY <1>0, <2>1, <3>1, <3>3, <3>4 DEF Newer, Fits
    <3>6. \A q \in Slots : stage'[q] \notin {"truncate", "write"}
      BY <1>a, <2>2, <2>5
    <3>7. \A q \in Slots : job'[q] = job[q] \/ job'[q] = NoJob
      BY <2>2
    <3> QED BY <1>0, <2>1, <2>3, <3>1, <3>5, <3>6, <3>7, FileWritten
  <2> QED BY <1>10, <2>4, <2>5 DEF RequestFails
<1>11. CASE SaveFirewallScript
  <2>1. PICK i \in 1 .. Len(lines) : lines' = InsertAt(lines, i + 1, L("other", 0))
    BY <1>11 DEF SaveFirewallScript
  <2>2. L("other", 0) \in LineSet /\ L("other", 0).kind # "rule"
    BY DEF L, LineSet
  <2>3. Sorted(lines') /\ Ids(lines') \subseteq Ids(lines)
    BY <1>0, <2>1, <2>2, Inserted
  <2>4. Working = {} /\ UNCHANGED <<added, shown, stage, job>>
    BY <1>11 DEF SaveFirewallScript
  <2>5. Alone' /\ \A q \in Slots : stage'[q] \notin {"truncate", "write"}
    BY <2>4 DEF Alone, Working
  <2>6. Newer(added, lines, added', lines')
    BY <1>0, <2>3, <2>4 DEF Newer
  <2> QED BY <1>0, <2>4, <2>5, <2>6, FileWritten
<1>12. CASE UNCHANGED rulesVars
  BY <1>12 DEF rulesVars, Ordered, Alone, Working
<1> QED BY <1>1, <1>2, <1>3, <1>4, <1>5, <1>6, <1>7, <1>8, <1>9, <1>10, <1>11, <1>12 DEF RulesNext

LEMMA RulesInvariant == RulesSpec => []RulesInv
<1>1. [RulesNext]_rulesVars => allowed' = allowed
  BY DEF RulesNext, rulesVars, OpenPage, AskDelete, AskAdd, ReadRules, Stat, TruncateRules, WriteBack,
         AppendRule, Answer, RequestFails, SaveFirewallScript
<1>2. RulesInit => RulesInv
  BY TypedInitially, OrderedInitially DEF RulesInv
<1>3. RulesInv /\ [RulesNext]_rulesVars => RulesInv'
  BY <1>1, TypedStep, OrderedStep DEF RulesInv
<1> QED BY <1>2, <1>3, PTL DEF RulesSpec

\* A deletion by a place that is out of date never hits a rule older than the one it
\* was meant for, where the page lists every command of the file and requests do not
\* overlap on it: for any number of windows, rules and requests that wait, and
\* whichever of them fail or are cut short (firewall.go 276-314).
THEOREM OlderRulesSpared == RulesSpec => SparesOlderRules
<1>1. ASSUME RulesInv, NEW s \in Slots, "overlap" \notin allowed, WriteBack(s),
             job[s].does = "delete", Commands(got[s]) = Listed(got[s])
      PROVE  Rules(got[s]) \cap (1 .. job[s].rule - 1) \subseteq Rules(lines')
  <2> DEFINE ls == got[s]
             p == job[s].place
             r == job[s].rule
  <2>1. stage[s] = "write" /\ lines' = Over(Remaining(ls, p)) /\ job[s] \in Jobs
    BY <1>1 DEF WriteBack, Proceed, Changed, NewText, RulesInv, RulesTyped
  <2>2. lines = <<>> /\ Fits(added, ls, shown, job)
    BY <1>1, <2>1 DEF RulesInv, Ordered
  <2>3. /\ Sorted(ls) /\ ls \in Seq(LineSet) /\ p \in Nat /\ r \in Nat
        /\ Cardinality(Older(ls, r)) <= p
    BY <1>1, <2>1, <2>2 DEF Fits, NotBehind, Sorted, Jobs
  <2>4. Listed(ls) = Commands(ls)
    BY <1>1
  <2> HIDE DEF ls, p, r
  <2>5. lines' = Remaining(ls, p) /\ lines' \in Seq(LineSet)
    BY <2>1, <2>2, <2>3, OverNothing, RemainingType
  <2>6. CASE lines' = ls
    BY <2>6 DEF ls
  <2>7. ASSUME NEW i \in Commands(ls), RuleIdx(ls, i) = p
        PROVE  Rules(ls) \cap (1 .. r - 1) \subseteq Rules(lines')
    <3>1. Ids(lines') = {ls[j].id : j \in Listed(ls) \ {i}}
      BY <2>3, <2>5, <2>7, Deleted
    <3>2. i \in Listed(ls) /\ ls[i].id \in Nat
      <4>1. i \in 1 .. Len(ls) /\ ls[i] \in LineSet
        BY <2>3, ListedAre
      <4> QED BY <2>4, <4>1 DEF LineSet
    <3>3. Cardinality(Older(ls, ls[i].id)) = p
      BY <2>3, <2>4, <2>7, <3>2, OlderAbove DEF RuleIdx
    <3>4. ~(ls[i].id < r)
      <4> SUFFICES ASSUME ls[i].id < r PROVE FALSE
        OBVIOUS
      <4>1. Older(ls, ls[i].id) \subseteq Older(ls, r)
        <5>1. Ids(ls) \subseteq Nat
          BY <2>3, ListedAre
        <5> QED BY <2>3, <3>2, <5>1 DEF Older
      <4>2. ls[i].id \in Older(ls, r) /\ ls[i].id \notin Older(ls, ls[i].id)
        BY <3>2 DEF Older, Ids
      <4>3. IsFiniteSet(Older(ls, r)) /\ Cardinality(Older(ls, r)) \in Nat
        BY <2>3, OlderFinite
      <4>4. Cardinality(Older(ls, ls[i].id)) <= Cardinality(Older(ls, r))
            /\ Cardinality(Older(ls, ls[i].id)) # Cardinality(Older(ls, r))
        BY <4>1, <4>2, <4>3, FS_Subset
      <4> QED BY <2>3, <3>3, <4>3, <4>4
    <3>5. ASSUME NEW q \in Ids(ls), q < r, q \in Nat PROVE q \in Ids(lines')
      <4>1. PICK j \in Listed(ls) : q = ls[j].id
        BY DEF Ids
      <4>2. j # i
        BY <3>4, <3>5, <4>1
      <4> QED BY <3>1, <4>1, <4>2
    <3>6. Rules(ls) = Ids(ls) /\ Rules(lines') = Ids(lines')
      BY <2>3, <2>5, ListIs
    <3>7. \A q \in 1 .. r - 1 : q \in Nat /\ q < r
      BY <2>3
    <3> QED BY <3>5, <3>6, <3>7
  <2>8. Rules(ls) \cap (1 .. r - 1) \subseteq Rules(lines')
    BY <2>3, <2>5, <2>6, <2>7, RemainingIs
  <2> QED BY <2>8 DEF ls, r
<1>2. RulesInv
        => [\A r \in Slots :
              "overlap" \notin allowed /\ WriteBack(r) /\ job[r].does = "delete"
                /\ Commands(got[r]) = Listed(got[r])
                => Rules(got[r]) \cap (1 .. job[r].rule - 1) \subseteq Rules(lines')]_rulesVars
  BY <1>1
<1> QED BY <1>2, RulesInvariant, PTL DEF SparesOlderRules
=============================================================================
