------------------------ MODULE DnsmasqFiles_proofs ------------------------
(***************************************************************************)
(* Proofs about the dnsmasq files, for any numbers of requests, names and  *)
(* addresses.  When requests do not overlap the duplicate checks work,     *)
(* whatever else fails and whenever the router reboots; when nothing       *)
(* comes between a truncation and its write, the files implement           *)
(* DnsmasqSettings.  However they overlap, dnsmasq ends up with what the   *)
(* files say.                                                              *)
(***************************************************************************)
EXTENDS DnsmasqFiles, TLAPS

\* What a request has read is of its own file; why TypeOK is kept by Write.
ReadsOwnFile ==
  \A r \in Requests :
    /\ got[r] # {} => step[r] \in {"truncate", "write", "reload"}
    /\ \A l \in got[r] : FileOf(l[1]) = F(r)

TypeInv == TypeOK /\ ReadsOwnFile

\* Lines of a section, added to its own file, keep files and sections apart.
LEMMA OwnLines ==
  ASSUME NEW s \in Sections, NEW vals, vals \subseteq Values[s]
  PROVE  /\ {s} \X vals \subseteq Lines
         /\ \A l \in {s} \X vals : FileOf(l[1]) = FileOf(s)
BY DEF Lines

LEMMA BeginKeepsTypes ==
  ASSUME TypeInv, NEW r \in Requests, NEW first \in {"read", "check"}, NEW part \in Parts,
         NEW s \in Sections, NEW drop, NEW add, drop \subseteq Values[s],
         add \subseteq Values[s], Begin(r, first, Edit(part, s, drop, add))
  PROVE  TypeInv'
BY DEF TypeInv, ReadsOwnFile, TypeOK, Begin, Edit, Go, F, Steps

\* A request that goes on to another change, having read nothing for it yet.
LEMMA TurnKeepsTypes ==
  ASSUME TypeInv, NEW r \in Requests, NEW to \in Steps, NEW part \in Parts,
         NEW s \in Sections, NEW drop, NEW add, drop \subseteq Values[s],
         add \subseteq Values[s], Turn(r, to, Edit(part, s, drop, add)),
         may' = may, file' \in [Files -> SUBSET Lines], loaded' \in [Files -> SUBSET Lines],
         \A f \in Files : \A l \in file'[f] : FileOf(l[1]) = f
  PROVE  TypeInv'
BY DEF TypeInv, ReadsOwnFile, TypeOK, Turn, Edit, F

LEMMA EndKeepsTypes ==
  ASSUME TypeInv, NEW r \in Requests, End(r), UNCHANGED <<may, file>>,
         loaded' \in [Files -> SUBSET Lines]
  PROVE  TypeInv'
BY DEF TypeInv, ReadsOwnFile, TypeOK, End, Turn, Nothing, Edit, Parts, Sections, Steps, F

LEMMA TypeInvariant == Spec => []TypeInv
<1>1. Init => TypeInv
  BY DEF Init, TypeInv, ReadsOwnFile, TypeOK, Lines, Values, Sections, Files, Conf, Reservations, FileOf, Nothing, Edit, Parts, Steps
<1>2. TypeInv /\ [Next]_vars => TypeInv'
  <2> SUFFICES ASSUME TypeInv, [Next]_vars PROVE TypeInv'
    OBVIOUS
  <2>1. ASSUME NEW r \in Requests, Start(r) PROVE TypeInv'
    <3>1. ASSUME NEW v \in Ranges, SaveDHCPConfig(r, v) PROVE TypeInv'
      BY <3>1, BeginKeepsTypes DEF SaveDHCPConfig, Parts, Sections, Values
    <3>2. ASSUME NEW l \in Lists, SetUpstream(r, l) PROVE TypeInv'
      BY <3>2, BeginKeepsTypes DEF SetUpstream, Servers, Parts, Sections, Values
    <3>3. ASSUME NEW l \in Lists, EnableEncryptedDNS(r, l) PROVE TypeInv'
      BY <3>3, BeginKeepsTypes DEF EnableEncryptedDNS, Servers, Parts, Sections, Values
    <3>8. ASSUME DisableEncryptedDNS(r) PROVE TypeInv'
      BY <3>8, BeginKeepsTypes DEF DisableEncryptedDNS, SetStrictOrder, Parts, Sections, Values
    <3>4. ASSUME NEW n \in Names, DeleteEntry(r, n) PROVE TypeInv'
      BY <3>4, BeginKeepsTypes DEF DeleteEntry, Parts, Sections, Values
    <3>5. ASSUME NEW m \in MACs, DeleteReservation(r, m) PROVE TypeInv'
      BY <3>5, BeginKeepsTypes DEF DeleteReservation, Parts, Sections, Values
    <3>6. ASSUME NEW v \in Values.address, AddEntry(r, v) PROVE TypeInv'
      BY <3>6, BeginKeepsTypes DEF AddEntry, Parts, Sections, Values
    <3>7. ASSUME NEW v \in Values.host, AddReservation(r, v) PROVE TypeInv'
      BY <3>7, BeginKeepsTypes DEF AddReservation, Parts, Sections, Values
    <3> QED
      BY <2>1, <3>1, <3>2, <3>3, <3>4, <3>5, <3>6, <3>7, <3>8 DEF Start
  <2> USE DEF TypeInv, ReadsOwnFile, TypeOK, Steps, F
  <2>2. ASSUME NEW r \in Requests, Check(r) PROVE TypeInv'
    BY <2>2, EndKeepsTypes DEF Check, Go
  <2>3. ASSUME NEW r \in Requests, AppendLine(r) PROVE TypeInv'
    <3>1. /\ {op[r].sec} \X op[r].add \subseteq Lines
          /\ \A l \in {op[r].sec} \X op[r].add : FileOf(l[1]) = FileOf(op[r].sec)
      BY OwnLines
    <3>2. file' = [file EXCEPT ![F(r)] = @ \cup ({op[r].sec} \X op[r].add)]
      BY <2>3 DEF AppendLine, SetFile
    <3> QED
      BY <2>3, <3>1, <3>2 DEF AppendLine, Go
  <2>4. ASSUME NEW r \in Requests, Read(r) PROVE TypeInv'
    BY <2>4 DEF Read, Go, Files, FileOf
  <2>5. ASSUME NEW r \in Requests, Truncate(r) PROVE TypeInv'
    BY <2>5 DEF Truncate, Go, SetFile
  <2>6. ASSUME NEW r \in Requests, Write(r) PROVE TypeInv'
    <3>1. /\ {op[r].sec} \X op[r].add \subseteq Lines
          /\ \A l \in {op[r].sec} \X op[r].add : FileOf(l[1]) = FileOf(op[r].sec)
      BY OwnLines
    <3>2. New(r) \subseteq Lines /\ \A l \in New(r) : FileOf(l[1]) = FileOf(op[r].sec)
      BY <3>1 DEF New
    <3>3. PICK beyond \in SUBSET file[F(r)] :
            file' = [file EXCEPT ![F(r)] = New(r) \cup beyond]
      BY <2>6 DEF Write, WriteTo, SetFile
    <3>4. FileOf(op[r].sec) \in Files
      BY DEF FileOf, Files
    <3>5. /\ file' \in [Files -> SUBSET Lines]
          /\ \A f \in Files : \A l \in file'[f] : FileOf(l[1]) = f
      BY <3>2, <3>3, <3>4
    <3>6. CASE Go(r, "write", "reload") /\ UNCHANGED <<op, got>>
      BY <2>6, <3>5, <3>6 DEF Write, WriteTo, Go
    <3>7. ASSUME NEW l \in Lists, Turn(r, "read", Servers("restore", l)) PROVE TypeInv'
      <4>1. Turn(r, "read", Edit("restore", "server", Lists, {l}))
        BY <3>7 DEF Servers
      <4>2. "server" \in Sections /\ "restore" \in Parts /\ Values["server"] = Lists
        BY DEF Sections, Parts, Values
      <4>3. may' = may /\ loaded' \in [Files -> SUBSET Lines] /\ {l} \subseteq Lists
        BY <2>6, <3>7 DEF Write, WriteTo
      <4> QED BY <3>5, <4>1, <4>2, <4>3, TurnKeepsTypes
    <3> QED
      BY <2>6, <3>6, <3>7 DEF Write, WriteTo
  <2>7. ASSUME NEW r \in Requests, Reload(r) PROVE TypeInv'
    <3>1. UNCHANGED <<may, file>> /\ loaded' \in [Files -> SUBSET Lines]
      BY <2>7 DEF Reload
    <3>2. CASE End(r)
      BY <3>1, <3>2, EndKeepsTypes
    <3>3. CASE Turn(r, "read", SetStrictOrder("page", {"on"}))
      BY <3>1, <3>3, TurnKeepsTypes DEF SetStrictOrder, Sections, Parts, Values
    <3>4. CASE step[r] = "reload" /\ Turn(r, "reload", [op[r] EXCEPT !.of = "page"])
      BY <3>1, <3>4 DEF Turn, Parts
    <3> QED BY <2>7, <3>2, <3>3, <3>4 DEF Reload, Restarted
  <2>8. ASSUME NEW r \in Requests, StepFails(r) PROVE TypeInv'
    BY <2>8, EndKeepsTypes DEF StepFails
  <2>9. CASE Reboot
    BY <2>9 DEF Reboot, Nothing, Edit, Parts, Sections
  <2>10. CASE UNCHANGED vars
    BY <2>10 DEF vars
  <2> QED
    BY <2>1, <2>2, <2>3, <2>4, <2>5, <2>6, <2>7, <2>8, <2>9, <2>10 DEF Next
<1> QED
  BY <1>1, <1>2, PTL DEF Spec

\* Lines stay within their sections, and sections within their file.
THEOREM TypeCorrect == Spec => []TypeOK
<1>1. TypeInv => TypeOK
  BY DEF TypeInv
<1> QED
  BY <1>1, TypeInvariant, PTL

-----------------------------------------------------------------------------
(* No duplicates.                                                          *)

LEMMA MayConstant == [Next]_vars => may' = may
BY DEF Next, vars, Start, SaveDHCPConfig, SetUpstream, EnableEncryptedDNS, DisableEncryptedDNS,
   DeleteEntry, DeleteReservation, AddEntry, AddReservation, Begin, Check, AppendLine, Read,
   Truncate, Write, WriteTo, Reload, StepFails, Reboot

Keyed == {"address", "host"}

DupFree(lines, s) == \A v, w \in Holds(lines, s) : v # w => ~Clash(s, v, w)

\* One request at a time: what it has checked or read is still so when it
\* writes, and a file it has truncated is still empty.
RequestInv(r) ==
  /\ step[r] \in {"check", "append"} => op[r].sec \in Keyed /\ \E v : op[r].add = {v}
  /\ step[r] = "append" =>
       \A v \in op[r].add, w \in Holds(file[F(r)], op[r].sec) : ~Clash(op[r].sec, v, w)
  /\ step[r] \in {"read", "truncate", "write"} /\ op[r].sec \in Keyed => op[r].add = {}
  /\ step[r] \in {"truncate", "write"} =>
       \A s \in Keyed : FileOf(s) = F(r) => DupFree(got[r], s)
  /\ step[r] = "write" => file[F(r)] = {}

OneAtATime == \A q, r \in Requests : step[q] # "idle" /\ step[r] # "idle" => q = r

SerialInv ==
  /\ OneAtATime
  /\ \A s \in Keyed : DupFree(file[FileOf(s)], s)
  /\ \A r \in Requests : RequestInv(r)

LEMMA HoldsAdd ==
  ASSUME NEW lines, NEW s, NEW t, NEW vals
  PROVE  Holds(lines \cup ({s} \X vals), t) \subseteq
           Holds(lines, t) \cup (IF s = t THEN vals ELSE {})
BY DEF Holds

LEMMA DupFreeSubset ==
  ASSUME NEW lines, NEW more, lines \subseteq more, NEW s, DupFree(more, s)
  PROVE  DupFree(lines, s)
BY DEF DupFree, Holds

LEMMA DupFreeAdd ==
  ASSUME NEW lines, NEW s \in Keyed, NEW v, DupFree(lines, s),
         \A w \in Holds(lines, s) : ~Clash(s, v, w)
  PROVE  DupFree(lines \cup ({s} \X {v}), s)
<1>1. Holds(lines \cup ({s} \X {v}), s) \subseteq Holds(lines, s) \cup {v}
  BY HoldsAdd
<1>2. \A w : Clash(s, w, v) = Clash(s, v, w)
  BY DEF Clash
<1> QED
  BY <1>1, <1>2 DEF DupFree

LEMMA BeginKeepsSerial ==
  ASSUME Serial, TypeInv, SerialInv, NEW r \in Requests, NEW first \in {"read", "check"},
         NEW part, NEW s \in Sections, NEW drop, NEW add,
         Begin(r, first, Edit(part, s, drop, add)),
         first = "check" => s \in Keyed /\ \E v : add = {v},
         first = "read" /\ s \in Keyed => add = {}
  PROVE  SerialInv'
<1>1. \A q \in Requests : q # r => step'[q] = "idle"
  BY DEF Serial, Begin, Go, Idle, TypeInv, TypeOK
<1>2. step'[r] = first /\ op'[r] = Edit(part, s, drop, add) /\ file' = file
  BY DEF Begin, Go, TypeInv, TypeOK
<1>3. OneAtATime'
  BY <1>1 DEF OneAtATime
<1>4. \A q \in Requests : RequestInv(q)'
  BY <1>1, <1>2 DEF RequestInv, Edit, F
<1> QED
  BY <1>2, <1>3, <1>4 DEF SerialInv, DupFree

LEMMA SerialInvariant == Spec => [](Serial => SerialInv)
<1>1. Init => SerialInv
  BY DEF Init, SerialInv, OneAtATime, RequestInv, DupFree, Holds, Keyed, FileOf, Files, Conf,
     Reservations
<1>2. TypeInv /\ Serial /\ SerialInv /\ [Next]_vars => SerialInv'
  <2> SUFFICES ASSUME TypeInv, Serial, SerialInv, [Next]_vars PROVE SerialInv'
    OBVIOUS
  <2> USE DEF TypeInv, TypeOK
  <2>0. ASSUME NEW r \in Requests, step[r] # "idle", step' = [step EXCEPT ![r] = step'[r]]
        PROVE  /\ \A q \in Requests \ {r} : step[q] = "idle" /\ step'[q] = "idle"
               /\ OneAtATime'
               /\ \A q \in Requests \ {r} : RequestInv(q)'
    BY <2>0 DEF SerialInv, OneAtATime, RequestInv
  <2>1. ASSUME NEW r \in Requests, Start(r) PROVE SerialInv'
    <3>1. ASSUME NEW v \in Ranges, SaveDHCPConfig(r, v) PROVE SerialInv'
      BY <3>1, BeginKeepsSerial DEF SaveDHCPConfig, Parts, Sections, Keyed
    <3>2. ASSUME NEW l \in Lists, SetUpstream(r, l) PROVE SerialInv'
      BY <3>2, BeginKeepsSerial DEF SetUpstream, Servers, Parts, Sections, Keyed
    <3>3. ASSUME NEW l \in Lists, EnableEncryptedDNS(r, l) PROVE SerialInv'
      BY <3>3, BeginKeepsSerial DEF EnableEncryptedDNS, Servers, Sections, Keyed
    <3>8. ASSUME DisableEncryptedDNS(r) PROVE SerialInv'
      BY <3>8, BeginKeepsSerial DEF DisableEncryptedDNS, SetStrictOrder, Sections, Keyed
    <3>4. ASSUME NEW n \in Names, DeleteEntry(r, n) PROVE SerialInv'
      BY <3>4, BeginKeepsSerial DEF DeleteEntry, Parts, Sections
    <3>5. ASSUME NEW m \in MACs, DeleteReservation(r, m) PROVE SerialInv'
      BY <3>5, BeginKeepsSerial DEF DeleteReservation, Parts, Sections
    <3>6. ASSUME NEW v \in Values.address, AddEntry(r, v) PROVE SerialInv'
      BY <3>6, BeginKeepsSerial DEF AddEntry, Parts, Sections, Keyed
    <3>7. ASSUME NEW v \in Values.host, AddReservation(r, v) PROVE SerialInv'
      BY <3>7, BeginKeepsSerial DEF AddReservation, Parts, Sections, Keyed
    <3> QED
      BY <2>1, <3>1, <3>2, <3>3, <3>4, <3>5, <3>6, <3>7, <3>8 DEF Start
  <2>2. ASSUME NEW r \in Requests, Check(r) PROVE SerialInv'
    <3>1. step[r] = "check" /\ file' = file /\ step' = [step EXCEPT ![r] = step'[r]]
      BY <2>2 DEF Check, End, Turn, Go
    <3>2. RequestInv(r)'
      <4>1. CASE End(r)
        BY <4>1 DEF End, Turn, RequestInv
      <4>2. CASE Go(r, "check", "append") /\ UNCHANGED <<op, got>>
        /\ \A v \in op[r].add, w \in Holds(file[F(r)], op[r].sec) : ~Clash(op[r].sec, v, w)
        BY <3>1, <4>2 DEF Go, RequestInv, SerialInv, F
      <4> QED
        BY <2>2, <4>1, <4>2 DEF Check, Serial
    <3> QED
      BY <2>0, <3>1, <3>2 DEF SerialInv
  <2>3. ASSUME NEW r \in Requests, AppendLine(r) PROVE SerialInv'
    <3>1. step[r] = "append" /\ step' = [step EXCEPT ![r] = step'[r]] /\ step'[r] = "reload"
      BY <2>3 DEF AppendLine, Go
    <3>2. file' = [file EXCEPT ![F(r)] = @ \cup ({op[r].sec} \X op[r].add)]
      BY <2>3 DEF AppendLine, SetFile
    <3>3. PICK v : op[r].add = {v}
      BY <3>1 DEF SerialInv, RequestInv
    <3>4. op[r].sec \in Keyed /\ \A w \in Holds(file[F(r)], op[r].sec) : ~Clash(op[r].sec, v, w)
      BY <3>1, <3>3 DEF SerialInv, RequestInv
    <3>5. F(r) \in Files
      BY DEF F, FileOf, Files
    <3>6. ASSUME NEW s \in Keyed PROVE DupFree(file'[FileOf(s)], s)
      <4>1. CASE s = op[r].sec
        BY <3>2, <3>3, <3>4, <3>5, <4>1, DupFreeAdd DEF SerialInv, F
      <4>2. CASE s # op[r].sec
        <5>1. Holds(file'[FileOf(s)], s) \subseteq Holds(file[FileOf(s)], s)
          BY <3>2, <3>5, <4>2 DEF Holds
        <5> QED
          BY <5>1 DEF SerialInv, DupFree
      <4> QED
        BY <4>1, <4>2
    <3>7. RequestInv(r)'
      BY <3>1 DEF RequestInv
    <3> QED
      BY <2>0, <3>1, <3>6, <3>7 DEF SerialInv, DupFree
  <2>4. ASSUME NEW r \in Requests, Read(r) PROVE SerialInv'
    <3>1. /\ step[r] = "read" /\ step' = [step EXCEPT ![r] = step'[r]] /\ step'[r] = "truncate"
          /\ got'[r] = file[F(r)] /\ UNCHANGED <<file, op>>
      BY <2>4 DEF Read, Go
    <3>2. RequestInv(r)'
      BY <3>1 DEF RequestInv, SerialInv, F, DupFree
    <3> QED
      BY <2>0, <3>1, <3>2 DEF SerialInv
  <2>5. ASSUME NEW r \in Requests, Truncate(r) PROVE SerialInv'
    <3>1. /\ step[r] = "truncate" /\ step' = [step EXCEPT ![r] = step'[r]] /\ step'[r] = "write"
          /\ file' = [file EXCEPT ![F(r)] = {}] /\ UNCHANGED <<got, op>>
      BY <2>5 DEF Truncate, Go, SetFile
    <3>2. F(r) \in Files
      BY DEF F, FileOf, Files
    <3>3. RequestInv(r)'
      BY <3>1, <3>2 DEF RequestInv, SerialInv, F, DupFree
    <3>4. \A s \in Keyed : DupFree(file'[FileOf(s)], s)
      BY <3>1 DEF SerialInv, DupFree, Holds
    <3> QED
      BY <2>0, <3>1, <3>3, <3>4 DEF SerialInv, DupFree
  <2>6. ASSUME NEW r \in Requests, Write(r) PROVE SerialInv'
    <3>1. /\ step[r] = "write" /\ step' = [step EXCEPT ![r] = step'[r]]
          /\ step'[r] = "reload" \/ (step'[r] = "read" /\ op'[r].sec = "server")
      BY <2>6 DEF Write, WriteTo, Turn, Servers, Edit, Go
    <3>2. file' = [file EXCEPT ![F(r)] = New(r)]
      BY <2>6, <3>1 DEF Write, WriteTo, SetFile, SerialInv, RequestInv
    <3>3. RequestInv(r)'
      BY <3>1 DEF RequestInv, Keyed
    <3>4. F(r) \in Files
      BY DEF F, FileOf, Files
    <3>5. ASSUME NEW s \in Keyed PROVE DupFree(file'[FileOf(s)], s)
      <4>1. CASE FileOf(s) = F(r)
        <5>1. Holds(New(r), s) \subseteq Holds(got[r], s)
          BY <3>1 DEF New, Holds, SerialInv, RequestInv
        <5> QED
          BY <3>1, <3>2, <3>4, <4>1, <5>1 DEF SerialInv, RequestInv, DupFree
      <4>2. CASE FileOf(s) # F(r)
        BY <3>2, <4>2 DEF SerialInv
      <4> QED
        BY <4>1, <4>2
    <3> QED
      BY <2>0, <3>1, <3>3, <3>5 DEF SerialInv, DupFree
  <2>7. ASSUME NEW r \in Requests, Reload(r) PROVE SerialInv'
    <3>1. /\ step[r] # "idle" /\ step' = [step EXCEPT ![r] = step'[r]]
          /\ step'[r] \in {"idle", "reload"} \/ (step'[r] = "read" /\ op'[r].sec = "strict")
          /\ file' = file
      BY <2>7 DEF Reload, Restarted, End, Turn, SetStrictOrder, Edit
    <3> QED
      BY <2>0, <3>1 DEF SerialInv, RequestInv, Keyed
  <2>8. ASSUME NEW r \in Requests, StepFails(r) PROVE SerialInv'
    <3>1. step[r] # "idle"
      BY <2>8 DEF StepFails, FaultKinds
    <3>2. step' = [step EXCEPT ![r] = step'[r]] /\ step'[r] = "idle" /\ file' = file
      BY <2>8 DEF StepFails, End, Turn
    <3> QED
      BY <2>0, <3>1, <3>2 DEF SerialInv, RequestInv
  <2>9. CASE Reboot
    BY <2>9 DEF Reboot, SerialInv, OneAtATime, RequestInv
  <2>10. CASE UNCHANGED vars
    BY <2>10 DEF vars, SerialInv, OneAtATime, RequestInv, F, DupFree
  <2> QED
    BY <2>1, <2>2, <2>3, <2>4, <2>5, <2>6, <2>7, <2>8, <2>9, <2>10 DEF Next
<1>3. [Next]_vars => (Serial' <=> Serial)
  BY MayConstant DEF Serial
<1> QED
  BY <1>1, <1>2, <1>3, TypeInvariant, PTL DEF Spec

\* When requests do not overlap and the duplicate checks can read the file, no
\* name, MAC or address is ever listed twice, whatever else fails.
THEOREM NeverDuplicates == Spec => []NoDuplicates
<1>1. (Serial => SerialInv) => NoDuplicates
  BY DEF SerialInv, DupFree, NoDuplicates, Keyed
<1> QED
  BY <1>1, SerialInvariant, PTL

-----------------------------------------------------------------------------
(* What dnsmasq has read.  Whoever changes a file has a restart ahead of   *)
(* him, and a restart reads the changes of everybody else as well.  Only   *)
(* DisableEncryptedDNS has to read and open a file again before it comes   *)
(* to its restart.                                                         *)

Ahead(r) ==
  \/ step[r] \in {"write", "reload"}
  \/ step[r] \in {"read", "truncate"} /\ op[r].of = "restore"

TogglesKnown == \A r \in Requests : op[r].of \in {"disable", "restore"} => "strict" \in may

LoadedInv ==
  /\ TogglesKnown
  /\ may \cap {"write", "reload"} = {} /\ ~LeftUnloaded =>
       loaded = file \/ \E r \in Requests : Ahead(r)

\* Only a request that turns to another change has another part of its toggle.
LEMMA TogglesStay == TypeInv /\ TogglesKnown /\ [Next]_vars => TogglesKnown'
<1> SUFFICES ASSUME TypeInv, TogglesKnown, [Next]_vars PROVE TogglesKnown'
  OBVIOUS
<1> USE DEF TogglesKnown, TypeInv, TypeOK
<1>1. ASSUME NEW r \in Requests, Start(r) PROVE TogglesKnown'
  BY <1>1 DEF Start, SaveDHCPConfig, SetUpstream, EnableEncryptedDNS, DisableEncryptedDNS,
     DeleteEntry, DeleteReservation, AddEntry, AddReservation, Begin, Edit, Servers, SetStrictOrder
<1>2. ASSUME NEW r \in Requests, Check(r) \/ AppendLine(r) \/ Read(r) \/ Truncate(r) \/ StepFails(r)
      PROVE  TogglesKnown'
  BY <1>2 DEF Check, AppendLine, Read, Truncate, StepFails, End, Turn, Nothing, Edit
<1>3. ASSUME NEW r \in Requests, Write(r) PROVE TogglesKnown'
  BY <1>3 DEF Write, WriteTo, Turn, Servers, Edit
<1>4. ASSUME NEW r \in Requests, Reload(r) PROVE TogglesKnown'
  BY <1>4 DEF Reload, Restarted, End, Turn, SetStrictOrder, Nothing, Edit
<1>5. CASE Reboot
  BY <1>5 DEF Reboot, Nothing, Edit
<1>6. CASE UNCHANGED vars
  BY <1>6 DEF vars
<1> QED BY <1>1, <1>2, <1>3, <1>4, <1>5, <1>6 DEF Next

LEMMA LoadedInvariant == Spec => []LoadedInv
<1>1. Init => LoadedInv
  BY DEF Init, LoadedInv, TogglesKnown, Nothing, Edit
<1>2. TypeInv /\ LoadedInv /\ [Next]_vars => LoadedInv'
  <2> SUFFICES ASSUME TypeInv, LoadedInv, [Next]_vars,
                      may \cap {"write", "reload"} = {}, ~LeftUnloaded
               PROVE  loaded' = file' \/ \E r \in Requests : Ahead(r)'
    BY MayConstant, TogglesStay DEF LoadedInv, LeftUnloaded
  <2>0. step \in [Requests -> Steps] /\ DOMAIN op = Requests
    BY DEF TypeInv, TypeOK
  <2>1. ASSUME NEW r \in Requests, ~Ahead(r), UNCHANGED <<loaded, file>>,
               \A q \in Requests \ {r} : step'[q] = step[q] /\ op'[q] = op[q]
        PROVE  loaded' = file' \/ \E q \in Requests : Ahead(q)'
    BY <2>1 DEF LoadedInv, Ahead
  <2>2. ASSUME NEW r \in Requests, Start(r) PROVE loaded' = file' \/ \E q \in Requests : Ahead(q)'
    <3>1. step[r] = "idle" /\ UNCHANGED <<loaded, file>>
          /\ \A q \in Requests \ {r} : step'[q] = step[q] /\ op'[q] = op[q]
      BY <2>0, <2>2 DEF Start, SaveDHCPConfig, SetUpstream, EnableEncryptedDNS,
         DisableEncryptedDNS, DeleteEntry, DeleteReservation, AddEntry, AddReservation, Begin, Go
    <3> QED BY <2>1, <3>1 DEF Ahead
  <2>3. ASSUME NEW r \in Requests, Check(r) \/ StepFails(r)
        PROVE  loaded' = file' \/ \E q \in Requests : Ahead(q)'
    <3>1. UNCHANGED <<loaded, file>>
          /\ \A q \in Requests \ {r} : step'[q] = step[q] /\ op'[q] = op[q]
      BY <2>0, <2>3 DEF Check, StepFails, End, Turn, Go
    <3>2. step[r] \notin {"write", "reload"}
      BY <2>3 DEF Check, StepFails, FaultKinds
    <3>3. ~(step[r] \in {"read", "truncate"} /\ op[r].of = "restore")
      BY <2>3 DEF Check, StepFails, LoadedInv, TogglesKnown, LeftUnloaded
    <3> QED BY <2>1, <3>1, <3>2, <3>3 DEF Ahead
  <2>4. ASSUME NEW r \in Requests, Read(r)
        PROVE  loaded' = file' \/ \E q \in Requests : Ahead(q)'
    <3>1. UNCHANGED <<loaded, file, op>> /\ step[r] = "read" /\ step' = [step EXCEPT ![r] = "truncate"]
      BY <2>4 DEF Read, Go
    <3>2. \A q \in Requests : Ahead(q) => Ahead(q)'
      BY <2>0, <3>1 DEF Ahead
    <3> QED BY <3>1, <3>2 DEF LoadedInv
  <2>5. ASSUME NEW r \in Requests, AppendLine(r) \/ Truncate(r) PROVE Ahead(r)'
    BY <2>0, <2>5 DEF AppendLine, Truncate, Go, Ahead
  <2>6. ASSUME NEW r \in Requests, Write(r) PROVE Ahead(r)'
    BY <2>0, <2>6 DEF Write, WriteTo, Go, Turn, Servers, Edit, Ahead
  <2>7. ASSUME NEW r \in Requests, Reload(r) PROVE loaded' = file'
    BY <2>7 DEF Reload
  <2>8. CASE Reboot
    BY <2>8 DEF Reboot
  <2>9. CASE UNCHANGED vars
    BY <2>9 DEF vars, LoadedInv, Ahead
  <2> QED BY <2>2, <2>3, <2>4, <2>5, <2>6, <2>7, <2>8, <2>9 DEF Next
<1> QED BY <1>1, <1>2, TypeInvariant, PTL DEF Spec

\* However many requests overlap and whenever they fail or the router reboots, once
\* the last is over dnsmasq has read both files as they are (dhcp.go 186-191,
\* handler/dns.go 114), unless a write or a restart was among what failed, or the
\* second change of DisableEncryptedDNS could not read or open its file
\* (doh.go 295-302).
THEOREM AlwaysLoadedWhenIdle == Spec => []LoadedWhenIdle
<1>1. LoadedInv => LoadedWhenIdle
  BY DEF LoadedInv, LoadedWhenIdle, Idle, Ahead
<1> QED BY <1>1, LoadedInvariant, PTL

-----------------------------------------------------------------------------
(* The files implement DnsmasqSettings.                                    *)

\* The change a request is about is one that a page asks for, and a truncated
\* file has been read by the request that is about to write it.
Edits(o, s, drop, add) == o.sec = s /\ o.drop = drop /\ o.add = add

PageOp(r) ==
  \/ \E v \in Ranges : Edits(op[r], "range", Ranges, {v})
  \/ \E l \in Lists : Edits(op[r], "server", Lists, {l})
  \/ \E on \in SUBSET {"on"} : Edits(op[r], "strict", {"on"}, on)
  \/ \E n \in Names : Edits(op[r], "address", {n} \X IPs, {})
  \/ \E m \in MACs : Edits(op[r], "host", {m} \X IPs, {})

\* Every change a request turns to is one of them.
LEMMA PageOps ==
  ASSUME NEW r \in Requests, NEW edit, op'[r] = edit,
         \/ \E part \in Parts, l \in Lists : edit = Servers(part, l)
         \/ \E part \in Parts, on \in SUBSET {"on"} : edit = SetStrictOrder(part, on)
         \/ \E v \in Ranges : edit = Edit("page", "range", Ranges, {v})
         \/ \E n \in Names : edit = Edit("page", "address", {n} \X IPs, {})
         \/ \E m \in MACs : edit = Edit("page", "host", {m} \X IPs, {})
  PROVE  PageOp(r)'
BY DEF PageOp, Edits, Edit, Servers, SetStrictOrder

RewriteInv ==
  \A r \in Requests :
    /\ step[r] \in {"read", "truncate", "write"} => PageOp(r)
    /\ step[r] = "truncate" => got[r] = file[F(r)]

LEMMA RewriteInvariant == Spec => [](Serial => RewriteInv)
<1>1. Init => RewriteInv
  BY DEF Init, RewriteInv
<1>2. TypeInv /\ Serial /\ SerialInv /\ RewriteInv /\ [Next]_vars => RewriteInv'
  <2> SUFFICES ASSUME TypeInv, Serial, SerialInv, RewriteInv, [Next]_vars PROVE RewriteInv'
    OBVIOUS
  <2> USE DEF TypeInv, TypeOK
  <2>1. ASSUME NEW r \in Requests, Start(r) PROVE RewriteInv'
    <3>1. \A q \in Requests : q # r => step'[q] = "idle"
      BY <2>1 DEF Start, SaveDHCPConfig, SetUpstream, EnableEncryptedDNS, DisableEncryptedDNS,
         DeleteEntry, DeleteReservation, AddEntry, AddReservation, Begin, Go, Idle, Serial
    <3>2. step'[r] \in {"read", "check"} /\ (step'[r] = "read" => PageOp(r)')
      <4>1. ASSUME NEW edit, Begin(r, "read", edit),
                   \/ \E part \in Parts, l \in Lists : edit = Servers(part, l)
                   \/ \E part \in Parts, on \in SUBSET {"on"} : edit = SetStrictOrder(part, on)
                   \/ \E v \in Ranges : edit = Edit("page", "range", Ranges, {v})
                   \/ \E n \in Names : edit = Edit("page", "address", {n} \X IPs, {})
                   \/ \E m \in MACs : edit = Edit("page", "host", {m} \X IPs, {})
            PROVE  step'[r] = "read" /\ PageOp(r)'
        <5>1. step'[r] = "read" /\ op'[r] = edit
          BY <4>1 DEF Begin, Go
        <5> QED BY <4>1, <5>1, PageOps
      <4>2. ASSUME NEW edit, Begin(r, "check", edit) PROVE step'[r] = "check"
        BY <4>2 DEF Begin, Go
      <4> QED BY <2>1, <4>1, <4>2
              DEF Start, SaveDHCPConfig, SetUpstream, EnableEncryptedDNS, DisableEncryptedDNS,
                  DeleteEntry, DeleteReservation, AddEntry, AddReservation, Parts
    <3> QED
      BY <3>1, <3>2 DEF RewriteInv
  <2>2. ASSUME NEW r \in Requests, Read(r) PROVE RewriteInv'
    <3>1. /\ step[r] = "read" /\ step' = [step EXCEPT ![r] = "truncate"]
          /\ got' = [got EXCEPT ![r] = file[F(r)]] /\ UNCHANGED <<file, op>>
      BY <2>2 DEF Read, Go
    <3>2. \A q \in Requests : PageOp(q) => PageOp(q)'
      BY <3>1 DEF PageOp, Edits
    <3> QED BY <3>1, <3>2 DEF RewriteInv, F
  <2>3. ASSUME NEW r \in Requests, Truncate(r) PROVE RewriteInv'
    BY <2>3 DEF Truncate, Go, RewriteInv, PageOp, Edits, SerialInv, OneAtATime, SetFile, F
  <2>4. ASSUME NEW r \in Requests,
               Check(r) \/ AppendLine(r) \/ Write(r) \/ Reload(r) \/ StepFails(r)
        PROVE RewriteInv'
    <3>1. /\ step[r] # "idle" /\ step' = [step EXCEPT ![r] = step'[r]]
          /\ step'[r] \in {"idle", "append", "reload"} \/ (step'[r] = "read" /\ PageOp(r)')
      <4>1. ASSUME NEW to, NEW edit, Turn(r, to, edit)
            PROVE  step' = [step EXCEPT ![r] = to] /\ step'[r] = to /\ op'[r] = edit
        BY <4>1 DEF Turn
      <4>2. CASE Check(r) \/ AppendLine(r)
        BY <4>1, <4>2 DEF Check, AppendLine, End, Go
      <4>3. CASE Write(r)
        <5>1. ASSUME NEW l \in Lists, Turn(r, "read", Servers("restore", l)) PROVE PageOp(r)'
          BY <4>1, <5>1, PageOps DEF Parts
        <5> QED BY <4>1, <4>3, <5>1 DEF Write, WriteTo, Go
      <4>4. CASE Reload(r)
        <5>1. ASSUME Turn(r, "read", SetStrictOrder("page", {"on"})) PROVE PageOp(r)'
          BY <4>1, <5>1, PageOps DEF Parts
        <5> QED BY <4>1, <4>4, <5>1 DEF Reload, Restarted, End
      <4>5. CASE StepFails(r)
        BY <4>1, <4>5 DEF StepFails, End, FaultKinds
      <4> QED BY <2>4, <4>2, <4>3, <4>4, <4>5
    <3> QED
      BY <3>1 DEF RewriteInv, SerialInv, OneAtATime
  <2>5. CASE Reboot
    BY <2>5 DEF Reboot, RewriteInv
  <2>6. CASE UNCHANGED vars
    BY <2>6 DEF vars, RewriteInv, PageOp, Edits, F
  <2> QED
    BY <2>1, <2>2, <2>3, <2>4, <2>5, <2>6 DEF Next
<1>3. [Next]_vars => (Serial' <=> Serial)
  BY MayConstant DEF Serial
<1> QED
  BY <1>1, <1>2, <1>3, TypeInvariant, SerialInvariant, PTL DEF Spec

Mapped == [s \in Sections |-> Holds(Current(FileOf(s)), s)]

LEMMA CurrentWriter ==
  ASSUME TypeInv, SerialInv, NEW r \in Requests, step[r] = "write", NEW f
  PROVE  Current(f) = IF F(r) = f THEN got[r] ELSE file[f]
BY DEF Current, SerialInv, OneAtATime

\* What the files say, section by section.
Reading(files) == [s \in Sections |-> Holds(files[FileOf(s)], s)]

Applied(settings, s, drop, add) == [settings EXCEPT ![s] = (@ \ drop) \cup add]

\* The section s of one file is changed, and no other file.
Changed(before, after, s, drop, add) ==
  /\ after[FileOf(s)] = (before[FileOf(s)] \ ({s} \X drop)) \cup ({s} \X add)
  /\ \A f \in Files \ {FileOf(s)} : after[f] = before[f]

\* One change of a file is one change of the settings.
LEMMA ChangeIsOneSection ==
  ASSUME NEW before, NEW after, NEW s \in Sections, NEW drop, NEW add, add \subseteq Values[s],
         Changed(before, after, s, drop, add)
  PROVE  Reading(after) = Applied(Reading(before), s, drop, add)
<1>1. \A t \in Sections : FileOf(t) \in Files
  BY DEF FileOf, Files
<1>2. ASSUME NEW t \in Sections
      PROVE  Holds(after[FileOf(t)], t) =
               IF t = s THEN (Holds(before[FileOf(s)], s) \ drop) \cup add
                        ELSE Holds(before[FileOf(t)], t)
  <2>1. CASE FileOf(t) = FileOf(s)
    BY <2>1 DEF Holds, Changed
  <2>2. CASE FileOf(t) # FileOf(s)
    BY <1>1, <2>2 DEF Changed
  <2> QED
    BY <2>1, <2>2
<1> QED
  BY <1>2 DEF Reading, Applied

LEMMA MappedReading ==
  ASSUME NEW files, \A f \in Files : Current(f) = files[f]
  PROVE  Mapped = Reading(files)
BY DEF Mapped, Reading, FileOf, Files

LEMMA WriteIsChange ==
  ASSUME TypeInv, SerialInv, NEW r \in Requests, Write(r)
  PROVE  Mapped' = Applied(Mapped, op[r].sec, op[r].drop, op[r].add)
<1>1. step[r] = "write" /\ file' = [file EXCEPT ![F(r)] = New(r)]
  BY DEF Write, WriteTo, SetFile, SerialInv, RequestInv
<1>2. F(r) \in Files /\ \A q \in Requests : step'[q] # "write"
  BY <1>1 DEF Write, WriteTo, Turn, Go, TypeInv, TypeOK, SerialInv, OneAtATime, F, FileOf, Files
<1>3. \A f : Current(f) = IF F(r) = f THEN got[r] ELSE file[f]
  BY <1>1, CurrentWriter
<1>4. PICK before : before = [f \in Files |-> IF F(r) = f THEN got[r] ELSE file[f]]
  OBVIOUS
<1>5. Mapped = Reading(before)
  BY <1>3, <1>4, MappedReading
<1>6. Mapped' = Reading(file')
  <2>1. \A f : Current(f)' = file'[f]
    BY <1>2 DEF Current
  <2> QED
    BY <2>1 DEF Mapped, Reading, Holds
<1>7. Changed(before, file', op[r].sec, op[r].drop, op[r].add)
  BY <1>1, <1>2, <1>4 DEF New, TypeInv, TypeOK, Changed, F
<1>8. op[r].sec \in Sections /\ op[r].add \subseteq Values[op[r].sec]
  BY DEF TypeInv, TypeOK
<1>9. Reading(file') = Applied(Reading(before), op[r].sec, op[r].drop, op[r].add)
  BY <1>7, <1>8, ChangeIsOneSection
<1> QED
  BY <1>5, <1>6, <1>9

LEMMA AppendIsAdd ==
  ASSUME TypeInv, SerialInv, NEW r \in Requests, AppendLine(r)
  PROVE  /\ Mapped = Reading(file)
         /\ Mapped' = Applied(Mapped, op[r].sec, {}, op[r].add)
<1>1. step[r] = "append" /\ file' = [file EXCEPT ![F(r)] = @ \cup ({op[r].sec} \X op[r].add)]
  BY DEF AppendLine, Go, SetFile
<1>2. /\ F(r) \in Files
      /\ \A q \in Requests : step[q] # "write" /\ step'[q] # "write"
  BY <1>1 DEF AppendLine, Go, TypeInv, TypeOK, SerialInv, OneAtATime, F, FileOf, Files
<1>3. Mapped = Reading(file)
  BY <1>2, MappedReading DEF Current
<1>4. Mapped' = Reading(file')
  <2>1. \A f : Current(f)' = file'[f]
    BY <1>2 DEF Current
  <2> QED
    BY <2>1 DEF Mapped, Reading, Holds
<1>5. Changed(file, file', op[r].sec, {}, op[r].add)
  BY <1>1, <1>2 DEF TypeInv, TypeOK, Changed, F
<1>6. op[r].sec \in Sections /\ op[r].add \subseteq Values[op[r].sec]
  BY DEF TypeInv, TypeOK
<1>7. Reading(file') = Applied(Reading(file), op[r].sec, {}, op[r].add)
  BY <1>5, <1>6, ChangeIsOneSection
<1> QED
  BY <1>3, <1>4, <1>7

\* Every other step leaves what the files stand for alone.
LEMMA OtherStepsStutter ==
  ASSUME TypeInv, SerialInv, RewriteInv, Calm, [Next]_vars,
         ~\E r \in Requests : Write(r) \/ AppendLine(r)
  PROVE  Mapped' = Mapped
<1> SUFFICES ASSUME NEW f \in Files PROVE Current(f)' = Current(f)
  BY DEF Mapped, Holds, FileOf, Files
<1> USE DEF TypeInv, TypeOK
<1>1. ASSUME NEW r \in Requests, Truncate(r) PROVE Current(f)' = Current(f)
  <2>1. /\ step[r] = "truncate" /\ step' = [step EXCEPT ![r] = "write"]
        /\ file' = [file EXCEPT ![F(r)] = {}] /\ UNCHANGED <<op, got>>
    BY <1>1 DEF Truncate, Go, SetFile
  <2>2. \A q \in Requests : /\ step[q] # "write"
                            /\ step'[q] = "write" <=> q = r
    BY <2>1 DEF SerialInv, OneAtATime
  <2>3. Current(f) = file[f]
    BY <2>2 DEF Current
  <2>4. Current(f)' = IF F(r) = f THEN got[r] ELSE file'[f]
    BY <2>1, <2>2 DEF Current, F
  <2> QED
    BY <2>1, <2>3, <2>4 DEF RewriteInv, F
<1>2. ASSUME NEW r \in Requests,
             Start(r) \/ Check(r) \/ Read(r) \/ Reload(r) \/ StepFails(r)
      PROVE  Current(f)' = Current(f)
  <2>1. /\ step[r] # "write" /\ step'[r] # "write" /\ file' = file
        /\ \A q \in Requests \ {r} : step'[q] = step[q] /\ op'[q] = op[q] /\ got'[q] = got[q]
    <3>1. CASE Start(r)
      BY <3>1 DEF Start, SaveDHCPConfig, SetUpstream, EnableEncryptedDNS, DisableEncryptedDNS,
         DeleteEntry, DeleteReservation, AddEntry, AddReservation, Begin, Go
    <3>2. CASE Check(r)
      BY <3>2 DEF Check, Go, End, Turn
    <3>3. CASE Read(r)
      BY <3>3 DEF Read, Go
    <3>4. CASE Reload(r) \/ StepFails(r)
      BY <3>4 DEF Reload, Restarted, StepFails, End, Turn, Calm, Serial, FaultKinds
    <3> QED
      BY <1>2, <3>1, <3>2, <3>3, <3>4
  <2>2. CASE \E q \in Requests : step[q] = "write" /\ F(q) = f
    <3>1. PICK q \in Requests : step[q] = "write" /\ F(q) = f
      BY <2>2
    <3>2. \A p \in Requests : step[p] = "write" => p = q
      BY <3>1 DEF SerialInv, OneAtATime
    <3>3. q # r /\ step'[q] = "write" /\ F(q)' = f /\ got'[q] = got[q]
      BY <2>1, <3>1 DEF F
    <3>4. \A p \in Requests : step'[p] = "write" => p = q
      BY <2>1, <3>2
    <3>5. Current(f) = got[q]
      BY <3>1, <3>2 DEF Current
    <3>6. Current(f)' = got'[q]
      BY <3>3, <3>4 DEF Current
    <3> QED
      BY <3>3, <3>5, <3>6
  <2>3. CASE ~\E q \in Requests : step[q] = "write" /\ F(q) = f
    <3>1. ~\E q \in Requests : step'[q] = "write" /\ F(q)' = f
      BY <2>1, <2>3 DEF F
    <3> QED
      BY <2>1, <2>3, <3>1 DEF Current
  <2> QED
    BY <2>2, <2>3
<1>3. CASE UNCHANGED vars
  BY <1>3 DEF vars, Current, F
<1> QED
  BY <1>1, <1>2, <1>3 DEF Next, Reboot, Calm

\* Whatever may go wrong, the files implement what DnsmasqSettings promises: when
\* requests do not overlap, nothing interrupts a rewrite between its truncation
\* and its write, and the duplicate checks can read the file, every request is
\* one change of its own section.
THEOREM FilesImplementSettings == Spec => ImplementsSettings
<1>1. Init => Settings!Init
  <2> SUFFICES ASSUME Init PROVE Settings!Init
    OBVIOUS
  <2>1. PICK v \in Ranges, l \in Lists :
          file = [f \in Files |-> IF f = Conf THEN {<<"range", v>>, <<"server", l>>} ELSE {}]
    BY DEF Init
  <2>2. \A f \in Files : Current(f) = file[f]
    BY DEF Current, Init
  <2>3. Mapped = Reading(file)
    BY <2>2, MappedReading
  <2>4. Reading(file) = [s \in Sections |-> CASE s = "range"  -> {v}
                                             [] s = "server" -> {l}
                                             [] OTHER        -> {}]
    BY <2>1 DEF Reading, Holds, Sections, FileOf, Files, Conf, Reservations, Values
  <2> QED
    BY <2>3, <2>4 DEF Settings!Init, Mapped, Sections, Settings!Sections, Calm
<1>2. TypeInv /\ SerialInv /\ RewriteInv /\ Calm /\ [Next]_vars
        => Settings!Request \/ Mapped' = Mapped
  <2> SUFFICES ASSUME TypeInv, SerialInv, RewriteInv, Calm, [Next]_vars
               PROVE  Settings!Request \/ Mapped' = Mapped
    OBVIOUS
  <2>1. ASSUME NEW r \in Requests, Write(r) PROVE Settings!Request
    <3>1. Mapped' = Applied(Mapped, op[r].sec, op[r].drop, op[r].add)
      BY <2>1, WriteIsChange
    <3>2. PageOp(r)
      BY <2>1 DEF Write, WriteTo, RewriteInv
    <3>3. Settings!Change(op[r].sec, op[r].drop, op[r].add)
      BY <3>1 DEF Applied, Settings!Change, Mapped
    <3>4. ASSUME NEW v \in Ranges, Edits(op[r], "range", Ranges, {v})
          PROVE  Settings!Request
      <4>1. Settings!SaveDHCPConfig(v)
        BY <3>3, <3>4 DEF Edits, Settings!SaveDHCPConfig
      <4> QED
        BY <4>1 DEF Settings!Request
    <3>5. ASSUME NEW l \in Lists, Edits(op[r], "server", Lists, {l})
          PROVE  Settings!Request
      <4>1. Settings!SetUpstream(l)
        BY <3>3, <3>5 DEF Edits, Settings!SetUpstream
      <4> QED
        BY <4>1 DEF Settings!Request
    <3>6. ASSUME NEW on \in SUBSET {"on"}, Edits(op[r], "strict", {"on"}, on)
          PROVE  Settings!Request
      <4>1. Settings!SetStrictOrder(on)
        BY <3>3, <3>6 DEF Edits, Settings!SetStrictOrder
      <4> QED
        BY <4>1 DEF Settings!Request
    <3>7. ASSUME NEW n \in Names, Edits(op[r], "address", {n} \X IPs, {})
          PROVE  Settings!Request
      <4>1. Settings!DeleteEntry(n)
        BY <3>3, <3>7 DEF Edits, Settings!DeleteEntry
      <4> QED
        BY <4>1 DEF Settings!Request
    <3>8. ASSUME NEW m \in MACs, Edits(op[r], "host", {m} \X IPs, {})
          PROVE  Settings!Request
      <4>1. Settings!DeleteReservation(m)
        BY <3>3, <3>8 DEF Edits, Settings!DeleteReservation
      <4> QED
        BY <4>1 DEF Settings!Request
    <3> QED
      BY <3>2, <3>4, <3>5, <3>6, <3>7, <3>8 DEF PageOp
  <2>2. ASSUME NEW r \in Requests, AppendLine(r) PROVE Settings!Request
    <3>1. Mapped = Reading(file) /\ Mapped' = Applied(Mapped, op[r].sec, {}, op[r].add)
      BY <2>2, AppendIsAdd
    <3>2. step[r] = "append"
      BY <2>2 DEF AppendLine, Go
    <3>3. PICK v : op[r].add = {v}
      BY <3>2 DEF SerialInv, RequestInv
    <3>4. op[r].sec \in Keyed /\ v \in Values[op[r].sec]
      BY <3>2, <3>3 DEF SerialInv, RequestInv, TypeInv, TypeOK
    <3>5. \A w \in Mapped[op[r].sec] : ~Clash(op[r].sec, v, w)
      BY <3>1, <3>2, <3>3, <3>4 DEF Reading, SerialInv, RequestInv, F, Keyed, Sections
    <3>6. Settings!Add(op[r].sec, v)
      BY <3>1, <3>3, <3>5 DEF Settings!Add, Settings!Clash, Clash, Settings!Change, Applied, Mapped
    <3>7. Settings!Values[op[r].sec] = Values[op[r].sec]
      BY DEF Settings!Values, Values
    <3> QED
      BY <3>4, <3>6, <3>7 DEF Settings!Request, Keyed
  <2> QED
    BY <2>1, <2>2, OtherStepsStutter
<1>3. [Next]_vars => Calm' = Calm
  BY MayConstant DEF Calm, Serial
<1>4. TypeInv /\ (Serial => SerialInv) /\ (Serial => RewriteInv) /\ [Next]_vars
        => [Settings!Next]_<<Mapped, Calm>>
  <2> SUFFICES ASSUME TypeInv, Serial => SerialInv, Serial => RewriteInv, [Next]_vars
               PROVE  [Settings!Next]_<<Mapped, Calm>>
    OBVIOUS
  <2>1. Calm' = Calm
    BY <1>3
  <2>2. CASE Calm
    <3>1. SerialInv /\ RewriteInv
      BY <2>2 DEF Calm
    <3>2. Settings!Request \/ Mapped' = Mapped
      BY <1>2, <2>2, <3>1
    <3> QED
      BY <2>1, <3>2 DEF Settings!Next
  <2>3. CASE ~Calm
    BY <2>1, <2>3 DEF Settings!Next
  <2> QED
    BY <2>2, <2>3
<1> QED
  BY <1>1, <1>4, TypeInvariant, SerialInvariant, RewriteInvariant, PTL
     DEF Spec, ImplementsSettings, Settings!Spec, Mapped
=============================================================================
