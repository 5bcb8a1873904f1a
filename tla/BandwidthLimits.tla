--------------------------- MODULE BandwidthLimits ---------------------------
(***************************************************************************)
(* Download limits per device: the table device_bandwidth_limits, the boot *)
(* script generated from it, and the kernel state (marks, HTB classes and  *)
(* filters) the script builds (internal/system/bandwidth_limits.go).       *)
(*                                                                         *)
(* Every apply lists the table, writes the script and runs it; nothing     *)
(* serialises two applies, so their scripts interleave command by command. *)
(***************************************************************************)
EXTENDS Integers, FiniteSets, Sequences

CONSTANTS
  Applies,       \* slots for the applies at work: requests, and the one main starts
  MACs,          \* the devices, as numbers in the alphabetical order of their MACs
  Mbps,          \* the limits a user may choose
  classIDStart, classIDMax,   \* the constants of that name
  defaultClass,  \* the class of "htb default 30"
  Preload,       \* devices limited before the service starts
  Environments   \* the sets of mishaps a behaviour may have to live with

\* "overlap": applies and firewall reloads at the same time
\* "fault":   a query or a file write that fails
\* "orphan":  a service that dies while a script runs: the shell goes on without it
Mishaps == {"overlap", "fault", "orphan"}

ASSUME LimitsAssumption ==
  /\ MACs \subseteq Nat \ {0} /\ IsFiniteSet(MACs) /\ Preload \subseteq MACs
  /\ Mbps \subseteq Nat \ {0}
  /\ {classIDStart, classIDMax, defaultClass} \subseteq Nat \ {0}
  /\ Environments \subseteq SUBSET Mishaps

VARIABLES
  may,       \* the mishaps of this behaviour, chosen once
  rows,      \* rows[m]: download_mbps of m, or NoLimit
  file,      \* the commands in 80-bandwidth-limits.sh
  kernel,    \* the mangle chain BWLIMIT and the qdisc of lan
  step,      \* where each apply is
  snapshot,  \* the table an apply has listed
  pos,       \* the command of its script an apply is at
  alone      \* history: no other apply or reload ran since this apply began

vars == <<may, rows, file, kernel, step, snapshot, pos, alone>>

NoLimit == 0
NoLimits == [m \in MACs |-> NoLimit]
LineRate == 1000                     \* of the parent and the default class
parentClass == 1

-----------------------------------------------------------------------------
(* generateBandwidthScript.                                                *)

Command ==
  [op : {"resetMarks", "resetTc"}]
  \cup [op : {"mark"}, mac : MACs, id : classIDStart..classIDMax]
  \cup [op : {"class"}, id : classIDStart..classIDMax, mbps : Mbps]
  \cup [op : {"filter"}, id : classIDStart..classIDMax]

Limited(limits) == {m \in MACs : limits[m] # NoLimit}

ClassIDFromZero(limits, m) == Cardinality({n \in Limited(limits) : n < m})  \* a bug

\* Devices are numbered in the order of their MACs.
ClassID(limits, m) == classIDStart + Cardinality({n \in Limited(limits) : n < m})

Installed(limits) == {m \in Limited(limits) : ClassID(limits, m) <= classIDMax}

\* The device in place i of the script.
Nth(limits, i) ==
  CHOOSE m \in Installed(limits) : Cardinality({n \in Installed(limits) : n < m}) = i - 1

Script(limits) ==
  LET count == Cardinality(Installed(limits))
      id(i) == ClassID(limits, Nth(limits, i))
  IN  <<[op |-> "resetMarks"]>>
      \o [i \in 1 .. count |-> [op |-> "mark", mac |-> Nth(limits, i), id |-> id(i)]]
      \o <<[op |-> "resetTc"]>>
      \o [i \in 1 .. 2 * count |->
           IF i % 2 = 1
           THEN [op |-> "class", id |-> id((i + 1) \div 2), mbps |-> limits[Nth(limits, (i + 1) \div 2)]]
           ELSE [op |-> "filter", id |-> id(i \div 2)]]

-----------------------------------------------------------------------------
(* The kernel.  MARK goes on to the next rule, so a device's last mark     *)
(* wins; adding a class that exists is an error the shell ignores.         *)

EmptyKernel == [marks |-> NoLimits, classes |-> [i \in {} |-> LineRate], filters |-> {}]

AddClass(classes, c) ==
  [i \in DOMAIN classes \cup {c.id} |-> IF i \in DOMAIN classes THEN classes[i] ELSE c.mbps]

Exec(k, c) ==
  CASE c.op = "resetMarks" -> [k EXCEPT !.marks = NoLimits]
    [] c.op = "mark"       -> [k EXCEPT !.marks[c.mac] = c.id]
    [] c.op = "resetTc"    -> [k EXCEPT
         !.classes = [i \in {parentClass, defaultClass} |-> LineRate],
         !.filters = {}]
    [] c.op = "class"      -> [k EXCEPT !.classes = AddClass(@, c)]
    [] c.op = "filter"     -> [k EXCEPT !.filters = @ \cup {c.id}]

RunAll(k, script) ==
  LET ran[n \in 0 .. Len(script)] == IF n = 0 THEN k ELSE Exec(ran[n - 1], script[n])
  IN  ran[Len(script)]

\* The rate the kernel gives to a device.
Rate(k, m) ==
  LET id == k.marks[m]
  IN  IF id \in k.filters /\ id \in DOMAIN k.classes THEN k.classes[id] ELSE LineRate

-----------------------------------------------------------------------------
\* The goroutine main starts: it applies the table.
StartUp(p) == [q \in Applies |-> IF q = p THEN "list" ELSE "idle"]

Init ==
  /\ may \in Environments
  /\ rows \in [MACs -> {NoLimit} \cup Mbps] /\ Limited(rows) = Preload
  /\ file = <<>>
  /\ kernel = EmptyKernel
  /\ step \in {StartUp(p) : p \in Applies}
  /\ snapshot = [p \in Applies |-> NoLimits]
  /\ pos = [p \in Applies |-> 1]
  /\ alone = [p \in Applies |-> TRUE]

Idle == \A p \in Applies : step[p] = "idle"
Scripts == {p \in Applies : step[p] = "run"}

Go(p, from, to) ==
  /\ step[p] = from
  /\ step' = [step EXCEPT ![p] = to]

EndApply(p) ==
  /\ step' = [step EXCEPT ![p] = "idle"]
  /\ snapshot' = [snapshot EXCEPT ![p] = NoLimits]
  /\ pos' = [pos EXCEPT ![p] = 1]

NextCommand(p) ==
  /\ pos' = [pos EXCEPT ![p] = @ + 1]
  /\ UNCHANGED <<step, snapshot>>

\* Plausible bugs, for the sensitivity of the properties below.
RestartWithoutApply(p) ==
  /\ Scripts = {}
  /\ step' = [q \in Applies |-> "idle"]
  /\ snapshot' = [q \in Applies |-> NoLimits]
  /\ UNCHANGED <<may, rows, file, kernel, pos, alone>>

RunCommandOnOldTc(p) ==
  /\ step[p] = "run"
  /\ LET script == Script(snapshot[p])
     IN  /\ kernel' = IF script[pos[p]].op = "resetTc" /\ kernel.classes # EmptyKernel.classes
                      THEN kernel ELSE Exec(kernel, script[pos[p]])
         /\ IF pos[p] = Len(script) THEN EndApply(p) ELSE NextCommand(p)
  /\ UNCHANGED <<may, rows, file, alone>>

-----------------------------------------------------------------------------
(* The handlers of the dashboard.  A row the database refuses ends the     *)
(* request with nothing changed and is left out.                           *)

ChangeRow(p, m, limit) ==
  /\ "overlap" \in may \/ Idle
  /\ Go(p, "idle", "list")
  /\ rows' = [rows EXCEPT ![m] = limit]
  /\ alone' = [q \in Applies |-> IF q = p THEN Idle ELSE FALSE]
  /\ UNCHANGED <<may, file, kernel, snapshot, pos>>

SetBandwidthLimit(p, m, limit) == ChangeRow(p, m, limit)
DeleteBandwidthLimit(p, m)     == ChangeRow(p, m, NoLimit)

\* ApplyAllBandwidthLimits: list, truncate the script, write it, run it.
List(p) ==
  /\ Go(p, "list", "truncate")
  /\ snapshot' = [snapshot EXCEPT ![p] = rows]
  /\ UNCHANGED <<may, rows, file, kernel, pos, alone>>

Truncate(p) ==
  /\ Go(p, "truncate", "write")
  /\ file' = <<>>
  /\ UNCHANGED <<may, rows, kernel, snapshot, pos, alone>>

\* The text takes the place of what is there; the end of what another apply has
\* written since the file was truncated stays behind it.
Put(text) == file' = text \o SubSeq(file, Len(text) + 1, Len(file))

Write(p) ==
  /\ Go(p, "write", "run")
  /\ Put(Script(snapshot[p]))
  /\ UNCHANGED <<may, rows, kernel, snapshot, pos, alone>>

ApplyFails(p) ==
  /\ "fault" \in may
  /\ \/ step[p] \in {"list", "truncate"} /\ UNCHANGED file
     \/ /\ step[p] = "write"
        /\ \E n \in 0 .. Len(Script(snapshot[p])) : Put(SubSeq(Script(snapshot[p]), 1, n))
  /\ EndApply(p)
  /\ UNCHANGED <<may, rows, kernel, alone>>

RunCommand(p) ==
  /\ step[p] = "run"
  /\ LET script == Script(snapshot[p])
     IN  /\ kernel' = Exec(kernel, script[pos[p]])
         /\ IF pos[p] = Len(script) THEN EndApply(p) ELSE NextCommand(p)
  /\ UNCHANGED <<may, rows, file, alone>>

\* The firewall orchestrator runs the script file, from ApplyFirewall.
ReloadFirewall ==
  /\ "overlap" \in may \/ Idle
  /\ kernel' = RunAll(kernel, file)
  /\ alone' = [p \in Applies |-> FALSE]
  /\ UNCHANGED <<may, rows, file, step, snapshot, pos>>

\* The service dies, at any step, and starts again, with an apply in slot p.  The
\* shell of a script that runs is a process of its own and goes on beside it.
Restart(p) ==
  /\ step[p] # "run"
  /\ Scripts = {} \/ "orphan" \in may
  /\ step' = [q \in Applies |-> IF q \in Scripts THEN "run" ELSE StartUp(p)[q]]
  /\ snapshot' = [q \in Applies |-> IF q \in Scripts THEN snapshot[q] ELSE NoLimits]
  /\ alone' = [q \in Applies |-> q = p /\ Scripts = {}]
  /\ UNCHANGED <<may, rows, file, kernel, pos>>

\* The router boots, at any step: the orchestrator runs the file on a kernel that
\* holds nothing yet, then the service starts.
Reboot(p) ==
  /\ kernel' = RunAll(EmptyKernel, file)
  /\ step' = StartUp(p)
  /\ snapshot' = [q \in Applies |-> NoLimits]
  /\ pos' = [q \in Applies |-> 1]
  /\ alone' = [q \in Applies |-> TRUE]
  /\ UNCHANGED <<may, rows, file>>

Next ==
  \/ \E p \in Applies, m \in MACs, limit \in Mbps : SetBandwidthLimit(p, m, limit)
  \/ \E p \in Applies, m \in MACs : DeleteBandwidthLimit(p, m)
  \/ \E p \in Applies : List(p)
  \/ \E p \in Applies : Truncate(p)
  \/ \E p \in Applies : Write(p)
  \/ \E p \in Applies : ApplyFails(p)
  \/ \E p \in Applies : RunCommand(p)
  \/ ReloadFirewall
  \/ \E p \in Applies : Restart(p)
  \/ \E p \in Applies : Reboot(p)

Spec == Init /\ [][Next]_vars

-----------------------------------------------------------------------------
(* Properties.                                                             *)

TypeOK ==
  /\ may \in Environments
  /\ rows \in [MACs -> {NoLimit} \cup Mbps]
  /\ file \in Seq(Command)
  /\ step \in [Applies -> {"idle", "list", "truncate", "write", "run"}]
  /\ snapshot \in [Applies -> [MACs -> {NoLimit} \cup Mbps]]
  /\ \A p \in Applies : pos[p] \in 1..Len(Script(snapshot[p]))
  /\ \A m \in MACs : kernel.marks[m] \in {0} \cup classIDStart..classIDMax

\* The devices whose limit is in force: those that are given a class, and not the
\* parent or the default class, where "tc class add" fails.
Shaped(limits) == {m \in Installed(limits) : ClassID(limits, m) \notin {parentClass, defaultClass}}

InSync ==
  /\ file = Script(rows)
  /\ \A m \in MACs : Rate(kernel, m) = IF m \in Shaped(rows) THEN rows[m] ELSE LineRate

\* Applies that do not overlap leave every device that has a class of its own with
\* the rate of its row, and the others alone, in the kernel and in the script:
\* through reloads, through boots at any command, and through a service that dies
\* between two applies or before its script runs, the script being cut short or not
\* written, and applies the table when it starts again.
InSyncWhenIdle == may = {} /\ Idle => InSync

\* Whatever races, failures, orphaned scripts and scripts cut short left behind, an
\* apply that nothing overlaps and that completes repairs all of it.
LoneApplyRepairs ==
  [][\A p \in Applies : RunCommand(p) /\ step'[p] = "idle" /\ alone[p] => InSync']_vars
=============================================================================
