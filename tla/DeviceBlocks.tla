---------------------------- MODULE DeviceBlocks ----------------------------
(***************************************************************************)
(* Blocking a device keeps three stores in step: the table device_blocks,  *)
(* the DROP rules at the top of the kernel's FORWARD chain, and the script *)
(* that puts the rules back when the firewall is reloaded or the router    *)
(* boots (internal/system/device_blocks.go, called by the dashboard).      *)
(*                                                                         *)
(* A handler takes no lock, so it is cut at each access to a store.        *)
(***************************************************************************)
EXTENDS Naturals, FiniteSets

CONSTANTS
  Requests,      \* slots for HTTP requests in flight
  MACs,          \* the devices on the LAN
  MaxRules,      \* bound on the DROP rules one device may collect
  Environments   \* the sets of mishaps a behaviour may have to live with

\* "stale":   a click from a page that no longer shows the state of its device (an
\*            old tab, a retry, a double click)
\* "overlap": two requests in flight at once
\* "fault":   a step that fails
\* "reload":  a firewall reload or a reboot between requests
\* "midway":  one during a request, which may find the script empty
Mishaps == {"stale", "overlap", "fault", "reload", "midway"}

ASSUME BlocksAssumption ==
  MaxRules \in Nat \ {0} /\ Environments \subseteq SUBSET Mishaps

VARIABLES
  may,      \* the mishaps of this behaviour, chosen once
  blocked,  \* rows of device_blocks
  rules,    \* rules[m]: number of DROP rules for m in FORWARD
  script,   \* the devices 70-device-blocks.sh drops
  step,     \* where each request is
  mac,      \* the device each request is about
  listed    \* the rows a request has read and is about to write

vars == <<may, blocked, rules, script, step, mac, listed>>

Steps == {"idle", "insertRule", "deleteRule", "list", "truncate", "write"}

Init ==
  /\ may \in Environments
  /\ blocked = {}
  /\ rules = [m \in MACs |-> 0]
  /\ script = {}
  /\ step = [r \in Requests |-> "idle"]
  /\ mac \in [Requests -> MACs]
  /\ listed = [r \in Requests |-> {}]

Go(r, from, to) ==
  /\ step[r] = from
  /\ step' = [step EXCEPT ![r] = to]

Idle == \A r \in Requests : step[r] = "idle"

-----------------------------------------------------------------------------
(* Plausible bugs, for the sensitivity of the properties below.            *)

DeleteRuleSkipsScript(r) ==
  /\ Go(r, "deleteRule", "idle")
  /\ rules' = [rules EXCEPT ![mac[r]] = 0]
  /\ UNCHANGED <<may, blocked, script, mac, listed>>

InsertRuleUnlessInScript(r) ==
  /\ Go(r, "insertRule", "list")
  /\ rules' = IF mac[r] \in script THEN rules ELSE [rules EXCEPT ![mac[r]] = 1]
  /\ UNCHANGED <<may, blocked, script, mac, listed>>

ListIncrementally(r) ==
  /\ Go(r, "list", "truncate")
  /\ listed' = [listed EXCEPT ![r] =
                  IF mac[r] \in blocked THEN script \cup {mac[r]} ELSE script \ {mac[r]}]
  /\ UNCHANGED <<may, blocked, rules, script, mac>>

-----------------------------------------------------------------------------
(* The two handlers.  A row the database refuses ends the request with     *)
(* nothing changed and is left out.                                        *)

InFlight(m) == \E r \in Requests : step[r] # "idle" /\ mac[r] = m

\* A click on the button the page shows, or any click from a stale page.
MayStart(m, shown) ==
  /\ "overlap" \in may \/ Idle
  /\ "stale" \in may \/ (shown /\ ~InFlight(m))

Inserting(m) == {r \in Requests : step[r] = "insertRule" /\ mac[r] = m}

StartBlock(r, m) ==
  /\ rules[m] + Cardinality(Inserting(m)) < MaxRules    \* bound
  /\ MayStart(m, m \notin blocked)
  /\ Go(r, "idle", "insertRule")
  /\ mac' = [mac EXCEPT ![r] = m]
  /\ blocked' = blocked \cup {m}
  /\ UNCHANGED <<may, rules, script, listed>>

\* Runs whether or not the row was already there; its error is dropped.
InsertRule(r) ==
  /\ Go(r, "insertRule", "list")
  /\ \/ rules' = [rules EXCEPT ![mac[r]] = @ + 1]
     \/ "fault" \in may /\ rules' = rules
  /\ UNCHANGED <<may, blocked, script, mac, listed>>

StartUnblock(r, m) ==
  /\ MayStart(m, m \in blocked)
  /\ Go(r, "idle", "deleteRule")
  /\ mac' = [mac EXCEPT ![r] = m]
  /\ blocked' = blocked \ {m}
  /\ UNCHANGED <<may, rules, script, listed>>

\* iptables -D removes the first match only, and nothing when there is none.
DeleteRule(r) ==
  /\ Go(r, "deleteRule", "list")
  /\ \/ rules' = [rules EXCEPT ![mac[r]] = IF @ = 0 THEN 0 ELSE @ - 1]
     \/ "fault" \in may /\ rules' = rules
  /\ UNCHANGED <<may, blocked, script, mac, listed>>

\* writeBlocksScript: the rows are read, the file is truncated, then written.
ListRows(r) ==
  /\ \/ Go(r, "list", "truncate") /\ listed' = [listed EXCEPT ![r] = blocked]
     \/ "fault" \in may /\ Go(r, "list", "idle") /\ UNCHANGED listed
  /\ UNCHANGED <<may, blocked, rules, script, mac>>

Truncate(r) ==
  /\ \/ Go(r, "truncate", "write") /\ script' = {} /\ UNCHANGED listed
     \/ "fault" \in may /\ Go(r, "truncate", "idle")
        /\ listed' = [listed EXCEPT ![r] = {}] /\ UNCHANGED script
  /\ UNCHANGED <<may, blocked, rules, mac>>

\* The rows in writing take the place of what is there; the end of what another
\* request has written since the file was truncated may stay behind them.
Written(r, writing) ==
  /\ Go(r, "write", "idle")
  /\ \E beyond \in SUBSET script : script' = writing \cup beyond
  /\ listed' = [listed EXCEPT ![r] = {}]
  /\ UNCHANGED <<may, blocked, rules, mac>>

WriteScript(r) == Written(r, listed[r])

\* The disk is full, say: only the first lines get there, and rows are in no order.
WriteFails(r) == "fault" \in may /\ \E part \in SUBSET listed[r] : Written(r, part)

MayReload == "midway" \in may \/ ("reload" \in may /\ Idle)

\* ApplyFirewall: the orchestrator flushes FORWARD and runs every script.
ReloadFirewall ==
  /\ MayReload
  /\ rules' = [m \in MACs |-> IF m \in script THEN 1 ELSE 0]
  /\ UNCHANGED <<may, blocked, script, step, mac, listed>>

\* The router boots: the orchestrator runs, and requests in flight are gone.
Reboot ==
  /\ MayReload
  /\ rules' = [m \in MACs |-> IF m \in script THEN 1 ELSE 0]
  /\ step' = [r \in Requests |-> "idle"]
  /\ listed' = [r \in Requests |-> {}]
  /\ UNCHANGED <<may, blocked, script, mac>>

Next ==
  \/ \E r \in Requests, m \in MACs : StartBlock(r, m)
  \/ \E r \in Requests, m \in MACs : StartUnblock(r, m)
  \/ \E r \in Requests : InsertRule(r)
  \/ \E r \in Requests : DeleteRule(r)
  \/ \E r \in Requests : ListRows(r)
  \/ \E r \in Requests : Truncate(r)
  \/ \E r \in Requests : WriteScript(r)
  \/ \E r \in Requests : WriteFails(r)
  \/ ReloadFirewall
  \/ Reboot

Spec == Init /\ [][Next]_vars

-----------------------------------------------------------------------------
(* Properties.                                                             *)

BlockedRules(m) == IF m \in blocked THEN 1 ELSE 0

\* One click at a time, nothing failing: once the request is over the table, the
\* kernel and the script agree, through reloads and reboots.
InSyncWhenIdle ==
  may \subseteq {"reload"} /\ Idle =>
    script = blocked /\ \A m \in MACs : rules[m] = BlockedRules(m)

RulesMatch == \A m \in MACs : ~InFlight(m) => rules[m] = BlockedRules(m)

\* Overlapping requests for different devices never disturb each other's rule: a
\* device no request is about is dropped exactly when its row says so.
RulesFollowRows == may \subseteq {"overlap"} => RulesMatch

\* Requests one after the other: whatever failed, was clicked twice or was cut
\* short before, a write that succeeds leaves the whole table in the script, so the
\* next request heals what a failed one left; and a script that is empty or lacks
\* lines meanwhile never has a device too many (device_blocks.go 68-85).
ScriptHeals ==
  [][ "overlap" \notin may =>
        /\ \A r \in Requests : WriteScript(r) => script' = blocked'
        /\ script' # script => script' \subseteq blocked' ]_vars
=============================================================================
