---------------------------- MODULE CustomRules ----------------------------
(***************************************************************************)
(* /etc/firewall.d/99-custom.sh and the custom rules of the firewall page  *)
(* (internal/system/firewall.go 252-348, internal/handler/firewall.go      *)
(* 125-173, web/templates/firewall.html, web/static/app.js 114-118).       *)
(*                                                                         *)
(* The file is a sequence of lines: an iptables command that appends a     *)
(* rule to a chain ("rule"), any other iptables command ("other", written  *)
(* in the raw editor: a policy, a flush), a comment, or anything else      *)
(* ("text": the #! line, blank lines).  Every line carries a number of its *)
(* own; a comment, the number of the rule it was stored with.  A browser   *)
(* window shows a list of rules and deletes one by its place in the list.  *)
(***************************************************************************)
EXTENDS Naturals, FiniteSets, Sequences, SequencesExt

CONSTANTS
  Windows,       \* browser windows with the firewall page
  Slots,         \* slots for the requests of the page that are under way
  RulesEnvironments,  \* the sets of mishaps a behaviour may have to live with
  MaxAdded       \* bound: the rules ever added, in each environment

\* "overlap": requests that work on the file at the same time
\* "fault":   a request that fails, or dies with the service, at any step
\* "byHand":  another iptables command that is written in the raw editor
RulesMishaps == {"overlap", "fault", "byHand"}

ASSUME CustomRulesAssumption ==
  RulesEnvironments \subseteq SUBSET RulesMishaps /\ MaxAdded \in [RulesEnvironments -> Nat]

VARIABLES
  allowed,    \* the mishaps of this behaviour, chosen once
  exists,     \* whether the file exists
  lines,      \* its lines
  added,      \* how many rules have been added
  shown,      \* shown[w]: the rules the list of window w shows, by number
  stage,      \* where each request is
  job,        \* what it is about: a window, and a rule it adds or the place of one
  got,        \* the lines a request has read and is about to write again
  lone        \* history: no other request has changed the file since it was read

rulesVars == <<allowed, exists, lines, added, shown, stage, job, got, lone>>

\* A line of kind "rule", "other", "comment" or "text".
L(kind, id) == [kind |-> kind, id |-> id]
Text == L("text", 0)

\* parseIPTablesLine: only a command with -A or -I has a chain.
HasChain(l) == l.kind = "rule"

\* strings.HasPrefix(line, "iptables")
IsIPTables(l) == l.kind \in {"rule", "other"}

\* The places in the file of the commands, and of those the page lists.
Commands(ls) == {i \in 1 .. Len(ls) : IsIPTables(ls[i])}
Listed(ls) == {i \in Commands(ls) : HasChain(ls[i])}

\* How many of these places come before i, and the k-th of them.
Before(places, i) == Cardinality({j \in places : j < i})
Nth(places, k) == CHOOSE i \in places : Before(places, i) = k - 1

\* GetCustomRules: the rules the page lists, in order.
GetCustomRules(ls) == [k \in 1 .. Cardinality(Listed(ls)) |-> ls[Nth(Listed(ls), k)].id]

Stages == {"idle", "sent", "stat", "truncate", "write", "append", "answer"}

NoJob == [does |-> "none", window |-> "none", place |-> 0, rule |-> 0, commented |-> FALSE]
Adding(w, commented)   == [does |-> "add", window |-> w, place |-> 0, rule |-> 0, commented |-> commented]
Deleting(w, place, id) == [does |-> "delete", window |-> w, place |-> place, rule |-> id, commented |-> FALSE]

RulesInit ==
  /\ allowed \in RulesEnvironments
  /\ exists = FALSE
  /\ lines = <<>>
  /\ added = 0
  /\ shown = [w \in Windows |-> <<>>]
  /\ stage = [r \in Slots |-> "idle"]
  /\ job = [r \in Slots |-> NoJob]
  /\ got = [r \in Slots |-> <<>>]
  /\ lone = [r \in Slots |-> FALSE]

-----------------------------------------------------------------------------
(* DeleteCustomRule                                                        *)

\* A bug: counting places from 1.
RuleIdxFromOne(ls, i) == Before(Commands(ls), i) + 1

\* ruleIdx when the loop is at line i; places in the list count from 0.
RuleIdx(ls, i) == Before(Commands(ls), i)

\* The lines that are kept: all but the command at this index. (The empty line that
\* every deletion leaves at the end is not told apart from none.)
Remaining(ls, index) ==
  LET gone == {i \in Commands(ls) : RuleIdx(ls, i) = index}
  IN  IF gone = {} THEN ls
      ELSE RemoveAt(ls, CHOOSE i \in gone : TRUE)

-----------------------------------------------------------------------------
(* The operations.  No lock is taken, so a request is cut at each access   *)
(* to the file.                                                            *)

\* The requests that work on the file, and those of a window.
Working == {r \in Slots : stage[r] \notin {"idle", "sent"}}
Waiting(w) == {r \in Slots : stage[r] # "idle" /\ job[r].window = w}
MayWork == "overlap" \in allowed \/ Working = {}

Proceed(r, from, to) ==
  /\ stage[r] = from
  /\ stage' = [stage EXCEPT ![r] = to]

End(r) ==
  /\ stage' = [stage EXCEPT ![r] = "idle"]
  /\ job' = [job EXCEPT ![r] = NoJob]
  /\ got' = [got EXCEPT ![r] = <<>>]

\* The file as a request leaves it, and the requests that may go on undisturbed.
Changed(ls, undisturbed) ==
  /\ lines' = ls
  /\ lone' = [q \in Slots |-> q \in undisturbed /\ lone[q]]

\* A window is not reloaded while it waits for an answer.
OpenPage(w) ==
  /\ Waiting(w) = {}
  /\ shown' = [shown EXCEPT ![w] = GetCustomRules(lines)]
  /\ UNCHANGED <<allowed, exists, lines, added, stage, job, got, lone>>

\* The user confirms "Delete this rule?" for a row; the request bears its place.
\* Nothing keeps the user from asking again before the answer has come.
AskDelete(r, w, i) ==
  /\ Proceed(r, "idle", "sent")
  /\ job' = [job EXCEPT ![r] = Deleting(w, i - 1, shown[w][i])]
  /\ UNCHANGED <<allowed, exists, lines, added, shown, got, lone>>

AskAdd(r, w, commented) ==
  /\ added + Cardinality({q \in Working : job[q].does = "add"}) < MaxAdded[allowed]    \* bound
  /\ MayWork
  /\ Proceed(r, "idle", "stat")
  /\ job' = [job EXCEPT ![r] = Adding(w, commented)]
  /\ UNCHANGED <<allowed, exists, lines, added, shown, got, lone>>

\* DeleteCustomRule fails on a file that is not there.
ReadRules(r) ==
  /\ MayWork
  /\ stage[r] = "sent"
  /\ \/ /\ exists
        /\ stage' = [stage EXCEPT ![r] = "truncate"]
        /\ got' = [got EXCEPT ![r] = lines]
        /\ lone' = [lone EXCEPT ![r] = TRUE]
        /\ UNCHANGED job
     \/ ~exists /\ End(r) /\ UNCHANGED lone
  /\ UNCHANGED <<allowed, exists, lines, added, shown>>

\* AddCustomRule creates the file when it is not there.
Stat(r) ==
  /\ IF exists THEN Proceed(r, "stat", "append") ELSE Proceed(r, "stat", "truncate")
  /\ UNCHANGED <<allowed, exists, lines, added, shown, job, got, lone>>

\* os.WriteFile, of both: the file is created or truncated, then written.
TruncateRules(r) ==
  /\ Proceed(r, "truncate", "write")
  /\ exists' = TRUE
  /\ Changed(<<>>, {r})
  /\ UNCHANGED <<allowed, added, shown, job, got>>

NewText(r) ==
  IF job[r].does = "add" THEN <<Text>> ELSE Remaining(got[r], job[r].place)

\* The text takes the place of what is there; the end of what another request has
\* written since the file was truncated stays behind it.
Over(text) == text \o SubSeq(lines, Len(text) + 1, Len(lines))

WriteBack(r) ==
  /\ Proceed(r, "write", IF job[r].does = "add" THEN "append" ELSE "answer")
  /\ Changed(Over(NewText(r)), {})
  /\ UNCHANGED <<allowed, exists, added, shown, job, got>>

\* buildIPTablesCommandWithComment
NewLines(id, commented) ==
  (IF commented THEN <<L("comment", id)>> ELSE <<>>) \o <<L("rule", id)>>

\* A bug: the newest rule first.
PrependRule(r) ==
  /\ Proceed(r, "append", "answer")
  /\ added' = added + 1
  /\ Changed(NewLines(added + 1, job[r].commented) \o lines, {})
  /\ UNCHANGED <<allowed, exists, shown, job, got>>

\* O_APPEND
AppendRule(r) ==
  /\ Proceed(r, "append", "answer")
  /\ added' = added + 1
  /\ Changed(lines \o NewLines(added + 1, job[r].commented), {})
  /\ UNCHANGED <<allowed, exists, shown, job, got>>

\* The answer takes the place of the list in the window the request came from.  A
\* list that cannot be read is shown as an empty one.
Answer(r) ==
  /\ stage[r] = "answer"
  /\ End(r)
  /\ \/ shown' = [shown EXCEPT ![job[r].window] = GetCustomRules(lines)]
     \/ "fault" \in allowed /\ shown' = [shown EXCEPT ![job[r].window] = <<>>]
  /\ UNCHANGED <<allowed, exists, lines, added, lone>>

\* The request ends before its step, or with some of the lines it writes back in the
\* file, and the window keeps its list.
RequestFails(r) ==
  /\ "fault" \in allowed
  /\ stage[r] # "idle"
  /\ End(r)
  /\ \/ lone' = [lone EXCEPT ![r] = FALSE] /\ UNCHANGED lines
     \/ /\ stage[r] = "write"
        /\ \E n \in 0 .. Len(NewText(r)) : Changed(Over(SubSeq(NewText(r), 1, n)), {})
  /\ UNCHANGED <<allowed, exists, added, shown>>

\* The raw editor, on a file that exists and that no request works on.
SaveFirewallScript ==
  /\ "byHand" \in allowed /\ exists /\ Working = {}
  /\ \A i \in 1 .. Len(lines) : lines[i].kind # "other"
  /\ \E i \in 1 .. Len(lines) : lines' = InsertAt(lines, i + 1, L("other", 0))
  /\ UNCHANGED <<allowed, exists, added, shown, stage, job, got, lone>>

RulesNext ==
  \/ \E w \in Windows : OpenPage(w)
  \/ \E r \in Slots, w \in Windows : \E i \in DOMAIN shown[w] : AskDelete(r, w, i)
  \/ \E r \in Slots, w \in Windows, commented \in BOOLEAN : AskAdd(r, w, commented)
  \/ \E r \in Slots : ReadRules(r)
  \/ \E r \in Slots : Stat(r)
  \/ \E r \in Slots : TruncateRules(r)
  \/ \E r \in Slots : WriteBack(r)
  \/ \E r \in Slots : AppendRule(r)
  \/ \E r \in Slots : Answer(r)
  \/ \E r \in Slots : RequestFails(r)
  \/ SaveFirewallScript

RulesSpec == RulesInit /\ [][RulesNext]_rulesVars

-----------------------------------------------------------------------------
Rules(ls) == ToSet(GetCustomRules(ls))

\* The lines that were read list at the place of the request the rule that its window
\* showed there, and have no command above it that the page does not list.
RightAbout(r) ==
  LET list == GetCustomRules(got[r])
      row  == job[r].place + 1
  IN  /\ row \in DOMAIN list /\ list[row] = job[r].rule
      /\ \A i \in Commands(got[r]) : i < Nth(Listed(got[r]), row) => i \in Listed(got[r])

\* Whatever overlapping requests, failures and hands did to the file before, a
\* deletion that nobody disturbs between its read and its write, and whose window is
\* right about the row the user pointed at, removes the line of that row and no other:
\* the place counted over the rules the page could parse (firewall.go 262-272) is the
\* one counted over the commands of the file (301-312).
DeletesRuleAsCounted ==
  [][\A r \in Slots :
       WriteBack(r) /\ job[r].does = "delete" /\ lone[r] /\ RightAbout(r)
         => lines' = RemoveAt(got[r], Nth(Listed(got[r]), job[r].place + 1))]_rulesVars

\* Requests that do not overlap on the file, from any number of windows whose lists
\* are of any age, and which may fail or be cut short: a deletion by a place that is
\* out of date may hit a newer rule than the one it was meant for, never an older one
\* (firewall.go 276-314: rules are added at the end only), if the page lists every
\* command of the file.
SparesOlderRules ==
  [][\A r \in Slots :
       "overlap" \notin allowed /\ WriteBack(r) /\ job[r].does = "delete"
         /\ Commands(got[r]) = Listed(got[r])
         => Rules(got[r]) \cap (1 .. job[r].rule - 1) \subseteq Rules(lines')]_rulesVars
=============================================================================
