---------------------------- MODULE PortForwards ----------------------------
(***************************************************************************)
(* /etc/firewall.d/50-portforward.sh, the shell script that is also the    *)
(* table of the port forwarding page (internal/system/firewall.go 155-250, *)
(* internal/handler/portforward.go), and the raw editor that may change it *)
(* (firewall.go 98-108).                                                   *)
(*                                                                         *)
(* The file is a sequence of lines: a "pf" comment naming a rule, an       *)
(* iptables command ("ipt") of a rule, or a blank line.  An operation is   *)
(* atomic: what requests that overlap do to a file is the subject of       *)
(* DnsmasqFiles.                                                           *)
(***************************************************************************)
EXTENDS Naturals, Sequences, SequencesExt

CONSTANTS
  Names, Targets,     \* a rule is a name and what it forwards to
  Hands,              \* sets of numbers of commands: those that the rules written
                      \* by hand may have, {} if nobody writes any
  MaxLines            \* bound: rules are only added to a shorter file

ASSUME HandsAssumption == Hands \subseteq SUBSET Nat

Rules == [name : Names, target : Targets]

VARIABLES
  exists,     \* whether the file exists
  lines,      \* its lines
  hand,       \* the member of Hands this run is about (never changes)
  editor,     \* what the raw editor has loaded, in a singleton, or {}
  kernel      \* the commands in force, each by the rule it is of

vars == <<exists, lines, hand, editor, kernel>>

PF(r)  == [kind |-> "pf", of |-> {r}]
Ipt(r) == [kind |-> "ipt", of |-> {r}]
Blank  == [kind |-> "blank", of |-> {}]

RuleOf(l) == CHOOSE r \in l.of : TRUE

\* A block with n commands; AddPortForwardRule writes three, after a blank line.
Block(r, n) == <<Blank, PF(r)>> \o [i \in 1 .. n |-> Ipt(r)]
AddedBlock(r) == Block(r, 3)

OfKind(ls, k) == LET picked == SelectSeq(ls, LAMBDA l : l.kind = k)
                 IN  [i \in 1 .. Len(picked) |-> RuleOf(picked[i])]

\* GetPortForwardRules: the rows of the page.
GetPortForwardRules == OfKind(lines, "pf")

\* The commands a shell runs when it executes the file.
CommandsOf(ls) == OfKind(ls, "ipt")

Init ==
  /\ exists = FALSE
  /\ lines = <<>>
  /\ hand \in Hands
  /\ editor = {}
  /\ kernel = <<>>

-----------------------------------------------------------------------------
(* DeletePortForwardRule reads the file line by line.                      *)

IsMarker(l, n) == l.kind = "pf" /\ RuleOf(l).name = n

WithoutBlank(kept) == IF kept # <<>> /\ Last(kept) = Blank THEN Front(kept) ELSE kept

(* Plausible bugs, for the sensitivity of the properties below.            *)

\* The bug the change log of 1.1.4 describes.
ScanLineOneCommand(n, acc, l) ==
  IF IsMarker(l, n) THEN [kept |-> WithoutBlank(acc.kept), skip |-> 1]
  ELSE IF l.kind = "ipt" /\ acc.skip > 0 THEN [acc EXCEPT !.skip = @ - 1]
  ELSE [acc EXCEPT !.kept = Append(@, l)]

\* Dropping every command up to the next rule of the page.
ScanLineToNextRule(n, acc, l) ==
  IF IsMarker(l, n) THEN [kept |-> WithoutBlank(acc.kept), skip |-> 3]
  ELSE IF l.kind = "pf" THEN [kept |-> Append(acc.kept, l), skip |-> 0]
  ELSE IF l.kind = "ipt" /\ acc.skip > 0 THEN acc
  ELSE [acc EXCEPT !.kept = Append(@, l)]

\* One turn of the loop: the lines kept so far, and how many commands to drop.
ScanLine(n, acc, l) ==
  IF IsMarker(l, n) THEN [kept |-> WithoutBlank(acc.kept), skip |-> 3]
  ELSE IF l.kind = "ipt" /\ acc.skip > 0 THEN [acc EXCEPT !.skip = @ - 1]
  ELSE [acc EXCEPT !.kept = Append(@, l)]

\* What is left; the newline written after the last line is a line of its own
\* when nothing else is.
Remaining(n) ==
  LET scan == FoldLeft(LAMBDA acc, l : ScanLine(n, acc, l),
                       [kept |-> <<>>, skip |-> 0], lines)
  IN  IF scan.kept = <<>> THEN <<Blank>> ELSE scan.kept

-----------------------------------------------------------------------------
(* The operations.                                                         *)

AddPortForwardRule(r) ==
  /\ Len(lines) < MaxLines
  /\ exists' = TRUE
  /\ lines' = lines \o AddedBlock(r)
  /\ UNCHANGED <<hand, editor, kernel>>

\* A rule not in the file is "deleted" too; a file that is not there stays so.
DeletePortForwardRule(n) ==
  /\ exists
  /\ lines' = Remaining(n)
  /\ UNCHANGED <<exists, hand, editor, kernel>>

ApplyFirewall ==
  /\ kernel' = CommandsOf(lines)
  /\ UNCHANGED <<exists, lines, hand, editor>>

GetFirewallFileContent ==
  /\ exists /\ hand # {}
  /\ editor' = {lines}
  /\ UNCHANGED <<exists, lines, hand, kernel>>

\* The user adds a rule by hand, with or without a comment for the page, at the
\* end or before everything else, and saves what the editor holds.
SaveFirewallScript(r, n, commented, first) ==
  /\ editor # {} /\ n \in hand
  /\ \E old \in editor :
       LET new == IF commented THEN Block(r, n) ELSE [i \in 1 .. n |-> Ipt(r)]
       IN  /\ Len(old) < MaxLines
           /\ lines' = IF first THEN new \o old ELSE old \o new
  /\ editor' = {}
  /\ UNCHANGED <<exists, hand, kernel>>

Next ==
  \/ \E r \in Rules : AddPortForwardRule(r)
  \/ \E n \in Names : DeletePortForwardRule(n)
  \/ ApplyFirewall
  \/ GetFirewallFileContent
  \/ \E r \in Rules, n \in UNION Hands, commented, first \in BOOLEAN :
       SaveFirewallScript(r, n, commented, first)

Spec == Init /\ [][Next]_vars

-----------------------------------------------------------------------------
Table == INSTANCE PortForwardTable
           WITH table <- GetPortForwardRules, active <- kernel, byHand <- (hand # {})

\* As long as only the page changes the file, the script is a faithful store of
\* the page's table: deleting a name removes its rows and their commands and
\* nothing else, whatever has been added and deleted before, and Apply puts in
\* force the three commands of every row (firewall.go 155-250).
ImplementsTable == Table!Spec

\* The lines that are not of the rules with this name.
Others(ls, n) == SelectSeq(ls, LAMBDA l : l # Blank /\ RuleOf(l).name # n)

\* Deleting a rule leaves the rows and the commands of every rule with another
\* name in place and in order, the hand-written ones among them if each has at
\* least the three commands of the page's own, wherever in the file they stand and
\* whether or not a comment names them (firewall.go 221-246: three commands are
\* dropped after the comment, whatever rule they are of).
OthersKept ==
  [][\A n \in Names :
       DeletePortForwardRule(n) /\ (\A m \in hand : m >= 3)
         => Others(lines', n) = Others(lines, n)]_vars
=============================================================================
