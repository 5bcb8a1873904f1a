-------------------------- MODULE PortForwardTable --------------------------
(***************************************************************************)
(* What the port forwarding page promises: a table of rules.  A new rule   *)
(* goes to the end, deleting a name removes the rules that carry it and no *)
(* others, and Apply makes exactly the rules of the table take effect,     *)
(* each as its three iptables commands.  Nothing is promised to a user who *)
(* also writes rules by hand.                                              *)
(***************************************************************************)
EXTENDS Naturals, Sequences

CONSTANTS Rules, Names

VARIABLES
  table,      \* the rules, in order
  byHand,     \* whether rules are written by hand as well (never changes)
  active      \* the iptables commands in force, each by the rule it is of

Commands == [i \in 1 .. 3 * Len(table) |-> table[(i + 2) \div 3]]

Init == table = <<>> /\ active = <<>> /\ byHand \in BOOLEAN

Add(r) == table' = Append(table, r) /\ UNCHANGED active

Delete(n) ==
  /\ table' = SelectSeq(table, LAMBDA r : r.name # n)
  /\ UNCHANGED active

Apply == active' = Commands /\ UNCHANGED table

Next ==
  /\ UNCHANGED byHand
  /\ \/ byHand
     \/ \E r \in Rules : Add(r)
     \/ \E n \in Names : Delete(n)
     \/ Apply

Spec == Init /\ [][Next]_<<table, byHand, active>>
=============================================================================
