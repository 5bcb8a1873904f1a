---------------------------- MODULE MCCustomRules ----------------------------
(* A small instance of CustomRules. *)
EXTENDS CustomRules

Failing     == {"fault"}
Overlapping == {"overlap", "byHand"}
Both        == {Failing, Overlapping}
Rules2or3   == Failing :> 3 @@ Overlapping :> 2

Symmetry    == Permutations(Windows) \cup Permutations(Slots)
=============================================================================
