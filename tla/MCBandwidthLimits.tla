------------------------- MODULE MCBandwidthLimits -------------------------
(* Instances of BandwidthLimits for TLC. *)
EXTENDS BandwidthLimits, TLC

Symmetry == Permutations(Applies)
=============================================================================
