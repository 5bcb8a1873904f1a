----------------------------- MODULE MCUpdater -----------------------------
(* Instances of Updater for TLC. *)
EXTENDS Updater

Smooth      == {"fetch"}
Failing     == {"fetch", "download", "corrupt", "crash", "boot"}
Overlapping == {"overlap", "download", "spawn", "slow"}
NoChecksums == {"corrupt", "noSum", "spawn"}
AllFour     == {Smooth, Failing, Overlapping, NoChecksums}
=============================================================================
