--------------------------- MODULE MCDnsmasqFiles ---------------------------
(* Instances of DnsmasqFiles for TLC. *)
EXTENDS DnsmasqFiles, TLC

NothingFails == Sections
CutShort     == Sections \cup (Mishaps \ {"overlap", "check"})
Overlapping  == {"range", "address"} \cup (Mishaps \ {"write", "reload"})
Toggling     == {"strict", "server", "overlap", "reboot", "save"}
All          == {NothingFails, CutShort, Overlapping, Toggling}

Symmetry     == Permutations(Requests)
=============================================================================
