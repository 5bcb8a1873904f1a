--------------------------- MODULE MCEncryptedDNS ---------------------------
(* Instances of EncryptedDNS for TLC. *)
EXTENDS EncryptedDNS

OnePlain  == {<<"isp">>}
TwoPlain  == {<<"isp">>, <<"other", "isp">>}
OddLists  == {<< >>, <<"stubby", "isp">>}
ManyLists == TwoPlain \cup OddLists
Defaults  == <<"default">>
BothStubs == <<"stubby", "dnscrypt">>

Calm      == {"noFallback"}
Failing   == Calm \cup (FaultKinds \ {"read", "write"}) \cup {"noHTTPS", "reboot"}
Anything  == Circumstances \ {"noFallback", "oddList", "write", "midway"}
CutShort  == {"write", "midway", "reboot", "reload", "read", "toggleAgain", "editWhileOn"}
Odd       == {"oddList", "reload"}
AllFive   == {Calm, Failing, Anything, CutShort, Odd}
Reapplied == {{"noFallback", "toggleAgain"}}
=============================================================================
