---------------------------- MODULE MCLogStream ----------------------------
(* Small instances of LogStream. *)
EXTENDS LogStream
=============================================================================
