--------------------------- MODULE MCPortForwards ---------------------------
(* Small instances of PortForwards. *)
EXTENDS PortForwards
=============================================================================
