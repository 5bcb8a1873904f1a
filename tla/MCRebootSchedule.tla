-------------------------- MODULE MCRebootSchedule --------------------------
(* Instances of RebootSchedule for TLC. *)
EXTENDS RebootSchedule
=============================================================================
