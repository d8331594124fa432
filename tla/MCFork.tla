------------------------------- MODULE MCFork -------------------------------
(* Instances of Fork for TLC. *)
EXTENDS Fork
=============================================================================
