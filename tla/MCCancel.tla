------------------------------ MODULE MCCancel ------------------------------
(* Instances of Cancel for TLC. *)
EXTENDS Cancel
=============================================================================
