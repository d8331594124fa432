------------------------------ MODULE MCAwait ------------------------------
(* Instances of Await for TLC. *)
EXTENDS Await

CONSTANTS c1, c2
=============================================================================
