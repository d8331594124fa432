----------------------------- MODULE MCSubgraph -----------------------------
(* Instances of Subgraph for TLC. *)
EXTENDS Subgraph

CONSTANTS p1, p2
=============================================================================
