----------------------------- MODULE MCStateRefs -----------------------------
(* Instance of StateRefs for TLC. *)
EXTENDS StateRefs
=============================================================================
