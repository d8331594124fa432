---------------------------- MODULE MCTurnstile ----------------------------
(* Instances of Turnstile for TLC. *)
EXTENDS Turnstile

CONSTANTS j1, j2, j3

\* One job of a better claim, two that tie.
MCRank == [j \in Jobs |-> IF j = j1 THEN 1 ELSE 2]
=============================================================================
