------------------------------ MODULE MCPeers ------------------------------
(* Instances of Peers for TLC. *)
EXTENDS Peers

\* Engine 2 ranks last; the others tie on their score, so that the id decides
\* between them.
MCScore == [e \in Engines |-> e % 2]

\* All engines read on time, or engine 2 sits on a slow path: its row still stays
\* fresh, but each of its readings may end a gap, and none has to.
MCPrompt == {[e \in Engines |-> 1]}
MCSlow == {[e \in Engines |-> IF e = 2 THEN 3 ELSE 1]}

MCCuts == {{1}}
=============================================================================
