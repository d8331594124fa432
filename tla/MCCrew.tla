------------------------------- MODULE MCCrew -------------------------------
(* Instances of Crew for TLC. *)
EXTENDS Crew

CONSTANTS w1, w2

\* One step due on every shard, each in a band of its own while there are any.
MCBacklog ==
    [s \in Shards |-> [b \in Bands |-> IF b = s \/ Cardinality(Bands) = 1 THEN 1 ELSE 0]]
=============================================================================
