----------------------------- MODULE MCSupply -----------------------------
(* Two shards; the second has the better band and may be unreadable. *)
EXTENDS Supply

MCShardOf == <<1, 2>>
MCKeyOf == <<"a", "a">>
MCBandOf == <<2, 1>>
MCViews == {[replicas |-> 2, ordinal |-> 0], [replicas |-> 0, ordinal |-> 0]}

\* A reservation on a step that is not due, and under the bound will never be
\* again, has nothing left to decide; and with two residue classes a step that
\* has waited for one grace may be selected by everybody.
StateInUse ==
    <<due, [st \in Steps |-> Min({1, waited[st]})], idle, down, reports, tally, supply, items, events,
      IF events < MaxEvents THEN claims ELSE claims \cap due>>
=============================================================================
