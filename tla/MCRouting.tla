------------------------------ MODULE MCRouting ------------------------------
(* Instances of Routing for TLC: the chains of five tasks with any kinds, one *)
(* more transition anywhere, and any of the last three tasks a fan-in.        *)
EXTENDS Routing

MCNodes == {"A", "B", "C", "D", "E"}
Chain == <<"A", "B", "C", "D", "E", END>>
Spine(kind) == {[from |-> Chain[i], to |-> Chain[i + 1], kind |-> kind[i]] : i \in 1..4}
               \cup {[from |-> "E", to |-> END, kind |-> "plain"]}
Extra == [from : MCNodes, to : MCNodes \cup {END}, kind : {"plain", "when", "goto", "onError", "switch"}]

MCGraphs ==
    {[edges |-> Spine(kind) \cup extra, fanIn |-> fanIn] :
        kind \in [1..4 -> {"plain", "forEach", "switch"}],
        extra \in {{}} \cup {{e} : e \in Extra},
        fanIn \in SUBSET {"C", "D", "E"}}
=============================================================================
