------------------------------- MODULE Routing -------------------------------
(***************************************************************************)
(* The workflow graph: what Validate accepts, and where the engine sends a *)
(* step of a graph that was accepted.  The validator, the map from         *)
(* fan-outs to fan-ins that the engine derives for itself, and the router  *)
(* each work the fan-out frames out on their own; a flow goes wrong where  *)
(* two of them disagree.                                                   *)
(*                                                                         *)
(* One step at a time is followed, any branch of any fan-out, with the     *)
(* lineage the engine gives it: the counting of branches is Cohort's.      *)
(* Names and URLs are left out, so the checks on spelling and registration *)
(* are met by every graph here, and a transition has one kind, so the      *)
(* checks on combinations of kinds are too.                                *)
(***************************************************************************)
EXTENDS Naturals, Sequences, FiniteSets, SequencesExt, Functions

CONSTANTS
    Nodes,      \* the registered nodes
    Entry,      \* EntryPoint
    Graphs,     \* the graphs an author may build: [edges, fanIn]
    MaxFrames   \* bound: fan-outs open around a step

END == "END"
NoFanIn == ""   \* what faninmap.For answers when there is none

\* The kinds of transition.
Kinds == {"plain", "when", "forEach", "switch", "goto", "onError"}
Override == {"goto", "onError", "switch"}

ASSUME EntryAssumption ==
    /\ IsFiniteSet(Nodes) /\ Entry \in Nodes
    /\ Nodes \cap {END, NoFanIn} = {}
    /\ MaxFrames \in Nat
ASSUME GraphsAssumption ==
    \A g \in Graphs :
        /\ g.edges \subseteq [from : Nodes, to : Nodes \cup {END}, kind : Kinds]
        /\ g.fanIn \subseteq Nodes

VARIABLES
    graph,    \* the graph frozen onto the flow
    at,       \* the task of the step
    lineage,  \* the spawns up its lineage chain, outermost first
    outcome   \* "going", or how the step's path ended

vars == <<graph, at, lineage, outcome>>

-----------------------------------------------------------------------------
(* The shape of a graph *)

Out(g, n) == {e \in g.edges : e.from = n}

\* Two or more plain or conditional transitions, or a forEach.
IsFanOutSource(g, n) ==
    LET normal == {e \in Out(g, n) : e.kind \notin Override}
    IN  Cardinality(normal) >= 2 \/ \E e \in normal : e.kind = "forEach"

\* The validator's rule for the frames open after a transition: the fan-in arm
\* comes before the overrides.
NextStack(g, e, stack) ==
    IF e.to \in g.fanIn
    THEN IF IsFanOutSource(g, e.from) THEN stack ELSE Front(stack)
    ELSE IF IsFanOutSource(g, e.from) /\ e.kind \notin Override THEN Append(stack, e.from) ELSE stack

\* The spawn that a transition into a fan-in converges for.
SourceOf(g, e, stack) == IF IsFanOutSource(g, e.from) THEN e.from ELSE Last(stack)

\* The seeded fault: a fan-out that goes straight to a fan-in opens a frame too.
MapStackAlwaysPush(g, e, stack) ==
    IF e.kind \in Override THEN stack
    ELSE IF IsFanOutSource(g, e.from) THEN Append(stack, e.from)
    ELSE IF e.to \in g.fanIn /\ stack # <<>> THEN Front(stack) ELSE stack

\* faninmap.New's rule: an override neither pushes nor pops a frame.
MapStack(g, e, stack) ==
    IF e.kind \in Override THEN stack
    ELSE IF e.to \in g.fanIn /\ ~IsFanOutSource(g, e.from) /\ stack = <<>> THEN stack
    ELSE NextStack(g, e, stack)

\* One round of the breadth-first walk: the nodes a transition away from those
\* reached so far keep the frames of one path to them.
Visit(g, next(_, _, _), stacks) ==
    LET reach == {e \in g.edges : e.from \in DOMAIN stacks /\ e.to \notin DOMAIN stacks \cup {END}}
        first(m) == CHOOSE e \in reach : e.to = m
    IN  [m \in DOMAIN stacks \cup {e.to : e \in reach} |->
           IF m \in DOMAIN stacks THEN stacks[m] ELSE next(g, first(m), stacks[first(m).from])]

\* The walk from the entry point, in as many rounds as there are nodes: it ends
\* with every node that can be reached.
Stacks(g, next(_, _, _)) ==
    LET walk[i \in 0..Cardinality(Nodes)] ==
            IF i = 0 THEN [m \in {Entry} |-> <<>>] ELSE Visit(g, next, walk[i - 1])
    IN  walk[Cardinality(Nodes)]

-----------------------------------------------------------------------------
(* Validate *)

\* The checks on transitions and reachability.
WellFormed(g) ==
    /\ \A n \in Nodes : Cardinality({e \in Out(g, n) : e.kind = "onError"}) <= 1
    /\ \A e \in g.edges : e.kind = "onError" => e.from # e.to
    /\ \A e, f \in g.edges : e.from = f.from /\ e.kind = "switch" => f.kind \in Override
    /\ \E e \in g.edges : e.to = END

\* A transition into a fan-in finds a frame to pop.
Pops(g, e, stack) == e.to \in g.fanIn => IsFanOutSource(g, e.from) \/ stack # <<>>

\* Where there is none, the graph is refused, whatever frames would follow.
PoppedStack(g, e, stack) == IF Pops(g, e, stack) THEN NextStack(g, e, stack) ELSE <<>>

\* The seeded fault: the frames of the first path to a node stand for all.
ValidLineageFirstVisit(g, stacks) ==
    \A e \in g.edges : e.to = END => NextStack(g, e, stacks[e.from]) = <<>>

\* validateLineage: every path to a node has the same frames, END has none, and
\* the branches of a fan-out converge on one fan-in.
ValidLineage(g, stacks) ==
    LET into(s) == {e \in g.edges : e.to \in g.fanIn /\ SourceOf(g, e, stacks[e.from]) = s}
    IN  /\ \A e \in g.edges : NextStack(g, e, stacks[e.from]) = IF e.to = END THEN <<>> ELSE stacks[e.to]
        /\ \A n \in Nodes : IsFanOutSource(g, n) => Cardinality({e.to : e \in into(n)}) = 1

Validate(g) ==
    /\ WellFormed(g)
    /\ \E stacks \in {Stacks(g, PoppedStack)} :
          /\ DOMAIN stacks = Nodes
          /\ \A e \in g.edges : Pops(g, e, stacks[e.from])
          /\ ValidLineage(g, stacks)

-----------------------------------------------------------------------------
(* The engine's map and the router *)

\* faninmap.For: the fan-in that the branches of the source converge on, or "".
FanInFor(g, source) ==
    LET stacks == Stacks(g, MapStack)
        into == {e \in g.edges : /\ e.kind \notin Override /\ e.to \in g.fanIn
                                 /\ IsFanOutSource(g, e.from) \/ stacks[e.from] # <<>>
                                 /\ SourceOf(g, e, stacks[e.from]) = source}
    IN  IF into = {} THEN NoFanIn ELSE (CHOOSE e \in into : TRUE).to

\* evaluateTransitions: the sets of transitions that may be taken together.  A
\* forEach over an empty array takes none; an error is routed to its handler.
Candidates(g, n) ==
    LET out == Out(g, n)
        of(kinds) == {e \in out : e.kind \in kinds}
        single(kinds) == {{e} : e \in of(kinds)}
    IN  single({"goto", "onError"})
        \cup IF of({"switch"}) # {} THEN single({"switch"}) \cup {{}}
             ELSE {of({"plain"}) \cup taken : taken \in SUBSET of({"when", "forEach"})}

\* Where the transitions taken send the step: the lineage and task of a
\* successor, or the end of the path.
Route(taken) ==
    LET real == {e \in taken : e.to # END}
        source == IsFanOutSource(graph, at)
        push == source /\ \A e \in taken : e.kind \notin {"goto", "onError"}
        fanIn == IF source THEN FanInFor(graph, at) ELSE NoFanIn
        goes(to, chain) == at' = to /\ lineage' = chain /\ outcome' = "going"
        ends(how) == outcome' = how /\ UNCHANGED <<at, lineage>>
    IN  IF fanIn # NoFanIn /\ (taken = {} \/ (Cardinality(real) = 1 /\ \A e \in real : e.to = fanIn))
        THEN goes(fanIn, lineage)
        ELSE IF real = {}
        THEN IF lineage = <<>> THEN ends(IF taken = {} /\ source THEN "skipped" ELSE "completed")
             ELSE ends(IF taken = {} /\ ~source THEN "deadEnd" ELSE "stray")
        ELSE \E e \in real :
                IF e.to \in graph.fanIn
                THEN LET chain == IF push THEN Append(lineage, at) ELSE lineage
                     IN  IF chain = <<>> THEN ends("stray") ELSE goes(e.to, Front(chain))
                ELSE goes(e.to, IF push THEN Append(lineage, at) ELSE lineage)

-----------------------------------------------------------------------------
\* A flow is created on a graph that Validate accepts.
Init ==
    /\ graph \in {g \in Graphs : Validate(g)}
    /\ at = Entry
    /\ lineage = <<>>
    /\ outcome = "going"

Step ==
    /\ outcome = "going" /\ Len(lineage) <= MaxFrames
    /\ \E taken \in Candidates(graph, at) : Route(taken)
    /\ UNCHANGED graph

Next == Step

Spec == Init /\ [][Next]_vars

-----------------------------------------------------------------------------
(* Properties *)

\* A fan-in is entered by an ordinary transition, or by its own fan-out source.
OrdinaryArrivals(g) ==
    \A e \in g.edges : e.to \in g.fanIn /\ e.kind \in Override => IsFanOutSource(g, e.from)

\* Every task has a way to END: no set of tasks is left by no transition.
EndReachable(g) ==
    \A trap \in SUBSET Nodes : trap # {} => \E e \in g.edges : e.from \in trap /\ e.to \notin trap

\* On a graph that Validate accepts, the paths the router gives up on as
\* "unreachable for a validated graph" (processStep) are: no step reaches a fan-in
\* without a cohort, or END inside one, and no fan-out lacks its fan-in.
RoutesAsValidated ==
    OrdinaryArrivals(graph) /\ EndReachable(graph) => outcome \notin {"stray", "skipped"}

\* Every step runs in the frames the validator worked out for its task: the
\* cohort that a branch reports to is the one whose fan-in it goes to.
LineageAsValidated ==
    OrdinaryArrivals(graph) /\ EndReachable(graph) /\ outcome = "going" =>
        lineage = Stacks(graph, NextStack)[at]

\* "An EMPTY array spawns no branches, but the flow does NOT stop there: it routes
\* straight to the fan-in node" (AddTransitionForEach), on every graph accepted.
EmptyFanOutConverges == outcome # "skipped"
=============================================================================
