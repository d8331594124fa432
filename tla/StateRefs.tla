------------------------------ MODULE StateRefs ------------------------------
(***************************************************************************)
(* The state of a flow's steps.  A step row holds an input snapshot        *)
(* (state), the delta its task wrote (changes) and, for the fields that    *)
(* are large enough, a reference to the row that holds the bytes           *)
(* (state_refs).  References are minted when a successor is inserted and   *)
(* resolved when it is dispatched; a fan-in folds the deltas of its cohort *)
(* with the graph's reducers and resolves only what they combine.          *)
(*                                                                         *)
(* A value is the sequence of the writes it is made of, so that a lost or  *)
(* repeated contribution shows.  Sizes are left open: whether the fields   *)
(* that may be referenced are, and which anchors are the largest, is a     *)
(* choice.                                                                 *)
(***************************************************************************)
EXTENDS Naturals, Sequences, FiniteSets, SequencesExt, Functions

CONSTANTS
    Plain,       \* the fields without a reducer: the last write wins
    Reduced,     \* the fields with a combining reducer (append)
    Item,        \* the forEach alias: injected into every branch
    Initial,     \* the fields the flow is created with
    Width,       \* the elements of a forEach
    MaxAnchors,  \* maxAnchors
    MaxSteps,    \* bound: step rows
    MaxRewinds,  \* bound: re-executions
    MaxMentions  \* bound: fields the tasks write or delete

ASSUME FieldsAssumption ==
    /\ Plain \cap Reduced = {} /\ Item \notin Plain \cup Reduced
    /\ Initial \subseteq Plain \cup Reduced \cup {Item}
ASSUME RefsBoundsAssumption ==
    {Width, MaxAnchors, MaxSteps} \subseteq Nat \ {0} /\ {MaxRewinds, MaxMentions} \subseteq Nat

VARIABLES
    row,       \* dwarf_steps, by step_id
    truth,     \* for every row, the state it would hold if nothing were referenced
    cache,     \* the Linker's cache: <<anchor, field>> to value
    rewinds,   \* what is left of MaxRewinds
    mentions   \* what is left of MaxMentions

refsVars == <<row, truth, cache, rewinds, mentions>>

Deleted == <<>>   \* the tombstone of a field in a delta: a value of no write

Rows == DOMAIN row
None == <<>>

-----------------------------------------------------------------------------
(* workflow.State *)

\* Merge: the incoming fields replace, tombstones included.
Merge(base, delta) ==
    [k \in DOMAIN base \cup DOMAIN delta |-> IF k \in DOMAIN delta THEN delta[k] ELSE base[k]]

\* DelNils: the tombstones are enacted.
DelNils(state) == Restrict(state, {k \in DOMAIN state : state[k] # Deleted})

\* Reducer.Reduce (append): an absent base is seeded from the incoming value.
Reduce(base, k, incoming) == IF k \in DOMAIN base THEN base[k] \o incoming ELSE incoming

\* MergeReduce: a cleared incoming value is the reducer's identity.
MergeReduce(base, delta) ==
    LET folded == {k \in DOMAIN delta \cap Reduced : delta[k] # Deleted}
        replaced == DOMAIN delta \ Reduced
    IN  Merge(base, [k \in folded \cup replaced |->
                        IF k \in folded THEN Reduce(base, k, delta[k]) ELSE delta[k]])

\* MergeReduceAll: one pass over the cohort, in order.
MergeReduceAll(base, deltas) ==
    LET fold[n \in 0..Len(deltas)] ==
            IF n = 0 THEN base ELSE MergeReduce(fold[n - 1], deltas[n])
    IN  fold[Len(deltas)]

-----------------------------------------------------------------------------
(* Resolve *)

\* fetch: the cache first, then the anchor's changes, which shadow its state.
Fetch(k, anchor) ==
    IF <<anchor, k>> \in DOMAIN cache THEN cache[<<anchor, k>>]
    ELSE IF k \in DOMAIN row[anchor].changes THEN row[anchor].changes[k]
    ELSE IF k \in DOMAIN row[anchor].state THEN row[anchor].state[k]
    ELSE "dangling"

\* The state with the wanted references spliced in.
Resolve(state, refs, want) == Merge(state, [k \in DOMAIN refs \cap want |-> Fetch(k, refs[k])])

ResolveAll(s) == Resolve(row[s].state, row[s].refs, DOMAIN row[s].refs)

\* ResolveReduced: a reference that is only carried stays one.
ResolveReduced(s) == Resolve(row[s].state, row[s].refs, Reduced)

\* What fetch leaves in the cache.
Cached(s, want) ==
    LET read == DOMAIN row[s].refs \cap want IN
    Merge(cache, [p \in {<<row[s].refs[k], k>> : k \in read} |-> Fetch(p[2], p[1])])

-----------------------------------------------------------------------------
(* Mint *)

\* inlineExcessAnchors: the references kept when there are too many anchors.  An
\* anchor is pinned if some field of it was never materialized.
WithinCap(refs, merged) ==
    LET anchors == Range(refs)
        pinned == {refs[k] : k \in DOMAIN refs \ DOMAIN merged}
        room == IF Cardinality(pinned) < MaxAnchors THEN MaxAnchors - Cardinality(pinned) ELSE 0
    IN  IF Cardinality(anchors) <= MaxAnchors THEN {refs}
        ELSE {Restrict(refs, {k \in DOMAIN refs : refs[k] \in pinned \cup kept}) :
                 kept \in {d \in SUBSET (anchors \ pinned) :
                              Cardinality(d) = room \/ (Cardinality(d) < room /\ d = anchors \ pinned)}}

\* The seeded fault: a reference is carried only if its field was materialized.
CarriedMaterialized(merged, changes, inherited, inlineOnly) ==
    (DOMAIN inherited \cap DOMAIN merged) \ (inlineOnly \cup DOMAIN changes)

\* The inherited references that ride on: the task did not touch the field.
CarriedRefs(merged, changes, inherited, inlineOnly) ==
    DOMAIN inherited \ (inlineOnly \cup DOMAIN changes)

\* The rows that Mint may write: state and state_refs of the successor.
Mint(merged, changes, inherited, anchor, inlineOnly) ==
    LET carried == CarriedRefs(merged, changes, inherited, inlineOnly)
        candidates == DOMAIN merged \ (carried \cup inlineOnly)
        minted(anchored) == Merge(Restrict(inherited, carried), [k \in anchored |-> anchor])
    IN  {[state |-> Restrict(merged, DOMAIN merged \ DOMAIN refs), refs |-> refs] :
            refs \in UNION {WithinCap(minted(anchored), merged) : anchored \in SUBSET candidates}}

\* CombinedReducerFields: the folded value is in no row.
CombinedReducerFields(state, changes) == DOMAIN changes \cap Reduced \cap DOMAIN state

-----------------------------------------------------------------------------
(* Steps *)

NewRow(mint, lineage, ordinal, depth) ==
    [state |-> mint.state, refs |-> mint.refs, changes |-> None, phase |-> "pending",
     lineage |-> lineage, ordinal |-> ordinal, depth |-> depth]

Attempt(s) == <<s, MaxRewinds - rewinds>>

\* The dispatch: references are resolved, and the task's delta joins the one a
\* previous attempt recorded.
Execute(s) ==
    /\ row[s].phase = "pending"
    /\ cache' = Cached(s, DOMAIN row[s].refs)
    /\ \E written, cleared \in SUBSET (Plain \cup Reduced) :
          /\ written \cap cleared = {}
          /\ Cardinality(written \cup cleared) <= mentions
          /\ mentions' = mentions - Cardinality(written \cup cleared)
          /\ row' = [row EXCEPT ![s].phase = "completed",
                                ![s].changes = Merge(@, [k \in written \cup cleared |->
                                                   IF k \in written THEN <<Attempt(s)>> ELSE Deleted])]
    /\ UNCHANGED <<truth, rewinds>>

\* The transition did not commit and the step runs again.
Rewind(s) ==
    /\ row[s].phase = "completed" /\ rewinds > 0
    /\ row' = [row EXCEPT ![s].phase = "pending"]
    /\ rewinds' = rewinds - 1
    /\ UNCHANGED <<truth, cache, mentions>>

\* childInputState: what the successors of s start from.
ChildInput(s) == DelNils(Merge(ResolveAll(s), row[s].changes))

\* The transition of s: the rows and what they would hold in full.
Insert(s, phase, new, full) ==
    /\ row' = [row EXCEPT ![s].phase = phase] \o new
    /\ truth' = truth \o full
    /\ UNCHANGED <<cache, rewinds, mentions>>

Room(n) == Len(row) + n <= MaxSteps

Advance(s) ==
    /\ row[s].phase = "completed" /\ Room(1)
    /\ \E mint \in Mint(ChildInput(s), row[s].changes, row[s].refs, s, {}) :
          Insert(s, "moved", <<NewRow(mint, row[s].lineage, row[s].ordinal, row[s].depth + 1)>>,
                 <<DelNils(Merge(truth[s], row[s].changes))>>)

\* The injected element is in no row.
Synthesized == {Item}

\* A forEach over Width elements, from the trunk (bound: no nesting).  All branches
\* carry the same fields, so the size policy decides the same for all.
FanOut(s) ==
    LET element(i) == [k \in {Item} |-> <<<<s, i, "element">>>>]
        full == DelNils(Merge(truth[s], row[s].changes))
    IN  /\ row[s].phase = "completed" /\ row[s].lineage = 0 /\ Room(Width + 1)
        /\ \E mint \in Mint(Merge(ChildInput(s), element(1)), row[s].changes, row[s].refs, s, Synthesized) :
              Insert(s, "moved",
                     [i \in 1..Width |->
                         NewRow([mint EXCEPT !.state = IF Item \in DOMAIN @ THEN Merge(@, element(i)) ELSE @],
                                s, i, row[s].depth + 1)],
                     [i \in 1..Width |-> Merge(full, element(i))])

Members(c) == {r \in Rows : row[r].lineage = c}

\* The rows of a set in an order, first to last.
InOrder(rows, before(_, _)) ==
    LET orders == {q \in [1..Cardinality(rows) -> rows] :
                      \A i, j \in 1..Cardinality(rows) : i < j => before(q[i], q[j])}
    IN  CHOOSE q \in orders : TRUE

\* The cohort scan: ORDER BY fan_out_ordinal, step_depth, step_id.
Scan(c) ==
    InOrder(Members(c), LAMBDA a, b :
        \/ row[a].ordinal < row[b].ordinal
        \/ /\ row[a].ordinal = row[b].ordinal
           /\ row[a].depth < row[b].depth \/ (row[a].depth = row[b].depth /\ a < b))

Deltas(order) == [n \in DOMAIN order |-> row[order[n]].changes]

\* insertFanInStep's accumulator: the spawn's snapshot with its own delta and then
\* the cohort's folded in, and the branch bookkeeping dropped.
Folded(base, c, deltas) ==
    LET merged == DelNils(MergeReduceAll(MergeReduce(base, row[c].changes), deltas))
    IN  Restrict(merged, DOMAIN merged \ {Item})

\* The same without references: branch by branch, in the order of the elements,
\* and in a branch in the order the rows were inserted.
FoldedInFull(c) ==
    LET written == InOrder(Members(c), LAMBDA a, b :
            row[a].ordinal < row[b].ordinal \/ (row[a].ordinal = row[b].ordinal /\ a < b))
    IN  Folded(truth[c], c, Deltas(written))

Arrived(c) == {r \in Rows : row[r].lineage = c /\ row[r].phase = "arrived"}

ArriveFanIn(s) ==
    LET c == row[s].lineage IN
    /\ row[s].phase = "completed" /\ c # 0
    /\ IF Cardinality(Arrived(c)) + 1 < Width THEN Insert(s, "arrived", <<>>, <<>>)
       ELSE LET deltas == Deltas(Scan(c))
                base == ResolveReduced(c)
                inlineOnly == (UNION {DOMAIN deltas[n] : n \in DOMAIN deltas})
                                \cup CombinedReducerFields(base, row[c].changes)
            IN  /\ Room(1)
                /\ \E mint \in Mint(Folded(base, c, deltas), row[c].changes, row[c].refs, c, inlineOnly) :
                      Insert(s, "arrived",
                             <<NewRow(mint, 0, row[c].ordinal, Max({row[r].depth : r \in Members(c)}) + 1)>>,
                             <<FoldedInFull(c)>>)

\* fireFanInDirect: no element, and the fan-in starts from the source's own fold.
FireFanInDirect(s) ==
    LET base == ResolveReduced(s) IN
    /\ row[s].phase = "completed" /\ Room(1)
    /\ \E mint \in Mint(DelNils(MergeReduce(base, row[s].changes)), row[s].changes, row[s].refs, s,
                        CombinedReducerFields(base, row[s].changes)) :
          Insert(s, "moved", <<NewRow(mint, row[s].lineage, row[s].ordinal, row[s].depth + 1)>>,
                 <<DelNils(MergeReduce(truth[s], row[s].changes))>>)

-----------------------------------------------------------------------------
RefsInit ==
    /\ truth = <<[k \in Initial |-> <<<<0, 0>>>>]>>
    /\ row = <<NewRow([state |-> truth[1], refs |-> None], 0, 0, 1)>>
    /\ cache = None
    /\ rewinds = MaxRewinds
    /\ mentions = MaxMentions

RefsNext ==
    \E s \in Rows :
        \/ Execute(s)
        \/ Rewind(s)
        \/ Advance(s)
        \/ FanOut(s)
        \/ ArriveFanIn(s)
        \/ FireFanInDirect(s)

RefsSpec == RefsInit /\ [][RefsNext]_refsVars

-----------------------------------------------------------------------------
(* Properties *)

\* The encoding never escapes: whatever was referenced, carried, rewritten,
\* deleted, folded, inlined or cached on the way, every step is handed exactly
\* the state it would be handed if every row held every field.
StateIsWhole == \A s \in Rows : ResolveAll(s) = truth[s]
=============================================================================
