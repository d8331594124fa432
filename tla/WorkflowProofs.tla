---------------------------- MODULE WorkflowProofs ----------------------------
(***************************************************************************)
(* What TLAPS proves about the workflow a flow runs: its graph (Routing)   *)
(* and the state its steps hand on (StateRefs).                            *)
(***************************************************************************)
EXTENDS Routing, StateRefs, FiniteSetTheorems, WellFoundedInduction, TLAPS

-----------------------------------------------------------------------------
(* Recursion on the naturals *)

\* Every non-empty set of naturals has a smallest element: the argument that
\* stands for an induction everywhere below.
LEMMA SmallestElement ==
  ASSUME NEW S, S \subseteq Nat, S # {}
  PROVE  \E x \in S : \A y \in S : x <= y
  <1> DEFINE Initials == {S \cap (0 .. x) : x \in S}
  <1>1. ASSUME NEW x \in Nat PROVE IsFiniteSet(S \cap (0 .. x))
    <2>1. IsFiniteSet(0 .. x)
      BY FS_Interval
    <2>2. S \cap (0 .. x) \in SUBSET (0 .. x)
      OBVIOUS
    <2> QED
      BY <2>1, <2>2, FS_Subset
  <1>2. Initials \subseteq FiniteSubsetsOf(Nat) /\ Initials # {}
    BY <1>1 DEF FiniteSubsetsOf
  <1>3. PICK T \in Initials : \A U \in Initials : <<U, T>> \notin StrictSubsetOrdering(Nat)
    <2> HIDE DEF Initials
    <2> QED
      BY <1>2, FS_StrictSubsetOrderingWellFounded, WFMin
  <1>4. PICK x \in S : T = S \cap (0 .. x)
    BY <1>3
  <1>5. ASSUME NEW y \in S, y < x PROVE FALSE
    <2> DEFINE U == S \cap (0 .. y)
    <2>1. U \in Initials /\ U \subseteq T /\ x \in T /\ x \notin U
      BY <1>4, <1>5
    <2>2. U \in SUBSET Nat /\ T \in SUBSET Nat
      BY <1>4
    <2> QED
      BY <1>3, <2>1, <2>2 DEF StrictSubsetOrdering
  <1> QED
    BY <1>5

\* A set of naturals that holds whatever its predecessor makes it hold is all of
\* them, up to a bound.
LEMMA UpTo ==
  ASSUME NEW n \in Nat, NEW S, 0 \in S, \A i \in 1 .. n : i - 1 \in S => i \in S
  PROVE  0 .. n \subseteq S
  <1> DEFINE Left == {i \in 0 .. n : i \notin S}
  <1> SUFFICES ASSUME Left # {} PROVE FALSE
    OBVIOUS
  <1>1. PICK i \in Left : \A j \in Left : i <= j
    <2>1. Left \subseteq Nat
      OBVIOUS
    <2> HIDE DEF Left
    <2> QED
      BY <2>1, SmallestElement
  <1>2. i \in 1 .. n /\ i \notin S
    BY <1>1
  <1>3. i - 1 \in S
    BY <1>1, <1>2
  <1> QED
    BY <1>2, <1>3

\* f runs for n steps: from start, each value by its step of h from the one before.
Runs(X, n, start, h, f) ==
    f \in [0 .. n -> X] /\ f[0] = start /\ \A i \in 1 .. n : f[i] = h[i][f[i - 1]]

\* Step functions define a sequence of values.
LEMMA RecursionExists ==
  ASSUME NEW X, NEW n \in Nat, NEW start \in X, NEW h \in [1 .. n -> [X -> X]]
  PROVE  \E f : Runs(X, n, start, h, f)
  <1> DEFINE Done == {k \in 0 .. n : \E f : Runs(X, k, start, h, f)}
  <1>1. 0 \in Done
    <2>1. Runs(X, 0, start, h, [i \in 0 .. 0 |-> start])
      BY DEF Runs
    <2> QED
      BY <2>1
  <1>2. ASSUME NEW k \in 1 .. n, k - 1 \in Done PROVE k \in Done
    <2>1. PICK f : Runs(X, k - 1, start, h, f)
      BY <1>2
    <2> DEFINE longer == [i \in 0 .. k |-> IF i = k THEN h[k][f[k - 1]] ELSE f[i]]
    <2>2. k - 1 \in 0 .. k - 1 /\ f[k - 1] \in X
      BY <2>1 DEF Runs
    <2>3. longer \in [0 .. k -> X]
      BY <2>1, <2>2 DEF Runs
    <2>4. longer[0] = start
      BY <2>1 DEF Runs
    <2>5. ASSUME NEW i \in 1 .. k PROVE longer[i] = h[i][longer[i - 1]]
      <3>1. CASE i = k
        BY <3>1
      <3>2. CASE i # k
        BY <2>1, <3>2 DEF Runs
      <3> QED
        BY <3>1, <3>2
    <2>6. Runs(X, k, start, h, longer)
      BY <2>3, <2>4, <2>5 DEF Runs
    <2> HIDE DEF longer
    <2> QED
      BY <2>6
  <1>3. 0 .. n \subseteq Done
    <2> HIDE DEF Done
    <2> QED
      BY <1>1, <1>2, UpTo
  <1> QED
    BY <1>3

\* u and v start alike and step alike.
SameSteps(n, u, v) ==
    u[0] = v[0] /\ \A i \in 1 .. n : u[i - 1] = v[i - 1] => u[i] = v[i]

\* A sequence of values is determined by its start and its steps.
LEMMA RecursionUnique ==
  ASSUME NEW n \in Nat, NEW u, NEW v, SameSteps(n, u, v)
  PROVE  \A i \in 0 .. n : u[i] = v[i]
  <1> DEFINE Same == {i \in 0 .. n : u[i] = v[i]}
  <1>1. 0 \in Same
    BY DEF SameSteps
  <1>2. ASSUME NEW i \in 1 .. n, i - 1 \in Same PROVE i \in Same
    BY <1>2 DEF SameSteps
  <1>3. 0 .. n \subseteq Same
    <2> HIDE DEF Same
    <2> QED
      BY <1>1, <1>2, UpTo
  <1> QED
    BY <1>3

-----------------------------------------------------------------------------
(* The breadth-first walks over a graph *)

IsGraph(g) ==
    /\ g.edges \subseteq [from : Nodes, to : Nodes \cup {END}, kind : Kinds]
    /\ g.fanIn \subseteq Nodes

Rounds == Cardinality(Nodes)
Start == [m \in {Entry} |-> <<>>]
Frames == UNION {[reached -> Seq(Nodes)] : reached \in SUBSET Nodes}

\* The transitions by which a round reaches a node, and the one it takes.
Reach(g, stacks) ==
    {e \in g.edges : e.from \in DOMAIN stacks /\ e.to \notin DOMAIN stacks \cup {END}}
FirstTo(g, stacks, m) == CHOOSE e \in Reach(g, stacks) : e.to = m

\* The rounds of the three walks: the validator's, as far as Pops lets it come,
\* the validator's rule on its own, and the engine's.
VisitPopped(g, stacks) == Visit(g, PoppedStack, stacks)
VisitNext(g, stacks) == Visit(g, NextStack, stacks)
VisitMap(g, stacks) == Visit(g, MapStack, stacks)

\* w holds the frames after every round of the validator's walk.
IsWalk(g, w) ==
    /\ w \in [0 .. Rounds -> Frames]
    /\ w[0] = Start
    /\ \A i \in 1 .. Rounds : w[i] = VisitPopped(g, w[i - 1])

LEMMA RoundsNat == Rounds \in Nat
  BY EntryAssumption, FS_CardinalityType DEF Rounds

LEMMA StartFrames == Start \in Frames
  <1>1. Start \in [{Entry} -> Seq(Nodes)]
    BY DEF Start
  <1>2. {Entry} \in SUBSET Nodes
    BY EntryAssumption
  <1> QED
    BY <1>1, <1>2 DEF Frames

\* The chosen transition is one of those that reach the node.
LEMMA FirstReaches ==
  ASSUME NEW g, NEW stacks, NEW m \in {e.to : e \in Reach(g, stacks)}
  PROVE  FirstTo(g, stacks, m) \in Reach(g, stacks) /\ FirstTo(g, stacks, m).to = m
  BY DEF FirstTo

\* The frames after a transition are frames.
LEMMA PoppedFrames ==
  ASSUME NEW g, IsGraph(g), NEW e \in g.edges, NEW stack \in Seq(Nodes)
  PROVE  PoppedStack(g, e, stack) \in Seq(Nodes)
  <1>1. e.from \in Nodes
    BY DEF IsGraph
  <1>2. stack # <<>> => Front(stack) \in Seq(Nodes)
    BY DEF Front
  <1>3. Append(stack, e.from) \in Seq(Nodes)
    BY <1>1
  <1> QED
    BY <1>1, <1>2, <1>3 DEF PoppedStack, Pops, NextStack

\* A round keeps what it has and adds the nodes that a transition reaches.
LEMMA VisitExtends ==
  ASSUME NEW g, IsGraph(g), NEW stacks \in Frames
  PROVE  /\ VisitPopped(g, stacks) \in Frames
         /\ \A m \in DOMAIN stacks : /\ m \in DOMAIN VisitPopped(g, stacks)
                                     /\ VisitPopped(g, stacks)[m] = stacks[m]
         /\ \A m \in DOMAIN VisitPopped(g, stacks) \ DOMAIN stacks :
               \E e \in g.edges : /\ e.from \in DOMAIN stacks /\ e.to = m
                                  /\ VisitPopped(g, stacks)[m] = PoppedStack(g, e, stacks[e.from])
  <1> DEFINE new == {e.to : e \in Reach(g, stacks)}
             after == [m \in DOMAIN stacks \cup new |->
                         IF m \in DOMAIN stacks THEN stacks[m]
                         ELSE PoppedStack(g, FirstTo(g, stacks, m), stacks[FirstTo(g, stacks, m).from])]
  <1>1. VisitPopped(g, stacks) = after
    BY DEF VisitPopped, Visit, Reach, FirstTo
  <1>2. DOMAIN stacks \subseteq Nodes /\ \A m \in DOMAIN stacks : stacks[m] \in Seq(Nodes)
    BY DEF Frames
  <1>3. ASSUME NEW m \in new
        PROVE  LET e == FirstTo(g, stacks, m)
               IN  e \in g.edges /\ e.from \in DOMAIN stacks /\ e.to = m /\ m \notin DOMAIN stacks /\ m \in Nodes
    BY <1>3, FirstReaches DEF Reach, IsGraph
  <1>4. ASSUME NEW m \in new
        PROVE  PoppedStack(g, FirstTo(g, stacks, m), stacks[FirstTo(g, stacks, m).from]) \in Seq(Nodes)
    BY <1>2, <1>3, PoppedFrames
  <1>5. DOMAIN stacks \cup new \subseteq Nodes
    BY <1>2, <1>3
  <1> HIDE DEF new
  <1>6. after \in [DOMAIN stacks \cup new -> Seq(Nodes)]
    BY <1>2, <1>4
  <1>7. after \in Frames
    BY <1>5, <1>6 DEF Frames
  <1>8. ASSUME NEW m \in DOMAIN after \ DOMAIN stacks
        PROVE  \E e \in g.edges : e.from \in DOMAIN stacks /\ e.to = m /\ after[m] = PoppedStack(g, e, stacks[e.from])
    <2>1. m \in new /\ m \notin DOMAIN stacks
      OBVIOUS
    <2>2. after[m] = PoppedStack(g, FirstTo(g, stacks, m), stacks[FirstTo(g, stacks, m).from])
      BY <2>1
    <2>3. /\ FirstTo(g, stacks, m) \in g.edges
          /\ FirstTo(g, stacks, m).from \in DOMAIN stacks
          /\ FirstTo(g, stacks, m).to = m
      BY <1>3, <2>1
    <2> QED
      BY <2>2, <2>3
  <1>9. \A m \in DOMAIN stacks : m \in DOMAIN after /\ after[m] = stacks[m]
    OBVIOUS
  <1> HIDE DEF after
  <1> QED
    BY <1>1, <1>7, <1>8, <1>9

\* Where two rules agree on the transitions out of the nodes reached, so do
\* their rounds.
LEMMA VisitsAgree ==
  ASSUME NEW g, NEW stacks
  PROVE  /\ (\A e \in g.edges : e.from \in DOMAIN stacks =>
                NextStack(g, e, stacks[e.from]) = PoppedStack(g, e, stacks[e.from]))
            => VisitNext(g, stacks) = VisitPopped(g, stacks)
         /\ (\A e \in g.edges : e.from \in DOMAIN stacks =>
                MapStack(g, e, stacks[e.from]) = PoppedStack(g, e, stacks[e.from]))
            => VisitMap(g, stacks) = VisitPopped(g, stacks)
  <1> DEFINE new == {e.to : e \in Reach(g, stacks)}
  <1>1. \A m \in new : FirstTo(g, stacks, m) \in g.edges /\ FirstTo(g, stacks, m).from \in DOMAIN stacks
    BY FirstReaches DEF Reach
  <1>2. VisitPopped(g, stacks) = [m \in DOMAIN stacks \cup new |->
          IF m \in DOMAIN stacks THEN stacks[m]
          ELSE PoppedStack(g, FirstTo(g, stacks, m), stacks[FirstTo(g, stacks, m).from])]
    BY DEF VisitPopped, Visit, Reach, FirstTo
  <1>3. VisitNext(g, stacks) = [m \in DOMAIN stacks \cup new |->
          IF m \in DOMAIN stacks THEN stacks[m]
          ELSE NextStack(g, FirstTo(g, stacks, m), stacks[FirstTo(g, stacks, m).from])]
    BY DEF VisitNext, Visit, Reach, FirstTo
  <1>4. VisitMap(g, stacks) = [m \in DOMAIN stacks \cup new |->
          IF m \in DOMAIN stacks THEN stacks[m]
          ELSE MapStack(g, FirstTo(g, stacks, m), stacks[FirstTo(g, stacks, m).from])]
    BY DEF VisitMap, Visit, Reach, FirstTo
  <1> HIDE DEF new
  <1> QED
    BY <1>1, <1>2, <1>3, <1>4

LEMMA WalkExists ==
  ASSUME NEW g, IsGraph(g)
  PROVE  \E w : IsWalk(g, w)
  <1> DEFINE h == [i \in 1 .. Rounds |-> [stacks \in Frames |-> VisitPopped(g, stacks)]]
  <1>1. h \in [1 .. Rounds -> [Frames -> Frames]]
    BY VisitExtends
  <1>2. PICK w : Runs(Frames, Rounds, Start, h, w)
    <2> HIDE DEF h
    <2> QED
      BY <1>1, RoundsNat, StartFrames, RecursionExists
  <1>3. \A i \in 1 .. Rounds : i - 1 \in 0 .. Rounds
    BY RoundsNat
  <1>4. IsWalk(g, w)
    BY <1>2, <1>3 DEF IsWalk, Runs
  <1> QED
    BY <1>4

\* Stacks is the walk by its rule.
WalkPopped(g) ==
    CHOOSE v : v = [i \in 0 .. Rounds |-> IF i = 0 THEN Start ELSE VisitPopped(g, v[i - 1])]
WalkNext(g) ==
    CHOOSE v : v = [i \in 0 .. Rounds |-> IF i = 0 THEN Start ELSE VisitNext(g, v[i - 1])]
WalkMap(g) ==
    CHOOSE v : v = [i \in 0 .. Rounds |-> IF i = 0 THEN Start ELSE VisitMap(g, v[i - 1])]

LEMMA StacksWalk ==
  ASSUME NEW g
  PROVE  /\ Stacks(g, PoppedStack) = WalkPopped(g)[Rounds]
         /\ Stacks(g, NextStack) = WalkNext(g)[Rounds]
         /\ Stacks(g, MapStack) = WalkMap(g)[Rounds]
  <1>1. Stacks(g, PoppedStack) = WalkPopped(g)[Rounds]
    BY DEF Stacks, WalkPopped, VisitPopped, Visit, Rounds, Start
  <1>2. Stacks(g, NextStack) = WalkNext(g)[Rounds]
    BY DEF Stacks, WalkNext, VisitNext, Visit, Rounds, Start
  <1>3. Stacks(g, MapStack) = WalkMap(g)[Rounds]
    BY DEF Stacks, WalkMap, VisitMap, Visit, Rounds, Start
  <1> QED
    BY <1>1, <1>2, <1>3

LEMMA PoppedStacks ==
  ASSUME NEW g, NEW w, IsWalk(g, w)
  PROVE  Stacks(g, PoppedStack) = w[Rounds]
  <1> DEFINE Fits(v) == v = [i \in 0 .. Rounds |-> IF i = 0 THEN Start ELSE VisitPopped(g, v[i - 1])]
  <1>1. Fits(w)
    BY RoundsNat DEF IsWalk
  <1>2. Fits(WalkPopped(g))
    BY <1>1 DEF WalkPopped
  <1>3. ASSUME NEW v, Fits(v) PROVE v = w
    <2>1. /\ v = [i \in 0 .. Rounds |-> v[i]] /\ v[0] = Start
          /\ \A i \in 1 .. Rounds : v[i] = VisitPopped(g, v[i - 1])
      BY <1>3, RoundsNat
    <2>2. SameSteps(Rounds, v, w)
      BY <2>1 DEF IsWalk, SameSteps
    <2>3. \A i \in 0 .. Rounds : v[i] = w[i]
      BY <2>2, RoundsNat, RecursionUnique
    <2>4. w = [i \in 0 .. Rounds |-> w[i]]
      BY DEF IsWalk
    <2> HIDE DEF Fits
    <2> QED
      BY <2>1, <2>3, <2>4
  <1> HIDE DEF Fits
  <1> QED
    BY <1>2, <1>3, StacksWalk

LEMMA NextStacks ==
  ASSUME NEW g, NEW w, IsWalk(g, w),
         \A i \in 1 .. Rounds : VisitNext(g, w[i - 1]) = VisitPopped(g, w[i - 1])
  PROVE  Stacks(g, NextStack) = w[Rounds]
  <1> DEFINE Fits(v) == v = [i \in 0 .. Rounds |-> IF i = 0 THEN Start ELSE VisitNext(g, v[i - 1])]
  <1>1. Fits(w)
    BY RoundsNat DEF IsWalk
  <1>2. Fits(WalkNext(g))
    BY <1>1 DEF WalkNext
  <1>3. ASSUME NEW v, Fits(v) PROVE v = w
    <2>1. /\ v = [i \in 0 .. Rounds |-> v[i]] /\ v[0] = Start
          /\ \A i \in 1 .. Rounds : v[i] = VisitNext(g, v[i - 1])
      BY <1>3, RoundsNat
    <2>2. SameSteps(Rounds, v, w)
      BY <2>1 DEF IsWalk, SameSteps
    <2>3. \A i \in 0 .. Rounds : v[i] = w[i]
      BY <2>2, RoundsNat, RecursionUnique
    <2>4. w = [i \in 0 .. Rounds |-> w[i]]
      BY DEF IsWalk
    <2> HIDE DEF Fits
    <2> QED
      BY <2>1, <2>3, <2>4
  <1> HIDE DEF Fits
  <1> QED
    BY <1>2, <1>3, StacksWalk

LEMMA MapStacks ==
  ASSUME NEW g, NEW w, IsWalk(g, w),
         \A i \in 1 .. Rounds : VisitMap(g, w[i - 1]) = VisitPopped(g, w[i - 1])
  PROVE  Stacks(g, MapStack) = w[Rounds]
  <1> DEFINE Fits(v) == v = [i \in 0 .. Rounds |-> IF i = 0 THEN Start ELSE VisitMap(g, v[i - 1])]
  <1>1. Fits(w)
    BY RoundsNat DEF IsWalk
  <1>2. Fits(WalkMap(g))
    BY <1>1 DEF WalkMap
  <1>3. ASSUME NEW v, Fits(v) PROVE v = w
    <2>1. /\ v = [i \in 0 .. Rounds |-> v[i]] /\ v[0] = Start
          /\ \A i \in 1 .. Rounds : v[i] = VisitMap(g, v[i - 1])
      BY <1>3, RoundsNat
    <2>2. SameSteps(Rounds, v, w)
      BY <2>1 DEF IsWalk, SameSteps
    <2>3. \A i \in 0 .. Rounds : v[i] = w[i]
      BY <2>2, RoundsNat, RecursionUnique
    <2>4. w = [i \in 0 .. Rounds |-> w[i]]
      BY DEF IsWalk
    <2> HIDE DEF Fits
    <2> QED
      BY <2>1, <2>3, <2>4
  <1> HIDE DEF Fits
  <1> QED
    BY <1>2, <1>3, StacksWalk

\* What a round has it keeps to the end.
LEMMA WalkGrows ==
  ASSUME NEW g, IsGraph(g), NEW w, IsWalk(g, w), NEW i \in 0 .. Rounds
  PROVE  \A m \in DOMAIN w[i] : m \in DOMAIN w[Rounds] /\ w[Rounds][m] = w[i][m]
  <1> DEFINE Kept(k) == \A m \in DOMAIN w[i] : m \in DOMAIN w[k] /\ w[k][m] = w[i][m]
             S == {k \in 0 .. Rounds : i <= k => Kept(k)}
  <1>1. 0 \in S
    BY RoundsNat
  <1>2. ASSUME NEW k \in 1 .. Rounds, k - 1 \in S PROVE k \in S
    <2>1. CASE i = k
      BY <2>1
    <2>2. CASE k < i
      BY <2>2, RoundsNat
    <2>3. CASE i < k
      <3>1. Kept(k - 1) /\ k - 1 \in 0 .. Rounds
        BY <1>2, <2>3, RoundsNat
      <3>2. w[k - 1] \in Frames /\ w[k] = VisitPopped(g, w[k - 1])
        BY <3>1 DEF IsWalk
      <3> QED
        BY <3>1, <3>2, VisitExtends
    <2> QED
      BY <2>1, <2>2, <2>3, RoundsNat
  <1>3. 0 .. Rounds \subseteq S
    <2> HIDE DEF S
    <2> QED
      BY <1>1, <1>2, RoundsNat, UpTo
  <1>4. Rounds \in S
    BY <1>3, RoundsNat
  <1> QED
    BY <1>4, RoundsNat

-----------------------------------------------------------------------------
(* What an accepted graph's frames are like *)

\* The frames below a frame are those of the task that opened it.
NestedStack(g, frames, stack) ==
    \A k \in 1 .. Len(stack) : /\ IsFanOutSource(g, stack[k])
                               /\ SubSeq(stack, 1, k - 1) = frames[stack[k]]

\* The fan-ins that the branches of a fan-out go to.
IntoTargets(g, frames, n) ==
    {e.to : e \in {f \in g.edges : f.to \in g.fanIn /\ SourceOf(g, f, frames[f.from]) = n}}

Sound(g, frames) ==
    /\ frames \in [Nodes -> Seq(Nodes)]
    /\ frames[Entry] = <<>>
    /\ \A e \in g.edges :
          /\ Pops(g, e, frames[e.from])
          /\ NextStack(g, e, frames[e.from]) = IF e.to = END THEN <<>> ELSE frames[e.to]
    /\ \A n \in Nodes : NestedStack(g, frames, frames[n])
    /\ \A n \in Nodes : IsFanOutSource(g, n) => \E m \in Nodes : IntoTargets(g, frames, n) = {m}

LEMMA FrontAppend ==
  ASSUME NEW X, NEW stack \in Seq(X), NEW x \in X
  PROVE  /\ Append(stack, x) # <<>> /\ Len(Append(stack, x)) = Len(stack) + 1
         /\ Front(Append(stack, x)) = stack
         /\ Last(Append(stack, x)) = x
         /\ \A k \in 1 .. Len(stack) + 1 : SubSeq(Append(stack, x), 1, k - 1) = SubSeq(stack, 1, k - 1)
  BY DEF Front, Last

LEMMA PrefixLength ==
  ASSUME NEW X, NEW stack \in Seq(X), NEW n \in Nat, n <= Len(stack)
  PROVE  Len(SubSeq(stack, 1, n)) = n /\ \A k \in 1 .. n : SubSeq(stack, 1, n)[k] = stack[k]
  OBVIOUS

\* The frames left when the innermost one closes nest as before.
LEMMA NestedFront ==
  ASSUME NEW g, NEW frames, NEW stack \in Seq(Nodes), NestedStack(g, frames, stack), stack # <<>>
  PROVE  NestedStack(g, frames, Front(stack)) /\ Front(stack) = frames[Last(stack)]
  <1>1. Len(stack) \in 1 .. Len(stack) /\ Front(stack) = SubSeq(stack, 1, Len(stack) - 1)
    BY DEF Front
  <1>0. Len(stack) \in Nat /\ Len(stack) >= 1
    BY <1>1
  <1>2. Front(stack) = frames[Last(stack)]
    BY <1>1 DEF NestedStack, Last
  <1>3. Len(Front(stack)) = Len(stack) - 1 /\ \A k \in 1 .. Len(stack) - 1 : Front(stack)[k] = stack[k]
    <2>1. Len(stack) - 1 \in Nat /\ Len(stack) - 1 <= Len(stack)
      BY <1>0
    <2> QED
      BY <1>1, <2>1, PrefixLength
  <1>4. \A k \in 1 .. Len(stack) - 1 : SubSeq(Front(stack), 1, k - 1) = SubSeq(stack, 1, k - 1)
    BY <1>1
  <1> QED
    BY <1>2, <1>3, <1>4 DEF NestedStack

LEMMA NestedAppend ==
  ASSUME NEW g, NEW frames, NEW stack \in Seq(Nodes), NestedStack(g, frames, stack),
         NEW n \in Nodes, IsFanOutSource(g, n), frames[n] = stack
  PROVE  NestedStack(g, frames, Append(stack, n))
  <1> SUFFICES ASSUME NEW k \in 1 .. Len(Append(stack, n))
               PROVE  /\ IsFanOutSource(g, Append(stack, n)[k])
                      /\ SubSeq(Append(stack, n), 1, k - 1) = frames[Append(stack, n)[k]]
    BY DEF NestedStack
  <1>1. k \in 1 .. Len(stack) + 1 /\ SubSeq(Append(stack, n), 1, k - 1) = SubSeq(stack, 1, k - 1)
    BY FrontAppend
  <1>2. CASE k = Len(stack) + 1
    <2>1. Append(stack, n)[k] = n /\ SubSeq(stack, 1, k - 1) = stack
      BY <1>2
    <2> QED
      BY <1>1, <2>1
  <1>3. CASE k \in 1 .. Len(stack)
    <2>1. Append(stack, n)[k] = stack[k]
      BY <1>3
    <2> QED
      BY <1>1, <1>3, <2>1 DEF NestedStack
  <1> QED
    BY <1>1, <1>2, <1>3

\* What Validate has seen of a graph it accepts.
LEMMA Accepted ==
  ASSUME NEW g \in Graphs, Validate(g)
  PROVE  /\ IsGraph(g) /\ WellFormed(g)
         /\ \E w : IsWalk(g, w) /\ Sound(g, w[Rounds])
  <1>1. IsGraph(g)
    BY GraphsAssumption DEF IsGraph
  <1>2. PICK w : IsWalk(g, w)
    BY <1>1, WalkExists
  <1> DEFINE V == w[Rounds]
  <1>3. /\ WellFormed(g)
        /\ DOMAIN V = Nodes
        /\ \A e \in g.edges : Pops(g, e, V[e.from])
        /\ ValidLineage(g, V)
    <2>1. Stacks(g, PoppedStack) = V
      BY <1>2, PoppedStacks
    <2> HIDE DEF V
    <2> QED
      BY <2>1 DEF Validate
  <1>4. Rounds \in 0 .. Rounds /\ 0 \in 0 .. Rounds
    BY RoundsNat
  <1>5. V \in [Nodes -> Seq(Nodes)]
    <2>1. V \in Frames
      BY <1>2, <1>4 DEF IsWalk
    <2> HIDE DEF V
    <2> QED
      BY <1>3, <2>1 DEF Frames
  <1>6. V[Entry] = <<>>
    <2>1. w[0] = Start /\ Entry \in DOMAIN w[0]
      BY <1>2 DEF IsWalk, Start
    <2> QED
      BY <1>1, <1>2, <1>4, <2>1, WalkGrows DEF Start
  <1>7. ASSUME NEW n \in Nodes PROVE NestedStack(g, V, V[n])
    <2> DEFINE S == {i \in 0 .. Rounds : \A m \in DOMAIN w[i] : NestedStack(g, V, V[m])}
    <2>1. 0 \in S
      <3>1. \A m \in DOMAIN w[0] : m = Entry
        BY <1>2 DEF IsWalk, Start
      <3> HIDE DEF V
      <3>2. NestedStack(g, V, <<>>)
        BY DEF NestedStack
      <3> QED
        BY <1>4, <1>6, <3>1, <3>2
    <2>2. ASSUME NEW i \in 1 .. Rounds, i - 1 \in S PROVE i \in S
      <3>1. i - 1 \in 0 .. Rounds /\ i \in 0 .. Rounds
        BY RoundsNat
      <3>2. w[i - 1] \in Frames /\ w[i] = VisitPopped(g, w[i - 1])
        BY <1>2, <3>1 DEF IsWalk
      <3>3. /\ \A m \in DOMAIN w[i] : V[m] = w[i][m]
            /\ \A m \in DOMAIN w[i - 1] : V[m] = w[i - 1][m]
        BY <1>1, <1>2, <3>1, WalkGrows
      <3>4. ASSUME NEW m \in DOMAIN w[i], m \notin DOMAIN w[i - 1] PROVE NestedStack(g, V, V[m])
        <4>1. PICK e \in g.edges : /\ e.from \in DOMAIN w[i - 1] /\ e.to = m
                                   /\ w[i][m] = PoppedStack(g, e, w[i - 1][e.from])
          BY <1>1, <3>2, <3>4, VisitExtends
        <4> HIDE DEF V
        <4>2. e.from \in Nodes /\ V[e.from] \in Seq(Nodes)
          BY <1>1, <1>5 DEF IsGraph
        <4>3. NestedStack(g, V, V[e.from])
          BY <2>2, <4>1
        <4>4. V[m] = NextStack(g, e, V[e.from])
          BY <1>3, <3>3, <4>1 DEF PoppedStack
        <4>5. e.to \in g.fanIn /\ ~IsFanOutSource(g, e.from) => V[e.from] # <<>>
          BY <1>3 DEF Pops
        <4>6. V[e.from] # <<>> => NestedStack(g, V, Front(V[e.from]))
          BY <4>2, <4>3, NestedFront
        <4>7. IsFanOutSource(g, e.from) => NestedStack(g, V, Append(V[e.from], e.from))
          BY <4>2, <4>3, NestedAppend
        <4> QED
          BY <4>3, <4>4, <4>5, <4>6, <4>7 DEF NextStack
      <3> QED
        BY <2>2, <3>1, <3>4
    <2>3. Rounds \in S
      <3> HIDE DEF S
      <3> QED
        BY <1>4, <2>1, <2>2, RoundsNat, UpTo
    <2> QED
      BY <1>3, <2>3
  <1>8. ASSUME NEW n \in Nodes, IsFanOutSource(g, n) PROVE \E m \in Nodes : IntoTargets(g, V, n) = {m}
    <2> HIDE DEF V
    <2>1. Cardinality(IntoTargets(g, V, n)) = 1
      BY <1>3, <1>8 DEF ValidLineage, IntoTargets
    <2>2. IntoTargets(g, V, n) \in SUBSET Nodes
      BY <1>1 DEF IntoTargets, IsGraph
    <2>3. IsFiniteSet(IntoTargets(g, V, n))
      BY <2>2, EntryAssumption, FS_Subset
    <2>4. PICK m : IntoTargets(g, V, n) = {m}
      BY <2>1, <2>3, FS_Singleton
    <2> QED
      BY <2>2, <2>4
  <1>9. Sound(g, V)
    <2> HIDE DEF V
    <2> QED
      BY <1>3, <1>5, <1>6, <1>7, <1>8 DEF Sound, ValidLineage
  <1> QED
    BY <1>1, <1>2, <1>3, <1>9

-----------------------------------------------------------------------------
(* The three walks agree *)

\* The graphs the routing properties are about.
Ordinary(g) == OrdinaryArrivals(g) /\ EndReachable(g)

\* The validator's frames are the ones its rule gives without a check, and on a
\* graph that is entered ordinarily, the ones the engine's map works with.
LEMMA WalksAgree ==
  ASSUME NEW g \in Graphs, Validate(g)
  PROVE  \E frames : /\ Sound(g, frames)
                     /\ Stacks(g, NextStack) = frames
                     /\ OrdinaryArrivals(g) => Stacks(g, MapStack) = frames
  <1>1. PICK w : IsWalk(g, w) /\ Sound(g, w[Rounds])
    BY Accepted
  <1>2. IsGraph(g)
    BY Accepted
  <1> DEFINE V == w[Rounds]
  <1>3. ASSUME NEW i \in 1 .. Rounds, NEW e \in g.edges, e.from \in DOMAIN w[i - 1]
        PROVE  w[i - 1][e.from] = V[e.from] /\ Pops(g, e, V[e.from])
    <2>1. i - 1 \in 0 .. Rounds
      BY RoundsNat
    <2> QED
      BY <1>1, <1>2, <1>3, <2>1, WalkGrows DEF Sound
  <1>4. Stacks(g, NextStack) = V
    <2>1. ASSUME NEW i \in 1 .. Rounds PROVE VisitNext(g, w[i - 1]) = VisitPopped(g, w[i - 1])
      BY <1>3, VisitsAgree DEF PoppedStack
    <2> QED
      BY <1>1, <2>1, NextStacks
  <1>5. ASSUME OrdinaryArrivals(g) PROVE Stacks(g, MapStack) = V
    <2>1. ASSUME NEW i \in 1 .. Rounds PROVE VisitMap(g, w[i - 1]) = VisitPopped(g, w[i - 1])
      <3>1. ASSUME NEW e \in g.edges, e.from \in DOMAIN w[i - 1]
            PROVE  MapStack(g, e, w[i - 1][e.from]) = PoppedStack(g, e, w[i - 1][e.from])
        BY <1>3, <1>5, <3>1 DEF PoppedStack, MapStack, NextStack, OrdinaryArrivals, Pops
      <3> QED
        BY <3>1, VisitsAgree
    <2> QED
      BY <1>1, <2>1, MapStacks
  <1> QED
    BY <1>1, <1>4, <1>5

\* Every fan-out of such a graph has an ordinary transition that converges for it:
\* else the tasks inside it would be a trap.
LEMMA OrdinaryConvergence ==
  ASSUME NEW g, IsGraph(g), NEW frames, Sound(g, frames), Ordinary(g), WellFormed(g),
         NEW n \in Nodes, IsFanOutSource(g, n)
  PROVE  \E e \in g.edges : /\ e.kind \notin Override /\ e.to \in g.fanIn
                            /\ SourceOf(g, e, frames[e.from]) = n
  <1> SUFFICES ASSUME \A e \in g.edges : e.kind \notin Override /\ e.to \in g.fanIn =>
                                             SourceOf(g, e, frames[e.from]) # n
               PROVE  FALSE
    OBVIOUS
  <1> DEFINE depth == Len(frames[n]) + 1
             inside == {m \in Nodes : depth <= Len(frames[m]) /\ frames[m][depth] = n}
  <1>1. /\ frames[n] \in Seq(Nodes) /\ depth \in Nat \ {0}
        /\ \A m \in Nodes : frames[m] \in Seq(Nodes) /\ Len(frames[m]) \in Nat
    BY DEF Sound
  <1>2. PICK first \in g.edges : first.from = n /\ first.kind \notin Override
    <2>1. CASE \A e \in g.edges : e.from = n => e.kind \in Override
      <3>1. {e \in Out(g, n) : e.kind \notin Override} = {}
        BY <2>1 DEF Out
      <3> QED
        BY <3>1, FS_EmptySet DEF IsFanOutSource
    <2> QED
      BY <2>1
  <1>3. first.to \in inside
    <2>1. first.to \notin g.fanIn
      BY <1>2 DEF SourceOf
    <2>2. NextStack(g, first, frames[n]) = Append(frames[n], n)
      BY <1>2, <2>1 DEF NextStack
    <2>3. first.to # END /\ frames[first.to] = Append(frames[n], n)
      <3>1. Append(frames[n], n) # <<>>
        BY <1>1, FrontAppend
      <3>2. NextStack(g, first, frames[first.from]) = IF first.to = END THEN <<>> ELSE frames[first.to]
        BY DEF Sound
      <3> QED
        BY <1>2, <2>2, <3>1, <3>2
    <2>4. first.to \in Nodes
      BY <2>3 DEF IsGraph
    <2>5. depth <= Len(Append(frames[n], n)) /\ Append(frames[n], n)[depth] = n
      BY <1>1
    <2> QED
      BY <2>3, <2>4, <2>5
  <1>4. ASSUME NEW e \in g.edges, e.from \in inside PROVE e.to \in inside
    <2> DEFINE stack == frames[e.from]
    <2>1. /\ e.from \in Nodes /\ stack \in Seq(Nodes) /\ Len(stack) \in Nat
          /\ depth <= Len(stack) /\ stack[depth] = n /\ stack # <<>>
      BY <1>1, <1>4
    <2>2. /\ depth <= Len(NextStack(g, e, stack)) /\ NextStack(g, e, stack)[depth] = n
          /\ NextStack(g, e, stack) # <<>>
      <3>1. CASE NextStack(g, e, stack) = stack
        BY <2>1, <3>1
      <3>2. CASE NextStack(g, e, stack) = Append(stack, e.from)
        <4>1. /\ Len(Append(stack, e.from)) = Len(stack) + 1
              /\ Append(stack, e.from)[depth] = stack[depth]
              /\ Append(stack, e.from) # <<>>
          BY <1>1, <2>1
        <4> QED
          BY <1>1, <2>1, <3>2, <4>1
      <3>3. CASE e.to \in g.fanIn /\ ~IsFanOutSource(g, e.from)
        <4>1. NextStack(g, e, stack) = Front(stack)
          BY <3>3 DEF NextStack
        <4>2. e.kind \notin Override
          BY <3>3 DEF Ordinary, OrdinaryArrivals
        <4>3. stack[Len(stack)] # n
          BY <3>3, <4>2 DEF SourceOf, Last
        <4>4. depth <= Len(stack) - 1
          BY <1>1, <2>1, <4>3
        <4>5. Len(Front(stack)) = Len(stack) - 1 /\ Front(stack)[depth] = stack[depth]
          BY <1>1, <2>1, <4>4 DEF Front
        <4> QED
          BY <1>1, <2>1, <4>1, <4>4, <4>5
      <3> QED
        BY <3>1, <3>2, <3>3 DEF NextStack
    <2> HIDE DEF depth
    <2>3. e.to # END /\ frames[e.to] = NextStack(g, e, stack)
      BY <2>2 DEF Sound
    <2>4. e.to \in Nodes
      BY <2>3 DEF IsGraph
    <2> QED
      BY <2>2, <2>3, <2>4
  <1>5. inside \in SUBSET Nodes /\ inside # {}
    BY <1>3
  <1> HIDE DEF inside
  <1> QED
    BY <1>4, <1>5 DEF Ordinary, EndReachable

\* The map answers with the one fan-in of the fan-out, in whose frames it runs.
LEMMA FanInForConverges ==
  ASSUME NEW g \in Graphs, Validate(g), Ordinary(g),
         NEW frames, Sound(g, frames), Stacks(g, MapStack) = frames,
         NEW n \in Nodes, IsFanOutSource(g, n)
  PROVE  /\ FanInFor(g, n) # NoFanIn /\ FanInFor(g, n) \in g.fanIn /\ FanInFor(g, n) \in Nodes
         /\ frames[FanInFor(g, n)] = frames[n]
         /\ \A e \in g.edges : e.to \in g.fanIn /\ SourceOf(g, e, frames[e.from]) = n =>
                e.to = FanInFor(g, n)
  <1>1. IsGraph(g) /\ WellFormed(g)
    BY Accepted
  <1> DEFINE into == {e \in g.edges : /\ e.kind \notin Override /\ e.to \in g.fanIn
                                      /\ IsFanOutSource(g, e.from) \/ frames[e.from] # <<>>
                                      /\ SourceOf(g, e, frames[e.from]) = n}
  <1>2. into # {}
    <2>1. PICK e \in g.edges : /\ e.kind \notin Override /\ e.to \in g.fanIn
                               /\ SourceOf(g, e, frames[e.from]) = n
      BY <1>1, OrdinaryConvergence
    <2> QED
      BY <2>1 DEF Sound, Pops
  <1>3. PICK e \in into : FanInFor(g, n) = e.to
    <2>1. FanInFor(g, n) = (CHOOSE e \in into : TRUE).to
      BY <1>2 DEF FanInFor
    <2> HIDE DEF into
    <2> QED
      BY <1>2, <2>1
  <1>4. FanInFor(g, n) \in g.fanIn /\ FanInFor(g, n) \in Nodes /\ FanInFor(g, n) # NoFanIn
    BY <1>1, <1>3, EntryAssumption DEF IsGraph
  <1>5. PICK m : IntoTargets(g, frames, n) = {m}
    BY DEF Sound
  <1>6. ASSUME NEW f \in g.edges, f.to \in g.fanIn, SourceOf(g, f, frames[f.from]) = n
        PROVE  f.to = FanInFor(g, n)
    BY <1>3, <1>5, <1>6 DEF IntoTargets
  <1>7. frames[e.to] = frames[n]
    <2>1. e.to # END /\ frames[e.to] = NextStack(g, e, frames[e.from])
      BY <1>3, <1>4, EntryAssumption DEF Sound
    <2>2. CASE IsFanOutSource(g, e.from)
      BY <1>3, <2>1, <2>2 DEF NextStack, SourceOf
    <2>3. CASE ~IsFanOutSource(g, e.from)
      <3>1. e.from \in Nodes /\ frames[e.from] # <<>> /\ Last(frames[e.from]) = n
        BY <1>1, <1>3, <2>3 DEF IsGraph, SourceOf
      <3>2. frames[e.from] \in Seq(Nodes) /\ NestedStack(g, frames, frames[e.from])
        BY <3>1 DEF Sound
      <3>3. Front(frames[e.from]) = frames[n]
        BY <3>1, <3>2, NestedFront
      <3> QED
        BY <1>3, <2>1, <2>3, <3>3 DEF NextStack
    <2> QED
      BY <2>2, <2>3
  <1> QED
    BY <1>3, <1>4, <1>6, <1>7

-----------------------------------------------------------------------------
(* The router *)

\* What may be taken together: one override, or at a fan-out ordinary transitions.
LEMMA TakenTogether ==
  ASSUME NEW g, WellFormed(g), NEW n \in Nodes, NEW taken \in Candidates(g, n)
  PROVE  /\ taken \subseteq {e \in g.edges : e.from = n}
         /\ \/ \E e : taken = {e} /\ e.kind \in {"goto", "onError"}
            \/ IsFanOutSource(g, n) => \A e \in taken : e.kind \notin Override
  <1>1. taken \subseteq Out(g, n)
    BY DEF Candidates
  <1>2. ASSUME IsFanOutSource(g, n) PROVE {e \in Out(g, n) : e.kind \in {"switch"}} = {}
    <2>1. PICK e \in Out(g, n) : e.kind \notin Override
      <3>1. CASE {e \in Out(g, n) : e.kind \notin Override} = {}
        BY <1>2, <3>1, FS_EmptySet DEF IsFanOutSource
      <3> QED
        BY <3>1
    <2> QED
      BY <2>1 DEF WellFormed, Out
  <1>3. ASSUME IsFanOutSource(g, n), ~ \E e : taken = {e} /\ e.kind \in {"goto", "onError"}
        PROVE  \A e \in taken : e.kind \notin Override
    BY <1>2, <1>3 DEF Candidates, Override
  <1> QED
    BY <1>1, <1>3 DEF Out

\* From a task that runs in the validator's frames, every route of the router
\* leads to a task in the validator's frames or ends the path in order.
LEMMA RouteFollows ==
  ASSUME graph \in Graphs, Validate(graph), Ordinary(graph),
         NEW frames, Sound(graph, frames), Stacks(graph, MapStack) = frames,
         at \in Nodes, lineage = frames[at],
         NEW taken \in Candidates(graph, at), Route(taken)
  PROVE  \/ outcome' = "going" /\ at' \in Nodes /\ lineage' = frames[at']
         \/ outcome' \in {"completed", "deadEnd"}
  <1> DEFINE real == {e \in taken : e.to # END}
             source == IsFanOutSource(graph, at)
             push == source /\ \A e \in taken : e.kind \notin {"goto", "onError"}
             fanIn == IF source THEN FanInFor(graph, at) ELSE NoFanIn
             direct == fanIn # NoFanIn
                         /\ (taken = {} \/ (Cardinality(real) = 1 /\ \A e \in real : e.to = fanIn))
             goes(to, chain) == at' = to /\ lineage' = chain /\ outcome' = "going"
             ends(how) == outcome' = how /\ UNCHANGED <<at, lineage>>
  <1>1. IsGraph(graph) /\ WellFormed(graph)
    BY Accepted
  <1>2. /\ taken \subseteq {e \in graph.edges : e.from = at}
        /\ \/ \E e : taken = {e} /\ e.kind \in {"goto", "onError"}
           \/ source => \A e \in taken : e.kind \notin Override
    BY <1>1, TakenTogether
  <1>3. ASSUME source
        PROVE  /\ fanIn # NoFanIn /\ fanIn \in Nodes /\ frames[fanIn] = frames[at]
               /\ \A e \in taken : e.to \in graph.fanIn => e.to = fanIn
    <2>1. \A e \in taken : SourceOf(graph, e, frames[e.from]) = at
      BY <1>2, <1>3 DEF SourceOf
    <2> QED
      BY <1>2, <1>3, <2>1, FanInForConverges
  <1>4. ASSUME NEW e \in taken
        PROVE  /\ Pops(graph, e, frames[at])
               /\ NextStack(graph, e, frames[at]) = IF e.to = END THEN <<>> ELSE frames[e.to]
               /\ e.to # END => e.to \in Nodes
               /\ e.to \in graph.fanIn => e.to # END
    BY <1>1, <1>2, EntryAssumption DEF Sound, IsGraph
  <1>5. lineage \in Seq(Nodes)
    BY DEF Sound
  <1>6. Append(lineage, at) # <<>> /\ Front(Append(lineage, at)) = lineage
    BY <1>5, FrontAppend
  <1>7. Cardinality({}) = 0 /\ \A e : Cardinality({e}) = 1
    BY FS_EmptySet, FS_Singleton
  <1>8. IF direct THEN goes(fanIn, lineage)
        ELSE IF real = {}
        THEN IF lineage = <<>> THEN ends(IF taken = {} /\ source THEN "skipped" ELSE "completed")
             ELSE ends(IF taken = {} /\ ~source THEN "deadEnd" ELSE "stray")
        ELSE \E e \in real :
                IF e.to \in graph.fanIn
                THEN LET chain == IF push THEN Append(lineage, at) ELSE lineage
                     IN  IF chain = <<>> THEN ends("stray") ELSE goes(e.to, Front(chain))
                ELSE goes(e.to, IF push THEN Append(lineage, at) ELSE lineage)
    BY DEF Route
  <1> HIDE DEF fanIn, source
  <1>9. CASE direct
    <2>1. source
      BY <1>9 DEF fanIn
    <2> QED
      BY <1>3, <1>8, <1>9, <2>1
  <1>10. CASE ~direct /\ real = {}
    <2>1. CASE taken = {}
      <3>1. ~source
        BY <1>3, <1>10, <2>1
      <3> QED
        BY <1>8, <1>10, <2>1, <3>1
    <2>2. CASE taken # {}
      <3>1. PICK e \in taken : e.to = END
        BY <1>10, <2>2
      <3>2. NextStack(graph, e, frames[at]) = <<>> /\ e.to \notin graph.fanIn
        BY <1>4, <3>1
      <3>3. lineage = <<>>
        BY <1>2, <1>6, <3>2 DEF NextStack
      <3> QED
        BY <1>8, <1>10, <2>2, <3>3
    <2> QED
      BY <2>1, <2>2
  <1>11. CASE ~direct /\ real # {}
    <2>1. PICK e \in real :
             IF e.to \in graph.fanIn
             THEN LET chain == IF push THEN Append(lineage, at) ELSE lineage
                  IN  IF chain = <<>> THEN ends("stray") ELSE goes(e.to, Front(chain))
             ELSE goes(e.to, IF push THEN Append(lineage, at) ELSE lineage)
      BY <1>8, <1>11
    <2>2. /\ e \in taken /\ e.to \in Nodes /\ e.from = at
          /\ frames[e.to] = NextStack(graph, e, lineage)
          /\ Pops(graph, e, lineage)
      BY <1>2, <1>4, <2>1
    <2>3. CASE e.to \in graph.fanIn /\ source
      <3>1. push
        <4>1. CASE \E f : taken = {f} /\ f.kind \in {"goto", "onError"}
          <5>1. real = {e} /\ taken # {}
            BY <2>1, <2>2, <4>1
          <5>2. Cardinality(real) = 1 /\ \A f \in real : f.to = fanIn
            BY <1>3, <1>7, <2>2, <2>3, <5>1
          <5> QED
            BY <1>3, <1>11, <2>3, <5>2
        <4>2. CASE \A f \in taken : f.kind \notin Override
          BY <2>3, <4>2 DEF Override
        <4> QED
          BY <1>2, <2>3, <4>1, <4>2
      <3>2. frames[e.to] = lineage
        BY <2>2, <2>3 DEF NextStack, source
      <3> HIDE DEF push
      <3> QED
        BY <1>6, <2>1, <2>2, <2>3, <3>1, <3>2
    <2>4. CASE e.to \in graph.fanIn /\ ~source
      <3>1. lineage # <<>> /\ frames[e.to] = Front(lineage) /\ ~push
        BY <2>2, <2>4 DEF Pops, NextStack, source
      <3> HIDE DEF push
      <3> QED
        BY <2>1, <2>2, <2>4, <3>1
    <2>5. CASE e.to \notin graph.fanIn
      <3>1. push <=> source /\ e.kind \notin Override
        BY <1>2, <2>2 DEF Override
      <3>2. frames[e.to] = IF push THEN Append(lineage, at) ELSE lineage
        <4> HIDE DEF push
        <4> QED
          BY <2>2, <2>5, <3>1 DEF NextStack, source
      <3> HIDE DEF push
      <3> QED
        BY <2>1, <2>2, <2>5, <3>2
    <2> QED
      BY <2>3, <2>4, <2>5
  <1> QED
    BY <1>9, <1>10, <1>11

\* On a graph that Validate accepts and that is entered ordinarily, a step runs
\* in the frames the validator worked out for its task.
RouteInv ==
    /\ graph \in Graphs /\ Validate(graph)
    /\ Ordinary(graph) =>
          /\ outcome \in {"going", "completed", "deadEnd"}
          /\ outcome = "going" => at \in Nodes /\ lineage = Stacks(graph, NextStack)[at]

THEOREM RoutingInvariant == Spec => []RouteInv
  <1>1. Init => RouteInv
    <2> SUFFICES ASSUME Init PROVE RouteInv
      OBVIOUS
    <2>1. graph \in Graphs /\ Validate(graph) /\ at = Entry /\ lineage = <<>> /\ outcome = "going"
      BY DEF Init
    <2>2. PICK frames : Sound(graph, frames) /\ Stacks(graph, NextStack) = frames
      BY <2>1, WalksAgree
    <2> QED
      BY <2>1, <2>2, EntryAssumption DEF RouteInv, Sound
  <1>2. RouteInv /\ [Next]_vars => RouteInv'
    <2> SUFFICES ASSUME RouteInv, [Next]_vars PROVE RouteInv'
      OBVIOUS
    <2>1. CASE Next
      <3>1. graph' = graph /\ outcome = "going"
        BY <2>1 DEF Next, Step
      <3>2. PICK taken \in Candidates(graph, at) : Route(taken)
        BY <2>1 DEF Next, Step
      <3>3. PICK frames : /\ Sound(graph, frames) /\ Stacks(graph, NextStack) = frames
                          /\ OrdinaryArrivals(graph) => Stacks(graph, MapStack) = frames
        BY WalksAgree DEF RouteInv
      <3>4. ASSUME Ordinary(graph)
            PROVE  \/ outcome' = "going" /\ at' \in Nodes /\ lineage' = frames[at']
                   \/ outcome' \in {"completed", "deadEnd"}
        <4>1. Stacks(graph, MapStack) = frames
          BY <3>3, <3>4 DEF Ordinary
        <4> QED
          BY <3>1, <3>2, <3>3, <3>4, <4>1, RouteFollows DEF RouteInv
      <3> QED
        BY <3>1, <3>3, <3>4 DEF RouteInv
    <2>2. CASE UNCHANGED vars
      BY <2>2 DEF RouteInv, vars
    <2> QED
      BY <2>1, <2>2
  <1> QED
    BY <1>1, <1>2, PTL DEF Spec

\* No step of an accepted graph goes a route that processStep calls unreachable:
\* the validator, the fan-in map and the router agree, for every graph that is
\* entered ordinarily and in which END can be reached from every task.
THEOREM RoutesFollowValidation == Spec => []RoutesAsValidated
  <1>1. RouteInv => RoutesAsValidated
    BY DEF RouteInv, RoutesAsValidated, Ordinary
  <1> QED
    BY <1>1, RoutingInvariant, PTL

\* The cohort a branch reports to is the one whose fan-in it goes to: every step
\* carries the frames the validator worked out for its task.
THEOREM LineageFollowsValidation == Spec => []LineageAsValidated
  <1>1. RouteInv => LineageAsValidated
    BY DEF RouteInv, LineageAsValidated, Ordinary
  <1> QED
    BY <1>1, RoutingInvariant, PTL

-----------------------------------------------------------------------------
(* Snapshots, deltas and references *)

Fields == Plain \cup Reduced \cup {Item}
Writes == (Nat \X Int) \cup (Nat \X Nat \X {"element"})
Values == Seq(Writes)
Snapshots == UNION {[fields -> Values] : fields \in SUBSET Fields}
References == UNION {[fields -> Nat] : fields \in SUBSET Fields}

\* No field holds a tombstone.
Enacted(state) == \A k \in DOMAIN state : state[k] # Deleted

\* A value is a sequence of writes, and so is what a reducer makes of two.
LEMMA ValuesClosed ==
  /\ Deleted \in Values
  /\ \A x, y \in Values : x \o y \in Values
  /\ \A n \in Nat, i \in Int : <<<<n, i>>>> \in Values
  /\ \A n, i \in Nat : <<<<n, i, "element">>>> \in Values
  /\ \A w : <<w>> # Deleted
  <1>1. \A w \in Writes : <<w>> \in Values
    BY DEF Values
  <1> QED
    BY <1>1 DEF Values, Writes, Deleted

LEMMA SnapshotForm ==
  ASSUME NEW f
  PROVE  f \in Snapshots <=> f \in [DOMAIN f -> Values] /\ DOMAIN f \subseteq Fields
  BY DEF Snapshots

LEMMA ReferencesForm ==
  ASSUME NEW f
  PROVE  f \in References <=> f \in [DOMAIN f -> Nat] /\ DOMAIN f \subseteq Fields
  BY DEF References

\* What Merge, DelNils and a restriction return.
LEMMA MergeForm ==
  ASSUME NEW base, NEW delta
  PROVE  /\ DOMAIN Merge(base, delta) = DOMAIN base \cup DOMAIN delta
         /\ \A k \in DOMAIN delta : Merge(base, delta)[k] = delta[k]
         /\ \A k \in DOMAIN base \ DOMAIN delta : Merge(base, delta)[k] = base[k]
         /\ base \in Snapshots /\ delta \in Snapshots => Merge(base, delta) \in Snapshots
         /\ base \in References /\ delta \in References => Merge(base, delta) \in References
  <1>1. base \in Snapshots /\ delta \in Snapshots => Merge(base, delta) \in Snapshots
    BY SnapshotForm DEF Merge
  <1>2. base \in References /\ delta \in References => Merge(base, delta) \in References
    BY ReferencesForm DEF Merge
  <1> QED
    BY <1>1, <1>2 DEF Merge

LEMMA RestrictForm ==
  ASSUME NEW f, NEW S, S \subseteq DOMAIN f
  PROVE  /\ DOMAIN Restrict(f, S) = S
         /\ \A k \in S : Restrict(f, S)[k] = f[k]
         /\ f \in Snapshots => Restrict(f, S) \in Snapshots
         /\ f \in References => Restrict(f, S) \in References
  <1>1. f \in Snapshots => Restrict(f, S) \in Snapshots
    BY SnapshotForm DEF Restrict
  <1>2. f \in References => Restrict(f, S) \in References
    BY ReferencesForm DEF Restrict
  <1> QED
    BY <1>1, <1>2 DEF Restrict

LEMMA DelNilsForm ==
  ASSUME NEW f
  PROVE  /\ DOMAIN DelNils(f) = {k \in DOMAIN f : f[k] # Deleted}
         /\ \A k \in DOMAIN DelNils(f) : DelNils(f)[k] = f[k]
         /\ f \in Snapshots => DelNils(f) \in Snapshots
         /\ Enacted(DelNils(f))
  <1>1. {k \in DOMAIN f : f[k] # Deleted} \subseteq DOMAIN f
    OBVIOUS
  <1>2. /\ DOMAIN DelNils(f) = {k \in DOMAIN f : f[k] # Deleted}
        /\ \A k \in DOMAIN DelNils(f) : DelNils(f)[k] = f[k]
        /\ f \in Snapshots => DelNils(f) \in Snapshots
    BY <1>1, RestrictForm DEF DelNils
  <1> QED
    BY <1>2 DEF Enacted

\* The fields a delta folds into a snapshot, and what it makes of them.
FoldedFields(delta) == {k \in DOMAIN delta : k \in Reduced => delta[k] # Deleted}

LEMMA MergeReduceForm ==
  ASSUME NEW base, NEW delta
  PROVE  /\ DOMAIN MergeReduce(base, delta) = DOMAIN base \cup FoldedFields(delta)
         /\ \A k \in FoldedFields(delta) :
               MergeReduce(base, delta)[k] =
                  IF k \in Reduced /\ k \in DOMAIN base THEN base[k] \o delta[k] ELSE delta[k]
         /\ \A k \in DOMAIN base \ FoldedFields(delta) : MergeReduce(base, delta)[k] = base[k]
         /\ base \in Snapshots /\ delta \in Snapshots => MergeReduce(base, delta) \in Snapshots
  <1> DEFINE folded == {k \in DOMAIN delta \cap Reduced : delta[k] # Deleted}
             replaced == DOMAIN delta \ Reduced
             incoming == [k \in folded \cup replaced |->
                            IF k \in folded THEN Reduce(base, k, delta[k]) ELSE delta[k]]
  <1>1. MergeReduce(base, delta) = Merge(base, incoming)
    BY DEF MergeReduce
  <1>2. folded \cup replaced = FoldedFields(delta)
    BY DEF FoldedFields
  <1>3. /\ DOMAIN incoming = FoldedFields(delta)
        /\ \A k \in FoldedFields(delta) :
              incoming[k] = IF k \in Reduced /\ k \in DOMAIN base THEN base[k] \o delta[k] ELSE delta[k]
    BY <1>2 DEF Reduce, FoldedFields
  <1>4. ASSUME base \in Snapshots, delta \in Snapshots PROVE incoming \in Snapshots
    <2>1. base \in [DOMAIN base -> Values] /\ delta \in [DOMAIN delta -> Values] /\ DOMAIN delta \subseteq Fields
      BY <1>4, SnapshotForm
    <2>2. ASSUME NEW k \in DOMAIN incoming PROVE incoming[k] \in Values
      BY <1>3, <2>1, <2>2, ValuesClosed DEF FoldedFields
    <2>3. DOMAIN incoming \subseteq Fields
      BY <1>3, <2>1 DEF FoldedFields
    <2>4. incoming \in [DOMAIN incoming -> Values]
      BY <2>2
    <2> QED
      <3> HIDE DEF incoming
      <3> QED
        BY <2>3, <2>4, SnapshotForm
  <1> HIDE DEF incoming
  <1>5. /\ DOMAIN Merge(base, incoming) = DOMAIN base \cup DOMAIN incoming
        /\ \A k \in DOMAIN incoming : Merge(base, incoming)[k] = incoming[k]
        /\ \A k \in DOMAIN base \ DOMAIN incoming : Merge(base, incoming)[k] = base[k]
        /\ base \in Snapshots /\ incoming \in Snapshots => Merge(base, incoming) \in Snapshots
    BY MergeForm
  <1> QED
    BY <1>1, <1>3, <1>4, <1>5

-----------------------------------------------------------------------------
(* The inductive invariant *)

StepRow == [state : Snapshots, refs : References, changes : Snapshots,
            phase : {"pending", "completed", "moved", "arrived"},
            lineage : Nat, ordinal : Nat, depth : Nat]

\* What row a holds of field k: its delta shadows its snapshot.
Stored(rows, a, k) ==
    IF k \in DOMAIN rows[a].changes THEN rows[a].changes[k]
    ELSE IF k \in DOMAIN rows[a].state THEN rows[a].state[k] ELSE "dangling"

\* A step that has moved on: its row never changes again.
Moved(rows, a) == a \in DOMAIN rows /\ rows[a].phase = "moved"

\* A row and the rows its references name, put together.
Assembled(rows, new) == Merge(new.state, [k \in DOMAIN new.refs |-> Stored(rows, new.refs[k], k)])

RefsTyped ==
    /\ row \in Seq(StepRow) /\ truth \in Seq(Snapshots) /\ Len(truth) = Len(row)
    /\ rewinds \in Int
    /\ \A r \in Rows : Item \notin DOMAIN row[r].changes /\ Enacted(truth[r])

\* Every reference names a row that keeps what it holds.
AnchorsMoved == \A r \in Rows : \A k \in DOMAIN row[r].refs : Moved(row, row[r].refs[k])

\* A field is held or referenced, not both.
HeldOrReferenced == \A r \in Rows : DOMAIN row[r].state \cap DOMAIN row[r].refs = {}

\* The cache holds what the rows hold.
CacheStored == \A p \in DOMAIN cache : Moved(row, p[1]) /\ cache[p] = Stored(row, p[1], p[2])

\* No row leads elsewhere than to the whole state.
RowsAssemble == \A r \in Rows : Assembled(row, row[r]) = truth[r]

\* A branch belongs to a step of the trunk that fanned out.
CohortsSpawned ==
    \A r \in Rows : row[r].lineage # 0 => Moved(row, row[r].lineage) /\ row[row[r].lineage].lineage = 0

\* The element is bound inside the branches only.
ElementInBranches == \A r \in Rows : row[r].lineage = 0 => Item \notin DOMAIN truth[r]

\* In a branch the rows follow one another, each deeper than the one before.
BranchOrder ==
    \A a, b \in Rows :
        a < b /\ row[a].lineage # 0 /\ row[a].lineage = row[b].lineage /\ row[a].ordinal = row[b].ordinal =>
            row[a].depth < row[b].depth /\ Moved(row, a)

DepthBounded == \A r \in Rows : row[r].depth <= r

RefsInv ==
    /\ RefsTyped
    /\ AnchorsMoved
    /\ HeldOrReferenced
    /\ CacheStored
    /\ RowsAssemble
    /\ CohortsSpawned
    /\ ElementInBranches
    /\ BranchOrder
    /\ DepthBounded

\* Appending to a table.
Appended(X, u, v, w) == u \in Seq(X) /\ v \in Seq(X) /\ w = u \o v

LEMMA AppendedForm ==
  ASSUME NEW X, NEW u, NEW v, NEW w, Appended(X, u, v, w)
  PROVE  /\ w \in Seq(X) /\ Len(w) = Len(u) + Len(v)
         /\ \A i \in 1 .. Len(u) : w[i] = u[i]
         /\ \A j \in Len(u) + 1 .. Len(u) + Len(v) : w[j] = v[j - Len(u)]
  BY DEF Appended

\* The fields of a row that a change of its phase leaves alone.
SameContent(a, b) ==
    /\ a.state = b.state /\ a.refs = b.refs /\ a.changes = b.changes
    /\ a.lineage = b.lineage /\ a.ordinal = b.ordinal /\ a.depth = b.depth

PhaseSet(s, phase, rows) ==
    /\ s \in Rows /\ phase \in {"pending", "completed", "moved", "arrived"}
    /\ rows = [row EXCEPT ![s].phase = phase]

LEMMA PhaseSetForm ==
  ASSUME row \in Seq(StepRow), NEW s, NEW phase, NEW rows, PhaseSet(s, phase, rows)
  PROVE  /\ rows \in Seq(StepRow) /\ Len(rows) = Len(row)
         /\ \A r \in Rows : /\ SameContent(rows[r], row[r])
                            /\ rows[r].phase = IF r = s THEN phase ELSE row[r].phase
  <1>1. Rows = 1 .. Len(row) /\ Len(row) \in Nat
    BY DEF Rows
  <1>2. \A r \in Rows : row[r] \in StepRow
    BY <1>1
  <1>3. \A r \in Rows : rows[r] = IF r = s THEN [row[s] EXCEPT !.phase = phase] ELSE row[r]
    BY <1>1 DEF PhaseSet
  <1>4. [row[s] EXCEPT !.phase = phase] \in StepRow
    BY <1>2 DEF StepRow, PhaseSet
  <1>5. rows \in [1 .. Len(row) -> StepRow]
    BY <1>1, <1>2, <1>3, <1>4 DEF PhaseSet
  <1>6. rows \in Seq(StepRow) /\ Len(rows) = Len(row)
    BY <1>1, <1>5
  <1>7. ASSUME NEW r \in Rows
        PROVE  SameContent(rows[r], row[r]) /\ rows[r].phase = IF r = s THEN phase ELSE row[r].phase
    <2>1. CASE r = s
      BY <1>2, <1>3, <2>1 DEF SameContent, StepRow
    <2>2. CASE r # s
      BY <1>3, <2>2 DEF SameContent
    <2> QED
      BY <2>1, <2>2
  <1> QED
    BY <1>6, <1>7

\* What a row that the transition of s inserts must be for the invariant to last.
Keeps(s, phase, a) == Moved(row, a) \/ (a = s /\ phase = "moved")

Fits(s, phase, new, full) ==
    /\ new \in StepRow /\ full \in Snapshots
    /\ Item \notin DOMAIN new.changes /\ Enacted(full)
    /\ \A k \in DOMAIN new.refs : Keeps(s, phase, new.refs[k])
    /\ DOMAIN new.state \cap DOMAIN new.refs = {}
    /\ Assembled(row, new) = full
    /\ new.lineage # 0 => Keeps(s, phase, new.lineage) /\ row[new.lineage].lineage = 0
    /\ new.lineage = 0 => Item \notin DOMAIN full
    /\ \A a \in Rows :
          new.lineage # 0 /\ row[a].lineage = new.lineage /\ row[a].ordinal = new.ordinal =>
              row[a].depth < new.depth /\ Keeps(s, phase, a)
    /\ new.depth <= Len(row) + 1

\* A transition that inserts rows that fit preserves the invariant.
LEMMA InsertKeeps ==
  ASSUME RefsInv, NEW s \in Rows, row[s].phase = "completed", NEW phase \in {"moved", "arrived"},
         NEW new \in Seq(StepRow), NEW full \in Seq(Snapshots), Len(new) = Len(full),
         \A i \in 1 .. Len(new) : Fits(s, phase, new[i], full[i]),
         \A i, j \in 1 .. Len(new) : i # j => new[i].ordinal # new[j].ordinal,
         Insert(s, phase, new, full)
  PROVE  RefsInv'
  <1> DEFINE rows == [row EXCEPT ![s].phase = phase]
             L == Len(row)
  <1>1. /\ row \in Seq(StepRow) /\ truth \in Seq(Snapshots) /\ Len(truth) = L
        /\ L \in Nat /\ Len(new) \in Nat /\ Rows = 1 .. L
    BY DEF RefsInv, RefsTyped, Rows
  <1>3. /\ rows = [row EXCEPT ![s].phase = phase]
        /\ row' = rows \o new /\ truth' = truth \o full /\ UNCHANGED <<cache, rewinds, mentions>>
    BY DEF Insert
  <1> HIDE DEF rows
  <1>2. /\ rows \in Seq(StepRow) /\ Len(rows) = L
        /\ \A r \in Rows : /\ SameContent(rows[r], row[r])
                           /\ rows[r].phase = IF r = s THEN phase ELSE row[r].phase
    <2>1. PhaseSet(s, phase, rows)
      BY <1>3 DEF PhaseSet
    <2> QED
      BY <1>1, <2>1, PhaseSetForm
  <1>4. /\ row' \in Seq(StepRow) /\ Len(row') = L + Len(new)
        /\ \A i \in 1 .. L : row'[i] = rows[i]
        /\ \A j \in L + 1 .. L + Len(new) : row'[j] = new[j - L]
    <2>1. Appended(StepRow, rows, new, row')
      BY <1>2, <1>3 DEF Appended
    <2>2. row' \in Seq(StepRow)
      BY <2>1, AppendedForm
    <2>3. Len(row') = Len(rows) + Len(new)
      BY <2>1, AppendedForm
    <2>4. \A i \in 1 .. Len(rows) : row'[i] = rows[i]
      BY <2>1, AppendedForm
    <2>5. \A j \in Len(rows) + 1 .. Len(rows) + Len(new) : row'[j] = new[j - Len(rows)]
      BY <2>1, AppendedForm
    <2> QED
      BY <1>2, <2>2, <2>3, <2>4, <2>5
  <1>5. /\ truth' \in Seq(Snapshots) /\ Len(truth') = L + Len(new)
        /\ \A i \in 1 .. L : truth'[i] = truth[i]
        /\ \A j \in L + 1 .. L + Len(new) : truth'[j] = full[j - L]
    <2>1. Appended(Snapshots, truth, full, truth')
      BY <1>1, <1>3 DEF Appended
    <2>2. truth' \in Seq(Snapshots)
      BY <2>1, AppendedForm
    <2>3. Len(truth') = Len(truth) + Len(full)
      BY <2>1, AppendedForm
    <2>4. \A i \in 1 .. Len(truth) : truth'[i] = truth[i]
      BY <2>1, AppendedForm
    <2>5. \A j \in Len(truth) + 1 .. Len(truth) + Len(full) : truth'[j] = full[j - Len(truth)]
      BY <2>1, AppendedForm
    <2> QED
      BY <1>1, <2>2, <2>3, <2>4, <2>5
  <1>6. Rows' = 1 .. L + Len(new) /\ DOMAIN row' = Rows' /\ DOMAIN row = Rows
    BY <1>4 DEF Rows
  <1>old. ASSUME NEW r \in Rows
          PROVE  /\ r \in Rows' /\ r \in 1 .. L
                 /\ SameContent(row'[r], row[r]) /\ truth'[r] = truth[r]
                 /\ row'[r].phase = IF r = s THEN phase ELSE row[r].phase
    BY <1>1, <1>2, <1>4, <1>5, <1>6
  <1>new. ASSUME NEW r \in Rows', r \notin Rows
          PROVE  /\ r - L \in 1 .. Len(new) /\ r > L
                 /\ row'[r] = new[r - L] /\ truth'[r] = full[r - L]
                 /\ Fits(s, phase, row'[r], truth'[r])
    <2>1. r \in Nat /\ r > L /\ r <= L + Len(new)
      BY <1>1, <1>6, <1>new
    <2>2. r \in L + 1 .. L + Len(new) /\ r - L \in 1 .. Len(new)
      BY <1>1, <2>1
    <2>3. row'[r] = new[r - L] /\ truth'[r] = full[r - L]
      BY <1>4, <1>5, <2>2
    <2> QED
      BY <2>1, <2>2, <2>3
  <1>moved. ASSUME NEW a, Keeps(s, phase, a) PROVE Moved(row', a) /\ a \in Rows
    BY <1>moved, <1>old, <1>6 DEF Keeps, Moved
  <1>stored. ASSUME NEW a \in Rows, NEW k PROVE Stored(row', a, k) = Stored(row, a, k)
    BY <1>old DEF Stored, SameContent
  <1>assembled. ASSUME NEW t, \A k \in DOMAIN t.refs : t.refs[k] \in Rows
                PROVE  Assembled(row', t) = Assembled(row, t)
    BY <1>assembled, <1>stored DEF Assembled
  <1>a. RefsTyped'
    <2>1. \A r \in Rows' : Item \notin DOMAIN row'[r].changes /\ Enacted(truth'[r])
      BY <1>old, <1>new DEF Fits, RefsInv, RefsTyped, SameContent
    <2>2. rewinds' \in Int
      BY <1>3 DEF RefsInv, RefsTyped
    <2> QED
      BY <1>1, <1>4, <1>5, <2>1, <2>2 DEF RefsTyped
  <1>b. AnchorsMoved'
    <2> SUFFICES ASSUME NEW r \in Rows', NEW k \in DOMAIN row'[r].refs PROVE Moved(row', row'[r].refs[k])
      BY DEF AnchorsMoved
    <2>1. CASE r \in Rows
      BY <2>1, <1>old, <1>moved DEF RefsInv, AnchorsMoved, SameContent, Keeps
    <2>2. CASE r \notin Rows
      BY <2>2, <1>new, <1>moved DEF Fits
    <2> QED
      BY <2>1, <2>2
  <1>c. HeldOrReferenced'
    BY <1>old, <1>new DEF RefsInv, HeldOrReferenced, SameContent, Fits
  <1>d. CacheStored'
    <2> SUFFICES ASSUME NEW p \in DOMAIN cache
                 PROVE  Moved(row', p[1]) /\ cache[p] = Stored(row', p[1], p[2])
      BY <1>3 DEF CacheStored
    <2>1. Moved(row, p[1]) /\ cache[p] = Stored(row, p[1], p[2])
      BY DEF RefsInv, CacheStored
    <2> QED
      BY <2>1, <1>moved, <1>stored DEF Keeps
  <1>e. RowsAssemble'
    <2> SUFFICES ASSUME NEW r \in Rows' PROVE Assembled(row', row'[r]) = truth'[r]
      BY DEF RowsAssemble
    <2>1. CASE r \in Rows
      <3>1. Assembled(row, row[r]) = truth[r]
        BY <2>1 DEF RefsInv, RowsAssemble
      <3>2. Assembled(row, row'[r]) = Assembled(row, row[r])
        BY <2>1, <1>old DEF Assembled, SameContent
      <3>3. \A k \in DOMAIN row'[r].refs : row'[r].refs[k] \in Rows
        BY <2>1, <1>old, <1>6 DEF RefsInv, AnchorsMoved, SameContent, Moved
      <3> QED
        BY <2>1, <3>1, <3>2, <3>3, <1>assembled, <1>old
    <2>2. CASE r \notin Rows
      <3>1. Assembled(row, row'[r]) = truth'[r] /\ \A k \in DOMAIN row'[r].refs : row'[r].refs[k] \in Rows
        BY <2>2, <1>new, <1>moved DEF Fits
      <3> QED
        BY <3>1, <1>assembled
    <2> QED
      BY <2>1, <2>2
  <1>f. CohortsSpawned'
    <2> SUFFICES ASSUME NEW r \in Rows', row'[r].lineage # 0
                 PROVE  Moved(row', row'[r].lineage) /\ row'[row'[r].lineage].lineage = 0
      BY DEF CohortsSpawned
    <2>1. Keeps(s, phase, row'[r].lineage) /\ row[row'[r].lineage].lineage = 0
      <3>1. CASE r \in Rows
        BY <3>1, <1>old DEF RefsInv, CohortsSpawned, SameContent, Keeps
      <3>2. CASE r \notin Rows
        BY <3>2, <1>new DEF Fits
      <3> QED
        BY <3>1, <3>2
    <2> QED
      BY <2>1, <1>moved, <1>old DEF SameContent
  <1>g. ElementInBranches'
    BY <1>old, <1>new DEF RefsInv, ElementInBranches, SameContent, Fits
  <1>h. BranchOrder'
    <2> SUFFICES ASSUME NEW a \in Rows', NEW b \in Rows', a < b, row'[a].lineage # 0,
                        row'[a].lineage = row'[b].lineage, row'[a].ordinal = row'[b].ordinal
                 PROVE  row'[a].depth < row'[b].depth /\ Moved(row', a)
      BY DEF BranchOrder
    <2>1. CASE b \in Rows
      <3>1. a \in Rows
        BY <2>1, <1>1, <1>6
      <3>2. row[a].depth < row[b].depth /\ Moved(row, a)
        BY <2>1, <3>1, <1>old DEF RefsInv, BranchOrder, SameContent
      <3> QED
        BY <2>1, <3>1, <3>2, <1>old, <1>moved DEF SameContent, Keeps
    <2>2. CASE b \notin Rows /\ a \in Rows
      <3>1. row[a].depth < row'[b].depth /\ Keeps(s, phase, a)
        BY <2>2, <1>old, <1>new DEF Fits, SameContent
      <3> QED
        BY <2>2, <3>1, <1>old, <1>moved DEF SameContent
    <2>3. CASE b \notin Rows /\ a \notin Rows
      <3>1. a - L # b - L
        BY <1>1, <1>6
      <3> QED
        BY <2>3, <3>1, <1>new
    <2> QED
      BY <2>1, <2>2, <2>3
  <1>i. DepthBounded'
    <2> SUFFICES ASSUME NEW r \in Rows' PROVE row'[r].depth <= r
      BY DEF DepthBounded
    <2>1. CASE r \in Rows
      BY <2>1, <1>old DEF RefsInv, DepthBounded, SameContent
    <2>2. CASE r \notin Rows
      <3>1. row'[r].depth <= L + 1 /\ r > L /\ r \in Int /\ row'[r] \in StepRow
        BY <2>2, <1>new, <1>1, <1>6 DEF Fits
      <3>2. row'[r].depth \in Nat
        BY <3>1 DEF StepRow
      <3> QED
        BY <3>1, <3>2, <1>1
    <2> QED
      BY <2>1, <2>2
  <1> QED
    BY <1>a, <1>b, <1>c, <1>d, <1>e, <1>f, <1>g, <1>h, <1>i DEF RefsInv

\* What a step reads of its rows under the invariant.
LEMMA RowForm ==
  ASSUME RefsInv, NEW s \in Rows
  PROVE  /\ Rows = 1 .. Len(row) /\ Len(row) \in Nat
         /\ row[s] \in StepRow /\ truth[s] \in Snapshots
         /\ row[s].state \in Snapshots /\ row[s].refs \in References /\ row[s].changes \in Snapshots
         /\ row[s].lineage \in Nat /\ row[s].ordinal \in Nat /\ row[s].depth \in Nat
         /\ Item \notin DOMAIN row[s].changes /\ Enacted(truth[s])
  <1>1. Rows = 1 .. Len(row) /\ Len(row) \in Nat /\ row[s] \in StepRow /\ truth[s] \in Snapshots
    BY DEF RefsInv, RefsTyped, Rows
  <1>2. Item \notin DOMAIN row[s].changes /\ Enacted(truth[s])
    BY DEF RefsInv, RefsTyped
  <1> QED
    BY <1>1, <1>2 DEF StepRow

\* The fields of the whole state, and where each is.
LEMMA TruthForm ==
  ASSUME RefsInv, NEW s \in Rows
  PROVE  /\ DOMAIN truth[s] = DOMAIN row[s].state \cup DOMAIN row[s].refs
         /\ \A k \in DOMAIN row[s].refs : truth[s][k] = Stored(row, row[s].refs[k], k)
         /\ \A k \in DOMAIN row[s].state : truth[s][k] = row[s].state[k]
         /\ DOMAIN row[s].state \cap DOMAIN row[s].refs = {}
         /\ \A k \in DOMAIN truth[s] : truth[s][k] # Deleted
  <1>1. Merge(row[s].state, [k \in DOMAIN row[s].refs |-> Stored(row, row[s].refs[k], k)]) = truth[s]
    BY DEF RefsInv, RowsAssemble, Assembled
  <1>2. DOMAIN row[s].state \cap DOMAIN row[s].refs = {}
    BY DEF RefsInv, HeldOrReferenced
  <1>3. \A k \in DOMAIN truth[s] : truth[s][k] # Deleted
    BY RowForm DEF Enacted
  <1> QED
    BY <1>1, <1>2, <1>3 DEF Merge

LEMMA FetchReads ==
  ASSUME RefsInv, NEW a, NEW k
  PROVE  Fetch(k, a) = Stored(row, a, k)
  <1>1. CASE <<a, k>> \in DOMAIN cache
    <2> DEFINE p == <<a, k>>
    <2>1. p[1] = a /\ p[2] = k
      OBVIOUS
    <2>2. cache[p] = Stored(row, p[1], p[2])
      BY <1>1 DEF RefsInv, CacheStored
    <2> QED
      BY <1>1, <2>1, <2>2 DEF Fetch
  <1>2. CASE <<a, k>> \notin DOMAIN cache
    BY <1>2 DEF Fetch, Stored
  <1> QED
    BY <1>1, <1>2

\* Resolving every reference of a row yields its whole state.
LEMMA ResolveAllReads ==
  ASSUME RefsInv, NEW s \in Rows
  PROVE  ResolveAll(s) = truth[s]
  <1>1. ResolveAll(s) = Merge(row[s].state, [k \in DOMAIN row[s].refs |-> Fetch(k, row[s].refs[k])])
    BY DEF ResolveAll, Resolve
  <1>2. [k \in DOMAIN row[s].refs |-> Fetch(k, row[s].refs[k])]
          = [k \in DOMAIN row[s].refs |-> Stored(row, row[s].refs[k], k)]
    BY FetchReads
  <1>3. Assembled(row, row[s]) = truth[s]
    BY DEF RefsInv, RowsAssemble
  <1> QED
    BY <1>1, <1>2, <1>3 DEF Assembled

\* The references that the fan-in leaves alone.
Left(s) == DOMAIN row[s].refs \ Reduced

\* Resolving the reduced ones yields the whole state but for the others.
LEMMA ResolveReducedReads ==
  ASSUME RefsInv, NEW s \in Rows
  PROVE  /\ DOMAIN ResolveReduced(s) = DOMAIN truth[s] \ Left(s)
         /\ \A k \in DOMAIN ResolveReduced(s) : ResolveReduced(s)[k] = truth[s][k]
         /\ Left(s) \subseteq DOMAIN truth[s]
         /\ ResolveReduced(s) \in Snapshots
  <1> DEFINE read == [k \in DOMAIN row[s].refs \cap Reduced |-> Fetch(k, row[s].refs[k])]
             base == ResolveReduced(s)
  <1>1. base = Merge(row[s].state, read)
    BY DEF ResolveReduced, Resolve
  <1>2. /\ DOMAIN base = DOMAIN row[s].state \cup (DOMAIN row[s].refs \cap Reduced)
        /\ \A k \in DOMAIN row[s].refs \cap Reduced : base[k] = Fetch(k, row[s].refs[k])
        /\ \A k \in DOMAIN row[s].state \ (DOMAIN row[s].refs \cap Reduced) : base[k] = row[s].state[k]
        /\ base = [k \in DOMAIN base |-> base[k]]
    BY <1>1 DEF Merge
  <1> HIDE DEF base
  <1>3. DOMAIN base = DOMAIN truth[s] \ Left(s) /\ Left(s) \subseteq DOMAIN truth[s]
    BY <1>2, TruthForm DEF Left
  <1>4. \A k \in DOMAIN base : base[k] = truth[s][k]
    BY <1>2, TruthForm, FetchReads
  <1>5. base \in Snapshots
    <2>1. truth[s] \in Snapshots
      BY RowForm
    <2>2. truth[s] \in [DOMAIN truth[s] -> Values] /\ DOMAIN truth[s] \subseteq Fields
      BY <2>1, SnapshotForm
    <2>3. base \in [DOMAIN base -> Values] /\ DOMAIN base \subseteq Fields
      BY <1>2, <1>3, <1>4, <2>2
    <2> QED
      BY <2>3, SnapshotForm
  <1> QED
    BY <1>3, <1>4, <1>5 DEF base

-----------------------------------------------------------------------------
(* The first row, and the steps that insert none *)

LEMMA RefsInitInv ==
  ASSUME Item \notin Initial, RefsInit
  PROVE  RefsInv
  <1> DEFINE start == [k \in Initial |-> <<<<0, 0>>>>]
             first == NewRow([state |-> start, refs |-> None], 0, 0, 1)
  <1>1. truth = <<start>> /\ row = <<first>> /\ cache = None /\ rewinds = MaxRewinds
    BY DEF RefsInit
  <1>2. start \in Snapshots /\ Enacted(start) /\ DOMAIN start = Initial
    <2>1. <<<<0, 0>>>> \in Values /\ <<<<0, 0>>>> # Deleted
      BY ValuesClosed
    <2>2. Initial \subseteq Fields
      BY FieldsAssumption DEF Fields
    <2> HIDE DEF Values, Deleted
    <2>3. start \in [DOMAIN start -> Values] /\ DOMAIN start = Initial
      BY <2>1
    <2>4. Enacted(start)
      BY <2>1 DEF Enacted
    <2> HIDE DEF start
    <2> QED
      BY <2>2, <2>3, <2>4, SnapshotForm
  <1>3. DOMAIN None = {} /\ None \in Snapshots /\ None \in References
    <2>1. DOMAIN None = {} /\ None \in [{} -> Values] /\ None \in [{} -> Nat]
      BY DEF None
    <2> QED
      BY <2>1, SnapshotForm, ReferencesForm
  <1>4. /\ first.state = start /\ first.refs = None /\ first.changes = None /\ first.phase = "pending"
        /\ first.lineage = 0 /\ first.ordinal = 0 /\ first.depth = 1
    BY DEF NewRow
  <1>5. first \in StepRow
    <2> HIDE DEF start
    <2> QED
      BY <1>2, <1>3 DEF NewRow, StepRow
  <1> HIDE DEF start, first
  <1>6. /\ Rows = {1} /\ row[1] = first /\ truth[1] = start
        /\ row \in Seq(StepRow) /\ truth \in Seq(Snapshots) /\ Len(truth) = Len(row)
    BY <1>1, <1>2, <1>5 DEF Rows
  <1>7. RefsTyped
    BY <1>1, <1>2, <1>3, <1>4, <1>6, RefsBoundsAssumption DEF RefsTyped
  <1>8. Assembled(row, first) = start
    <2>1. Assembled(row, first) = [k \in DOMAIN start |-> start[k]]
      BY <1>3, <1>4 DEF Assembled, Merge
    <2>2. start = [k \in DOMAIN start |-> start[k]]
      BY DEF start
    <2> QED
      BY <2>1, <2>2
  <1>9. /\ AnchorsMoved /\ HeldOrReferenced /\ CacheStored /\ RowsAssemble
        /\ CohortsSpawned /\ ElementInBranches /\ BranchOrder /\ DepthBounded
    BY <1>1, <1>2, <1>3, <1>4, <1>6, <1>8
       DEF AnchorsMoved, HeldOrReferenced, CacheStored, RowsAssemble, CohortsSpawned,
           ElementInBranches, BranchOrder, DepthBounded
  <1> QED
    BY <1>7, <1>9 DEF RefsInv

\* A step that is still under way may change its delta and its phase.
LEMMA UnderWayKeeps ==
  ASSUME RefsInv, NEW s \in Rows, row[s].phase \in {"pending", "completed"},
         row' \in Seq(StepRow), Len(row') = Len(row), truth' = truth, rewinds' \in Int,
         \A r \in Rows \ {s} : row'[r] = row[r],
         row'[s].phase \in {"pending", "completed"},
         /\ row'[s].state = row[s].state /\ row'[s].refs = row[s].refs
         /\ row'[s].lineage = row[s].lineage /\ row'[s].ordinal = row[s].ordinal
         /\ row'[s].depth = row[s].depth /\ Item \notin DOMAIN row'[s].changes,
         \A p \in DOMAIN cache' : Moved(row, p[1]) /\ cache'[p] = Stored(row, p[1], p[2])
  PROVE  RefsInv'
  <1>1. /\ row \in Seq(StepRow) /\ Rows = 1 .. Len(row) /\ Rows' = Rows /\ DOMAIN row' = Rows
        /\ DOMAIN row = Rows
    BY DEF RefsInv, RefsTyped, Rows
  <1>2. ASSUME NEW a PROVE Moved(row, a) <=> Moved(row', a)
    BY <1>1 DEF Moved
  <1>3. ASSUME NEW a, Moved(row, a) PROVE a # s /\ row'[a] = row[a]
    BY <1>1, <1>3 DEF Moved
  <1>4. ASSUME NEW a, Moved(row, a), NEW k PROVE Stored(row', a, k) = Stored(row, a, k)
    BY <1>3, <1>4 DEF Stored
  <1>5. ASSUME NEW r \in Rows
        PROVE  /\ row'[r].state = row[r].state /\ row'[r].refs = row[r].refs
               /\ row'[r].lineage = row[r].lineage /\ row'[r].ordinal = row[r].ordinal
               /\ row'[r].depth = row[r].depth
    BY <1>5
  <1>a. RefsTyped'
    BY <1>1 DEF RefsInv, RefsTyped
  <1>b. AnchorsMoved'
    BY <1>1, <1>2, <1>5 DEF RefsInv, AnchorsMoved
  <1>c. HeldOrReferenced'
    BY <1>1, <1>5 DEF RefsInv, HeldOrReferenced
  <1>d. CacheStored'
    <2> SUFFICES ASSUME NEW p \in DOMAIN cache'
                 PROVE  Moved(row', p[1]) /\ cache'[p] = Stored(row', p[1], p[2])
      BY DEF CacheStored
    <2> QED
      BY <1>2, <1>4
  <1>e. RowsAssemble'
    <2> SUFFICES ASSUME NEW r \in Rows PROVE Assembled(row', row'[r]) = truth[r]
      BY <1>1 DEF RowsAssemble
    <2>1. Assembled(row, row[r]) = truth[r] /\ \A k \in DOMAIN row[r].refs : Moved(row, row[r].refs[k])
      BY DEF RefsInv, RowsAssemble, AnchorsMoved
    <2>2. [k \in DOMAIN row'[r].refs |-> Stored(row', row'[r].refs[k], k)]
            = [k \in DOMAIN row[r].refs |-> Stored(row, row[r].refs[k], k)]
      BY <2>1, <1>4, <1>5
    <2> QED
      BY <2>1, <2>2, <1>5 DEF Assembled
  <1>f. CohortsSpawned'
    <2> SUFFICES ASSUME NEW r \in Rows, row'[r].lineage # 0
                 PROVE  Moved(row', row'[r].lineage) /\ row'[row'[r].lineage].lineage = 0
      BY <1>1 DEF CohortsSpawned
    <2>1. Moved(row, row[r].lineage) /\ row[row[r].lineage].lineage = 0
      BY <1>5 DEF RefsInv, CohortsSpawned
    <2> QED
      BY <2>1, <1>2, <1>3, <1>5
  <1>g. ElementInBranches'
    BY <1>1, <1>5 DEF RefsInv, ElementInBranches
  <1>h. BranchOrder'
    <2> SUFFICES ASSUME NEW a \in Rows, NEW b \in Rows, a < b, row'[a].lineage # 0,
                        row'[a].lineage = row'[b].lineage, row'[a].ordinal = row'[b].ordinal
                 PROVE  row'[a].depth < row'[b].depth /\ Moved(row', a)
      BY <1>1 DEF BranchOrder
    <2>1. row[a].depth < row[b].depth /\ Moved(row, a)
      BY <1>5 DEF RefsInv, BranchOrder
    <2> QED
      BY <2>1, <1>2, <1>5
  <1>i. DepthBounded'
    BY <1>1, <1>5 DEF RefsInv, DepthBounded
  <1> QED
    BY <1>a, <1>b, <1>c, <1>d, <1>e, <1>f, <1>g, <1>h, <1>i DEF RefsInv

LEMMA ExecuteKeeps ==
  ASSUME RefsInv, NEW s \in Rows, Execute(s)
  PROVE  RefsInv'
  <1>1. PICK written \in SUBSET (Plain \cup Reduced), cleared \in SUBSET (Plain \cup Reduced) :
          row' = [row EXCEPT ![s].phase = "completed",
                             ![s].changes = Merge(@, [k \in written \cup cleared |->
                                               IF k \in written THEN <<Attempt(s)>> ELSE Deleted])]
    BY DEF Execute
  <1> DEFINE delta == [k \in written \cup cleared |-> IF k \in written THEN <<Attempt(s)>> ELSE Deleted]
             changes == Merge(row[s].changes, delta)
  <1>2. row[s].phase = "pending" /\ truth' = truth /\ rewinds' = rewinds
        /\ cache' = Cached(s, DOMAIN row[s].refs)
    BY DEF Execute
  <1>3. delta \in Snapshots /\ Item \notin DOMAIN delta
    <2>1. <<Attempt(s)>> \in Values /\ Deleted \in Values
      <3>1. s \in Nat /\ MaxRewinds - rewinds \in Int
        BY RowForm, RefsBoundsAssumption DEF RefsInv, RefsTyped
      <3> QED
        BY <3>1, ValuesClosed DEF Attempt
    <2>2. DOMAIN delta \subseteq Plain \cup Reduced /\ delta \in [DOMAIN delta -> Values]
      BY <2>1
    <2>3. DOMAIN delta \subseteq Fields /\ Item \notin DOMAIN delta
      BY <2>2, FieldsAssumption DEF Fields
    <2> HIDE DEF delta
    <2> QED
      BY <2>2, <2>3, SnapshotForm
  <1> HIDE DEF delta
  <1>4. changes \in Snapshots /\ Item \notin DOMAIN changes
    <2>1. row[s].changes \in Snapshots /\ Item \notin DOMAIN row[s].changes
      BY RowForm
    <2>2. DOMAIN changes = DOMAIN row[s].changes \cup DOMAIN delta
      BY MergeForm
    <2>3. changes \in Snapshots
      BY <2>1, <1>3, MergeForm
    <2> QED
      BY <2>1, <2>2, <2>3, <1>3
  <1>5. /\ row \in Seq(StepRow) /\ Rows = 1 .. Len(row) /\ Len(row) \in Nat /\ row[s] \in StepRow
    BY RowForm DEF RefsInv, RefsTyped
  <1>6. /\ row' = [row EXCEPT ![s] = [row[s] EXCEPT !.phase = "completed", !.changes = changes]]
    BY <1>1, <1>5 DEF delta, StepRow
  <1> HIDE DEF changes
  <1> DEFINE new == [row[s] EXCEPT !.phase = "completed", !.changes = changes]
  <1>7. /\ new \in StepRow /\ new.phase = "completed" /\ new.changes = changes
        /\ new.state = row[s].state /\ new.refs = row[s].refs
        /\ new.lineage = row[s].lineage /\ new.ordinal = row[s].ordinal /\ new.depth = row[s].depth
    BY <1>4, <1>5 DEF StepRow
  <1>r. row' = [row EXCEPT ![s] = new]
    BY <1>6
  <1> HIDE DEF new
  <1>8. row'[s] = new /\ row' \in Seq(StepRow) /\ Len(row') = Len(row) /\ \A r \in Rows \ {s} : row'[r] = row[r]
    BY <1>5, <1>7, <1>r
  <1>9. ASSUME NEW p \in DOMAIN cache'
        PROVE  Moved(row, p[1]) /\ cache'[p] = Stored(row, p[1], p[2])
    <2> DEFINE read == {<<row[s].refs[k], k>> : k \in DOMAIN row[s].refs}
               fetched == [q \in read |-> Fetch(q[2], q[1])]
    <2>1. cache' = Merge(cache, fetched)
      BY <1>2 DEF Cached
    <2>2. CASE p \in read
      <3>1. cache'[p] = Fetch(p[2], p[1])
        BY <2>1, <2>2 DEF Merge
      <3>2. PICK k \in DOMAIN row[s].refs : p = <<row[s].refs[k], k>>
        BY <2>2
      <3>3. Moved(row, row[s].refs[k])
        BY DEF RefsInv, AnchorsMoved
      <3> QED
        BY <3>1, <3>2, <3>3, FetchReads
    <2>3. CASE p \notin read
      <3>1. p \in DOMAIN cache /\ cache'[p] = cache[p]
        BY <2>1, <2>3, <1>9 DEF Merge
      <3> QED
        BY <3>1 DEF RefsInv, CacheStored
    <2> QED
      BY <2>2, <2>3
  <1>10. rewinds' \in Int
    BY <1>2 DEF RefsInv, RefsTyped
  <1> QED
    BY <1>2, <1>4, <1>7, <1>8, <1>9, <1>10, UnderWayKeeps

LEMMA RewindKeeps ==
  ASSUME RefsInv, NEW s \in Rows, Rewind(s)
  PROVE  RefsInv'
  <1>1. /\ row[s].phase = "completed" /\ truth' = truth /\ cache' = cache
        /\ rewinds' = rewinds - 1 /\ row' = [row EXCEPT ![s].phase = "pending"]
    BY DEF Rewind
  <1>2. row \in Seq(StepRow) /\ rewinds' \in Int /\ Rows = 1 .. Len(row) /\ Len(row) \in Nat
    BY <1>1, RowForm DEF RefsInv, RefsTyped
  <1>3. PhaseSet(s, "pending", row')
    BY <1>1 DEF PhaseSet
  <1>4. /\ row' \in Seq(StepRow) /\ Len(row') = Len(row)
        /\ SameContent(row'[s], row[s]) /\ row'[s].phase = "pending"
    BY <1>2, <1>3, PhaseSetForm
  <1>5. \A r \in Rows \ {s} : row'[r] = row[r]
    BY <1>1, <1>2
  <1>6. \A p \in DOMAIN cache' : Moved(row, p[1]) /\ cache'[p] = Stored(row, p[1], p[2])
    BY <1>1 DEF RefsInv, CacheStored
  <1>7. Item \notin DOMAIN row[s].changes
    BY RowForm
  <1> QED
    BY <1>1, <1>2, <1>4, <1>5, <1>6, <1>7, UnderWayKeeps DEF SameContent

-----------------------------------------------------------------------------
(* Minting references *)

\* The cap drops references, and none of a field that was not materialized.
LEMMA WithinCapForm ==
  ASSUME NEW refs \in References, NEW merged, NEW kept \in WithinCap(refs, merged)
  PROVE  /\ kept \in References /\ DOMAIN kept \subseteq DOMAIN refs
         /\ \A k \in DOMAIN kept : kept[k] = refs[k]
         /\ DOMAIN refs \ DOMAIN merged \subseteq DOMAIN kept
  <1>1. CASE kept = refs
    BY <1>1
  <1>2. CASE \E D \in SUBSET DOMAIN refs :
               DOMAIN refs \ DOMAIN merged \subseteq D /\ kept = Restrict(refs, D)
    BY <1>2, RestrictForm
  <1>3. ASSUME kept # refs
        PROVE  \E D \in SUBSET DOMAIN refs :
                  DOMAIN refs \ DOMAIN merged \subseteq D /\ kept = Restrict(refs, D)
    <2> DEFINE anchors == Range(refs)
               pinned == {refs[k] : k \in DOMAIN refs \ DOMAIN merged}
               room == IF Cardinality(pinned) < MaxAnchors THEN MaxAnchors - Cardinality(pinned) ELSE 0
               D(chosen) == {k \in DOMAIN refs : refs[k] \in pinned \cup chosen}
    <2>1. kept \in {Restrict(refs, D(chosen)) :
                      chosen \in {d \in SUBSET (anchors \ pinned) :
                          Cardinality(d) = room \/ (Cardinality(d) < room /\ d = anchors \ pinned)}}
      BY <1>3 DEF WithinCap
    <2>2. PICK chosen : kept = Restrict(refs, D(chosen))
      BY <2>1
    <2>3. DOMAIN refs \ DOMAIN merged \subseteq D(chosen) /\ D(chosen) \in SUBSET DOMAIN refs
      OBVIOUS
    <2> QED
      BY <2>2, <2>3
  <1> QED
    BY <1>1, <1>2, <1>3

\* The state full is what the rows hold of a successor minted from merged: the
\* inherited references and the anchor have what merged has, or does not.
Mintable(merged, changes, inherited, anchor, inlineOnly, full) ==
    LET carried == CarriedRefs(merged, changes, inherited, inlineOnly)
    IN  /\ DOMAIN full = DOMAIN merged \cup carried
        /\ \A k \in DOMAIN merged : full[k] = merged[k]
        /\ \A k \in carried : full[k] = Stored(row, inherited[k], k)
        /\ \A k \in DOMAIN merged \ (carried \cup inlineOnly) : full[k] = Stored(row, anchor, k)

\* mint is a row that assembles to full, its references inherited or to the anchor.
MintedFrom(mint, inherited, anchor, full) ==
    /\ mint.state \in Snapshots /\ mint.refs \in References
    /\ DOMAIN mint.state \cap DOMAIN mint.refs = {}
    /\ \A k \in DOMAIN mint.refs :
          mint.refs[k] = anchor \/ (k \in DOMAIN inherited /\ mint.refs[k] = inherited[k])
    /\ Assembled(row, mint) = full

\* However many references are minted, carried or dropped, the row that Mint
\* writes assembles to that state.
LEMMA MintAssembles ==
  ASSUME NEW merged \in Snapshots, NEW changes, NEW inherited \in References, NEW anchor \in Nat,
         NEW inlineOnly, NEW full \in Snapshots,
         Mintable(merged, changes, inherited, anchor, inlineOnly, full),
         NEW mint \in Mint(merged, changes, inherited, anchor, inlineOnly)
  PROVE  /\ MintedFrom(mint, inherited, anchor, full) /\ DOMAIN mint.refs \cap inlineOnly = {}
         /\ mint = [state |-> mint.state, refs |-> mint.refs]
  <1> DEFINE carried == CarriedRefs(merged, changes, inherited, inlineOnly)
             candidates == DOMAIN merged \ (carried \cup inlineOnly)
             minted(anchored) == Merge(Restrict(inherited, carried), [k \in anchored |-> anchor])
  <1>0. PICK anchored \in SUBSET candidates : \E refs \in WithinCap(minted(anchored), merged) :
          mint = [state |-> Restrict(merged, DOMAIN merged \ DOMAIN refs), refs |-> refs]
    BY DEF Mint
  <1>1. PICK refs \in WithinCap(minted(anchored), merged) :
          mint = [state |-> Restrict(merged, DOMAIN merged \ DOMAIN refs), refs |-> refs]
    BY <1>0
  <1>2. /\ mint.state = Restrict(merged, DOMAIN merged \ DOMAIN refs) /\ mint.refs = refs
        /\ mint = [state |-> mint.state, refs |-> mint.refs]
    BY <1>1
  <1>3. carried \subseteq DOMAIN inherited /\ carried \cap inlineOnly = {}
    BY DEF CarriedRefs
  <1> HIDE DEF carried
  <1>4. /\ DOMAIN minted(anchored) = carried \cup anchored
        /\ \A k \in anchored : minted(anchored)[k] = anchor
        /\ \A k \in carried : minted(anchored)[k] = inherited[k]
        /\ minted(anchored) \in References
    <2>1. /\ DOMAIN Restrict(inherited, carried) = carried
          /\ \A k \in carried : Restrict(inherited, carried)[k] = inherited[k]
          /\ Restrict(inherited, carried) \in References
      BY <1>3, RestrictForm
    <2>2. DOMAIN merged \subseteq Fields
      BY SnapshotForm
    <2>3. [k \in anchored |-> anchor] \in References
      <3> DEFINE here == [k \in anchored |-> anchor]
      <3>1. here \in [DOMAIN here -> Nat] /\ DOMAIN here \subseteq Fields
        BY <2>2
      <3> HIDE DEF here
      <3>2. here \in References
        BY <3>1, ReferencesForm
      <3> QED
        BY <3>2 DEF here
    <2>4. minted(anchored) \in References
      BY <2>1, <2>3, MergeForm
    <2>5. anchored \cap carried = {}
      BY <1>1
    <2> QED
      BY <2>1, <2>4, <2>5 DEF Merge
  <1> HIDE DEF minted
  <1>5. /\ refs \in References /\ DOMAIN refs \subseteq carried \cup anchored
        /\ \A k \in DOMAIN refs : refs[k] = minted(anchored)[k]
        /\ (carried \cup anchored) \ DOMAIN merged \subseteq DOMAIN refs
    BY <1>1, <1>4, WithinCapForm
  <1>6. /\ DOMAIN mint.state = DOMAIN merged \ DOMAIN refs
        /\ \A k \in DOMAIN mint.state : mint.state[k] = merged[k]
        /\ mint.state \in Snapshots
    <2>1. DOMAIN merged \ DOMAIN refs \subseteq DOMAIN merged
      OBVIOUS
    <2> QED
      BY <1>2, <2>1, RestrictForm
  <1>7. /\ DOMAIN full = DOMAIN merged \cup carried
        /\ \A k \in DOMAIN merged : full[k] = merged[k]
        /\ \A k \in carried : full[k] = Stored(row, inherited[k], k)
        /\ \A k \in candidates : full[k] = Stored(row, anchor, k)
    BY DEF Mintable, carried
  <1>8. ASSUME NEW k \in DOMAIN refs
        PROVE  /\ full[k] = Stored(row, refs[k], k) /\ k \notin inlineOnly /\ k \in DOMAIN full
               /\ refs[k] = anchor \/ (k \in DOMAIN inherited /\ refs[k] = inherited[k])
    BY <1>1, <1>3, <1>4, <1>5, <1>7
  <1>9. Assembled(row, mint) = full
    <2> DEFINE whole == Assembled(row, mint)
    <2>1. whole = Merge(mint.state, [k \in DOMAIN refs |-> Stored(row, refs[k], k)])
      BY <1>2 DEF Assembled
    <2>2. /\ whole = [k \in DOMAIN whole |-> whole[k]]
          /\ DOMAIN whole = DOMAIN mint.state \cup DOMAIN refs
          /\ \A k \in DOMAIN refs : whole[k] = Stored(row, refs[k], k)
          /\ \A k \in DOMAIN mint.state \ DOMAIN refs : whole[k] = mint.state[k]
      BY <2>1 DEF Merge
    <2> HIDE DEF whole
    <2>3. DOMAIN whole = DOMAIN full
      BY <2>2, <1>1, <1>5, <1>6, <1>7
    <2>4. \A k \in DOMAIN full : whole[k] = full[k]
      BY <2>2, <2>3, <1>6, <1>7, <1>8
    <2>5. full = [k \in DOMAIN full |-> full[k]]
      BY SnapshotForm
    <2> QED
      BY <2>2, <2>3, <2>4, <2>5 DEF whole
  <1> QED
    BY <1>2, <1>5, <1>6, <1>8, <1>9 DEF MintedFrom

\* The same for one row.
LEMMA InsertOneKeeps ==
  ASSUME RefsInv, NEW s \in Rows, row[s].phase = "completed", NEW phase \in {"moved", "arrived"},
         NEW new \in StepRow, NEW full \in Snapshots, Fits(s, phase, new, full),
         Insert(s, phase, <<new>>, <<full>>)
  PROVE  RefsInv'
  <1> DEFINE news == <<new>>
             fulls == <<full>>
  <1>1. /\ news \in Seq(StepRow) /\ fulls \in Seq(Snapshots) /\ Len(news) = 1 /\ Len(fulls) = 1
        /\ news[1] = new /\ fulls[1] = full
    OBVIOUS
  <1>2. Insert(s, phase, news, fulls)
    OBVIOUS
  <1> HIDE DEF news, fulls
  <1>3. \A i \in 1 .. Len(news) : Fits(s, phase, news[i], fulls[i])
    BY <1>1
  <1>4. \A i, j \in 1 .. Len(news) : i # j => news[i].ordinal # news[j].ordinal
    BY <1>1
  <1> QED
    BY <1>1, <1>2, <1>3, <1>4, InsertKeeps

-----------------------------------------------------------------------------
(* The successors of a step *)

\* The place of a row in its branch, when the transition of s inserts it.
Placed(s, phase, spawn, ordinal, depth, full) ==
    /\ spawn \in Nat /\ ordinal \in Nat /\ depth \in Nat /\ depth <= Len(row) + 1
    /\ spawn # 0 => Keeps(s, phase, spawn) /\ row[spawn].lineage = 0
    /\ spawn = 0 => Item \notin DOMAIN full
    /\ \A a \in Rows : spawn # 0 /\ row[a].lineage = spawn /\ row[a].ordinal = ordinal =>
                           row[a].depth < depth /\ Keeps(s, phase, a)

LEMMA NewRowFits ==
  ASSUME RefsInv, NEW s \in Rows, NEW phase \in {"moved", "arrived"}, NEW p \in Rows,
         NEW anchor, Keeps(s, phase, anchor),
         NEW mint, NEW full \in Snapshots, Enacted(full), MintedFrom(mint, row[p].refs, anchor, full),
         NEW spawn, NEW ordinal, NEW depth, Placed(s, phase, spawn, ordinal, depth, full)
  PROVE  /\ Fits(s, phase, NewRow(mint, spawn, ordinal, depth), full)
         /\ NewRow(mint, spawn, ordinal, depth) \in StepRow
         /\ NewRow(mint, spawn, ordinal, depth).ordinal = ordinal
  <1> DEFINE new == NewRow(mint, spawn, ordinal, depth)
  <1>1. DOMAIN None = {} /\ None \in Snapshots
    <2>1. DOMAIN None = {} /\ None \in [{} -> Values]
      BY DEF None
    <2> QED
      BY <2>1, SnapshotForm
  <1>2. /\ new.state = mint.state /\ new.refs = mint.refs /\ new.changes = None /\ new.phase = "pending"
        /\ new.lineage = spawn /\ new.ordinal = ordinal /\ new.depth = depth
    BY DEF NewRow
  <1>3. new \in StepRow
    BY <1>1 DEF NewRow, StepRow, MintedFrom, Placed
  <1> HIDE DEF new
  <1>4. \A k \in DOMAIN new.refs : Keeps(s, phase, new.refs[k])
    BY <1>2 DEF MintedFrom, RefsInv, AnchorsMoved, Keeps
  <1>5. Assembled(row, new) = full
    BY <1>2 DEF Assembled, MintedFrom
  <1>6. Fits(s, phase, new, full)
    BY <1>1, <1>2, <1>3, <1>4, <1>5 DEF Fits, MintedFrom, Placed
  <1> QED
    BY <1>2, <1>3, <1>6 DEF new

\* A successor in the branch of its predecessor is the last row of the branch.
LEMMA SuccessorPlaced ==
  ASSUME RefsInv, NEW s \in Rows, row[s].phase = "completed", NEW full,
         row[s].lineage = 0 => Item \notin DOMAIN full
  PROVE  Placed(s, "moved", row[s].lineage, row[s].ordinal, row[s].depth + 1, full)
  <1>1. /\ row[s].lineage \in Nat /\ row[s].ordinal \in Nat /\ row[s].depth \in Nat
        /\ Rows = 1 .. Len(row) /\ Len(row) \in Nat
    BY RowForm
  <1>2. row[s].depth <= s
    BY DEF RefsInv, DepthBounded
  <1>3. row[s].depth + 1 \in Nat /\ row[s].depth + 1 <= Len(row) + 1
    BY <1>1, <1>2
  <1>4. row[s].lineage # 0 => Keeps(s, "moved", row[s].lineage) /\ row[row[s].lineage].lineage = 0
    BY DEF RefsInv, CohortsSpawned, Keeps
  <1>5. ASSUME NEW a \in Rows, row[s].lineage # 0, row[a].lineage = row[s].lineage,
               row[a].ordinal = row[s].ordinal
        PROVE  row[a].depth < row[s].depth + 1 /\ Keeps(s, "moved", a)
    <2>1. CASE a = s
      BY <2>1, <1>1 DEF Keeps
    <2>2. CASE a < s
      <3>1. row[a].depth < row[s].depth /\ Moved(row, a)
        BY <2>2, <1>5 DEF RefsInv, BranchOrder
      <3>2. row[a].depth \in Nat
        BY RowForm
      <3> QED
        BY <3>1, <3>2, <1>1 DEF Keeps
    <2>3. CASE s < a
      <3>1. Moved(row, s)
        BY <2>3, <1>5 DEF RefsInv, BranchOrder
      <3> QED
        BY <3>1 DEF Moved
    <2> QED
      BY <2>1, <2>2, <2>3, <1>1
  <1> QED
    BY <1>1, <1>3, <1>4, <1>5 DEF Placed

\* What the delta of a step makes of its whole state.
Handed(s) == DelNils(Merge(truth[s], row[s].changes))

LEMMA HandedForm ==
  ASSUME RefsInv, NEW s \in Rows
  PROVE  /\ Handed(s) \in Snapshots /\ Enacted(Handed(s)) /\ ChildInput(s) = Handed(s)
         /\ row[s].lineage = 0 => Item \notin DOMAIN Handed(s)
         /\ \A k \in DOMAIN Handed(s) :
               \/ k \in DOMAIN row[s].changes /\ Handed(s)[k] = row[s].changes[k]
               \/ k \in DOMAIN truth[s] \ DOMAIN row[s].changes /\ Handed(s)[k] = truth[s][k]
         /\ DOMAIN truth[s] \ DOMAIN row[s].changes \subseteq DOMAIN Handed(s)
  <1> DEFINE merged == Merge(truth[s], row[s].changes)
  <1>1. /\ DOMAIN merged = DOMAIN truth[s] \cup DOMAIN row[s].changes
        /\ \A k \in DOMAIN row[s].changes : merged[k] = row[s].changes[k]
        /\ \A k \in DOMAIN truth[s] \ DOMAIN row[s].changes : merged[k] = truth[s][k]
    BY DEF Merge
  <1>2. merged \in Snapshots
    BY RowForm, MergeForm
  <1> HIDE DEF merged
  <1>3. /\ DOMAIN DelNils(merged) = {k \in DOMAIN merged : merged[k] # Deleted}
        /\ \A k \in DOMAIN DelNils(merged) : DelNils(merged)[k] = merged[k]
        /\ DelNils(merged) \in Snapshots /\ Enacted(DelNils(merged))
    BY <1>2, DelNilsForm
  <1>4. Handed(s) = DelNils(merged)
    BY DEF Handed, merged
  <1>5. ChildInput(s) = Handed(s)
    BY ResolveAllReads DEF ChildInput, Handed
  <1>6. row[s].lineage = 0 => Item \notin DOMAIN merged
    BY <1>1, RowForm DEF RefsInv, ElementInBranches
  <1>7. \A k \in DOMAIN truth[s] : truth[s][k] # Deleted
    BY TruthForm
  <1> QED
    BY <1>1, <1>3, <1>4, <1>5, <1>6, <1>7

\* Whatever else is inlined, a step's own row holds what it hands on and did not
\* inherit.
LEMMA HandedMintable ==
  ASSUME RefsInv, NEW s \in Rows, NEW inlineOnly, NEW full,
         DOMAIN Handed(s) \subseteq DOMAIN full, DOMAIN full \subseteq DOMAIN Handed(s) \cup inlineOnly,
         \A k \in DOMAIN Handed(s) \ inlineOnly : full[k] = Handed(s)[k]
  PROVE  Mintable(full, row[s].changes, row[s].refs, s, inlineOnly, full)
  <1> DEFINE carried == CarriedRefs(full, row[s].changes, row[s].refs, inlineOnly)
  <1>1. carried = DOMAIN row[s].refs \ (inlineOnly \cup DOMAIN row[s].changes)
    BY DEF CarriedRefs
  <1>2. /\ \A k \in DOMAIN Handed(s) :
              \/ k \in DOMAIN row[s].changes /\ Handed(s)[k] = row[s].changes[k]
              \/ k \in DOMAIN truth[s] \ DOMAIN row[s].changes /\ Handed(s)[k] = truth[s][k]
        /\ DOMAIN truth[s] \ DOMAIN row[s].changes \subseteq DOMAIN Handed(s)
    BY HandedForm
  <1>3. /\ DOMAIN truth[s] = DOMAIN row[s].state \cup DOMAIN row[s].refs
        /\ \A k \in DOMAIN row[s].refs : truth[s][k] = Stored(row, row[s].refs[k], k)
        /\ \A k \in DOMAIN row[s].state : truth[s][k] = row[s].state[k]
    BY TruthForm
  <1> HIDE DEF carried
  <1>4. ASSUME NEW k \in carried
        PROVE  k \in DOMAIN full /\ full[k] = Stored(row, row[s].refs[k], k)
    BY <1>1, <1>2, <1>3
  <1>5. ASSUME NEW k \in DOMAIN full \ (carried \cup inlineOnly)
        PROVE  full[k] = Stored(row, s, k)
    <2>1. k \in DOMAIN Handed(s) /\ full[k] = Handed(s)[k]
      OBVIOUS
    <2>2. CASE k \in DOMAIN row[s].changes
      BY <2>1, <2>2, <1>2 DEF Stored
    <2>3. CASE k \notin DOMAIN row[s].changes
      BY <2>1, <2>3, <1>1, <1>2, <1>3 DEF Stored
    <2> QED
      BY <2>2, <2>3
  <1> QED
    BY <1>4, <1>5 DEF Mintable, carried

LEMMA AdvanceKeeps ==
  ASSUME RefsInv, NEW s \in Rows, Advance(s)
  PROVE  RefsInv'
  <1> DEFINE full == Handed(s)
  <1>1. PICK mint \in Mint(ChildInput(s), row[s].changes, row[s].refs, s, {}) :
          Insert(s, "moved", <<NewRow(mint, row[s].lineage, row[s].ordinal, row[s].depth + 1)>>, <<full>>)
    BY DEF Advance, Handed
  <1>2. row[s].phase = "completed"
    BY DEF Advance
  <1>3. /\ full \in Snapshots /\ Enacted(full) /\ ChildInput(s) = full
        /\ row[s].lineage = 0 => Item \notin DOMAIN full
    BY HandedForm
  <1>4. Mintable(full, row[s].changes, row[s].refs, s, {}, full)
    BY HandedMintable
  <1> HIDE DEF full
  <1>5. MintedFrom(mint, row[s].refs, s, full)
    <2>1. s \in Nat /\ row[s].refs \in References
      BY RowForm
    <2>2. mint \in Mint(full, row[s].changes, row[s].refs, s, {})
      BY <1>3
    <2> QED
      BY <1>3, <1>4, <2>1, <2>2, MintAssembles
  <1>6. Placed(s, "moved", row[s].lineage, row[s].ordinal, row[s].depth + 1, full)
    BY <1>2, <1>3, SuccessorPlaced
  <1> DEFINE new == NewRow(mint, row[s].lineage, row[s].ordinal, row[s].depth + 1)
  <1>7. Fits(s, "moved", new, full) /\ new \in StepRow
    <2>1. Keeps(s, "moved", s)
      BY DEF Keeps
    <2> QED
      BY <1>3, <1>5, <1>6, <2>1, NewRowFits
  <1>8. Insert(s, "moved", <<new>>, <<full>>)
    BY <1>1
  <1> HIDE DEF new
  <1> QED
    BY <1>2, <1>3, <1>7, <1>8, InsertOneKeeps

\* Element i of the forEach of s.
Element(s, i) == [k \in {Item} |-> <<<<s, i, "element">>>>]

LEMMA ElementForm ==
  ASSUME NEW s \in Nat, NEW i \in Nat
  PROVE  /\ Element(s, i) \in Snapshots /\ DOMAIN Element(s, i) = {Item}
         /\ Element(s, i)[Item] # Deleted
  <1>1. <<<<s, i, "element">>>> \in Values /\ <<<<s, i, "element">>>> # Deleted
    BY ValuesClosed
  <1>2. DOMAIN Element(s, i) = {Item} /\ Element(s, i) \in [{Item} -> Values]
    BY <1>1 DEF Element
  <1>3. Element(s, i)[Item] # Deleted
    BY <1>1 DEF Element
  <1>4. {Item} \subseteq Fields
    BY DEF Fields
  <1> QED
    BY <1>2, <1>3, <1>4, SnapshotForm

\* The whole state of branch i.
InBranch(s, i) == Merge(Handed(s), Element(s, i))

LEMMA InBranchForm ==
  ASSUME RefsInv, NEW s \in Rows, NEW i \in Nat
  PROVE  /\ InBranch(s, i) \in Snapshots /\ Enacted(InBranch(s, i))
         /\ DOMAIN InBranch(s, i) = DOMAIN Handed(s) \cup {Item}
         /\ \A k \in DOMAIN Handed(s) \ {Item} : InBranch(s, i)[k] = Handed(s)[k]
         /\ InBranch(s, i)[Item] = Element(s, i)[Item]
  <1>1. s \in Nat
    BY RowForm
  <1>2. /\ Element(s, i) \in Snapshots /\ DOMAIN Element(s, i) = {Item}
        /\ Element(s, i)[Item] # Deleted
    BY <1>1, ElementForm
  <1>3. Handed(s) \in Snapshots /\ Enacted(Handed(s))
    BY HandedForm
  <1>4. /\ DOMAIN InBranch(s, i) = DOMAIN Handed(s) \cup {Item}
        /\ \A k \in DOMAIN Handed(s) \ {Item} : InBranch(s, i)[k] = Handed(s)[k]
        /\ InBranch(s, i)[Item] = Element(s, i)[Item]
    BY <1>2 DEF InBranch, Merge
  <1>5. InBranch(s, i) \in Snapshots
    BY <1>2, <1>3, MergeForm DEF InBranch
  <1>6. Enacted(InBranch(s, i))
    BY <1>2, <1>3, <1>4 DEF Enacted
  <1> QED
    BY <1>4, <1>5, <1>6

\* The row of the first branch with another element is the row of that branch.
LEMMA BranchMinted ==
  ASSUME RefsInv, NEW s \in Rows, NEW i \in Nat,
         NEW mint, mint = [state |-> mint.state, refs |-> mint.refs],
         MintedFrom(mint, row[s].refs, s, InBranch(s, 1)), Item \notin DOMAIN mint.refs
  PROVE  MintedFrom([mint EXCEPT !.state = IF Item \in DOMAIN @ THEN Merge(@, Element(s, i)) ELSE @],
                    row[s].refs, s, InBranch(s, i))
  <1> DEFINE held == Merge(mint.state, Element(s, i))
             new == [mint EXCEPT !.state = IF Item \in DOMAIN @ THEN Merge(@, Element(s, i)) ELSE @]
             read == [k \in DOMAIN mint.refs |-> Stored(row, mint.refs[k], k)]
  <1>1. /\ DOMAIN InBranch(s, 1) = DOMAIN Handed(s) \cup {Item}
        /\ \A k \in DOMAIN Handed(s) \ {Item} : InBranch(s, 1)[k] = Handed(s)[k]
    BY InBranchForm
  <1>2. /\ DOMAIN InBranch(s, i) = DOMAIN Handed(s) \cup {Item}
        /\ \A k \in DOMAIN Handed(s) \ {Item} : InBranch(s, i)[k] = Handed(s)[k]
        /\ InBranch(s, i)[Item] = Element(s, i)[Item]
        /\ InBranch(s, i) \in Snapshots
    BY InBranchForm
  <1>0. s \in Nat
    BY RowForm
  <1>3. Element(s, i) \in Snapshots /\ DOMAIN Element(s, i) = {Item}
    BY <1>0, ElementForm
  <1>4. InBranch(s, 1) = Merge(mint.state, read)
    BY DEF MintedFrom, Assembled
  <1>5. /\ DOMAIN InBranch(s, 1) = DOMAIN mint.state \cup DOMAIN mint.refs
        /\ \A k \in DOMAIN mint.refs : InBranch(s, 1)[k] = read[k]
        /\ \A k \in DOMAIN mint.state \ DOMAIN mint.refs : InBranch(s, 1)[k] = mint.state[k]
    BY <1>4 DEF Merge
  <1>6. Item \in DOMAIN mint.state
    BY <1>1, <1>5
  <1>7. new = [state |-> held, refs |-> mint.refs]
    BY <1>6
  <1>8. new.state = held /\ new.refs = mint.refs
    BY <1>7
  <1> HIDE DEF new
  <1>9. /\ DOMAIN held = DOMAIN mint.state
        /\ held[Item] = Element(s, i)[Item]
        /\ \A k \in DOMAIN held \ {Item} : held[k] = mint.state[k]
        /\ held \in Snapshots
    <2>1. held \in Snapshots
      BY <1>3, MergeForm DEF MintedFrom
    <2> QED
      BY <2>1, <1>3, <1>6 DEF Merge
  <1> HIDE DEF held, read
  <1>10. Assembled(row, new) = InBranch(s, i)
    <2>1. Assembled(row, new) = Merge(held, read)
      BY <1>8 DEF Assembled, read
    <2>2. /\ DOMAIN Merge(held, read) = DOMAIN held \cup DOMAIN read
          /\ Merge(held, read) = [k \in DOMAIN held \cup DOMAIN read |-> Merge(held, read)[k]]
          /\ \A k \in DOMAIN read : Merge(held, read)[k] = read[k]
          /\ \A k \in DOMAIN held \ DOMAIN read : Merge(held, read)[k] = held[k]
      BY DEF Merge
    <2>3. DOMAIN read = DOMAIN mint.refs
      BY DEF read
    <2>4. DOMAIN Merge(held, read) = DOMAIN InBranch(s, i)
      BY <2>2, <2>3, <1>1, <1>2, <1>5, <1>9
    <2>5. \A k \in DOMAIN InBranch(s, i) : Merge(held, read)[k] = InBranch(s, i)[k]
      <3> SUFFICES ASSUME NEW k \in DOMAIN InBranch(s, i)
                   PROVE  Merge(held, read)[k] = InBranch(s, i)[k]
        OBVIOUS
      <3>1. CASE k = Item
        BY <3>1, <2>2, <2>3, <1>2, <1>6, <1>9
      <3>2. CASE k # Item /\ k \in DOMAIN mint.refs
        BY <3>2, <2>2, <2>3, <1>1, <1>2, <1>5
      <3>3. CASE k # Item /\ k \notin DOMAIN mint.refs
        BY <3>3, <2>2, <2>3, <2>4, <1>1, <1>2, <1>5, <1>9
      <3> QED
        BY <3>1, <3>2, <3>3
    <2>6. InBranch(s, i) = [k \in DOMAIN InBranch(s, i) |-> InBranch(s, i)[k]]
      BY <1>2, SnapshotForm
    <2> QED
      BY <2>1, <2>2, <2>4, <2>5, <2>6
  <1> QED
    BY <1>8, <1>9, <1>10 DEF MintedFrom, new

LEMMA FanOutKeeps ==
  ASSUME RefsInv, NEW s \in Rows, FanOut(s)
  PROVE  RefsInv'
  <1>1. row[s].phase = "completed" /\ row[s].lineage = 0
    BY DEF FanOut
  <1> DEFINE branch(mint, i) ==
               NewRow([mint EXCEPT !.state = IF Item \in DOMAIN @ THEN Merge(@, Element(s, i)) ELSE @],
                      s, i, row[s].depth + 1)
  <1>2. PICK mint \in Mint(Merge(ChildInput(s), Element(s, 1)), row[s].changes, row[s].refs, s, Synthesized) :
          Insert(s, "moved", [i \in 1 .. Width |-> branch(mint, i)], [i \in 1 .. Width |-> InBranch(s, i)])
    BY DEF FanOut, Element, InBranch, Handed
  <1>3. s \in Nat /\ row[s].refs \in References /\ row[s].depth \in Nat /\ Len(row) \in Nat
        /\ s <= Len(row) /\ s # 0
    BY RowForm
  <1>4. Merge(ChildInput(s), Element(s, 1)) = InBranch(s, 1)
    BY HandedForm DEF InBranch
  <1>5. /\ InBranch(s, 1) \in Snapshots
        /\ DOMAIN InBranch(s, 1) = DOMAIN Handed(s) \cup Synthesized
        /\ \A k \in DOMAIN Handed(s) \ Synthesized : InBranch(s, 1)[k] = Handed(s)[k]
    BY InBranchForm DEF Synthesized
  <1>6. Mintable(InBranch(s, 1), row[s].changes, row[s].refs, s, Synthesized, InBranch(s, 1))
    BY <1>5, HandedMintable
  <1>7. /\ MintedFrom(mint, row[s].refs, s, InBranch(s, 1))
        /\ mint = [state |-> mint.state, refs |-> mint.refs]
        /\ Item \notin DOMAIN mint.refs
    <2>1. mint \in Mint(InBranch(s, 1), row[s].changes, row[s].refs, s, Synthesized)
      BY <1>4
    <2>2. /\ MintedFrom(mint, row[s].refs, s, InBranch(s, 1))
          /\ DOMAIN mint.refs \cap Synthesized = {}
          /\ mint = [state |-> mint.state, refs |-> mint.refs]
      BY <2>1, <1>3, <1>5, <1>6, MintAssembles
    <2> QED
      BY <2>2 DEF Synthesized
  <1>8. ASSUME NEW i \in 1 .. Width
        PROVE  /\ Fits(s, "moved", branch(mint, i), InBranch(s, i))
               /\ branch(mint, i) \in StepRow /\ branch(mint, i).ordinal = i
               /\ InBranch(s, i) \in Snapshots
    <2> DEFINE minted == [mint EXCEPT !.state = IF Item \in DOMAIN @ THEN Merge(@, Element(s, i)) ELSE @]
    <2>1. i \in Nat
      BY RefsBoundsAssumption
    <2>2. MintedFrom(minted, row[s].refs, s, InBranch(s, i))
      BY <2>1, <1>7, BranchMinted
    <2>3. InBranch(s, i) \in Snapshots /\ Enacted(InBranch(s, i))
      BY <2>1, InBranchForm
    <2>4. Placed(s, "moved", s, i, row[s].depth + 1, InBranch(s, i))
      <3>1. row[s].depth <= s
        BY DEF RefsInv, DepthBounded
      <3>2. \A a \in Rows : row[a].lineage # s
        <4> SUFFICES ASSUME NEW a \in Rows, row[a].lineage = s PROVE FALSE
          OBVIOUS
        <4>1. Moved(row, s)
          BY <1>3 DEF RefsInv, CohortsSpawned
        <4> QED
          BY <4>1, <1>1 DEF Moved
      <3> QED
        BY <2>1, <3>1, <3>2, <1>1, <1>3 DEF Placed, Keeps
    <2>5. Keeps(s, "moved", s)
      BY DEF Keeps
    <2> HIDE DEF minted
    <2>6. /\ Fits(s, "moved", NewRow(minted, s, i, row[s].depth + 1), InBranch(s, i))
          /\ NewRow(minted, s, i, row[s].depth + 1) \in StepRow
          /\ NewRow(minted, s, i, row[s].depth + 1).ordinal = i
      BY <2>2, <2>3, <2>4, <2>5, NewRowFits
    <2> QED
      BY <2>3, <2>6 DEF minted
  <1> HIDE DEF branch
  <1> DEFINE news == [i \in 1 .. Width |-> branch(mint, i)]
             fulls == [i \in 1 .. Width |-> InBranch(s, i)]
  <1>9. /\ news \in Seq(StepRow) /\ fulls \in Seq(Snapshots) /\ Len(news) = Width /\ Len(fulls) = Width
        /\ \A i \in 1 .. Width : news[i] = branch(mint, i) /\ fulls[i] = InBranch(s, i)
    <2>1. Width \in Nat
      BY RefsBoundsAssumption
    <2>2. news \in [1 .. Width -> StepRow] /\ fulls \in [1 .. Width -> Snapshots]
      BY <1>8
    <2>3. \A i \in 1 .. Width : news[i] = branch(mint, i) /\ fulls[i] = InBranch(s, i)
      OBVIOUS
    <2> HIDE DEF news, fulls
    <2> QED
      BY <2>1, <2>2, <2>3
  <1>10. Insert(s, "moved", news, fulls)
    BY <1>2
  <1> HIDE DEF news, fulls
  <1>11. \A i \in 1 .. Len(news) : Fits(s, "moved", news[i], fulls[i])
    BY <1>8, <1>9
  <1>12. \A i, j \in 1 .. Len(news) : i # j => news[i].ordinal # news[j].ordinal
    BY <1>8, <1>9
  <1> QED
    BY <1>1, <1>9, <1>10, <1>11, <1>12, InsertKeeps

-----------------------------------------------------------------------------
(* The fan-in's fold *)

\* t is what the whole state of s has become, m what its state with the reduced
\* references resolved has.
Follows(m, t, s) ==
    /\ DOMAIN t = DOMAIN m \cup Left(s)
    /\ \A k \in DOMAIN m : t[k] = m[k]
    /\ \A k \in Left(s) \ DOMAIN m : t[k] = truth[s][k]

LEMMA ResolvedFollows ==
  ASSUME RefsInv, NEW s \in Rows
  PROVE  Follows(ResolveReduced(s), truth[s], s)
  BY ResolveReducedReads DEF Follows

\* A fold of one delta keeps the two in step: a field that is not reduced needs no
\* base.
LEMMA FoldFollows ==
  ASSUME NEW m, NEW t, NEW s, Follows(m, t, s), NEW delta
  PROVE  Follows(MergeReduce(m, delta), MergeReduce(t, delta), s)
  <1> DEFINE m2 == MergeReduce(m, delta)
             t2 == MergeReduce(t, delta)
  <1>1. /\ DOMAIN m2 = DOMAIN m \cup FoldedFields(delta)
        /\ \A k \in FoldedFields(delta) :
              m2[k] = IF k \in Reduced /\ k \in DOMAIN m THEN m[k] \o delta[k] ELSE delta[k]
        /\ \A k \in DOMAIN m \ FoldedFields(delta) : m2[k] = m[k]
    BY MergeReduceForm
  <1>2. /\ DOMAIN t2 = DOMAIN t \cup FoldedFields(delta)
        /\ \A k \in FoldedFields(delta) :
              t2[k] = IF k \in Reduced /\ k \in DOMAIN t THEN t[k] \o delta[k] ELSE delta[k]
        /\ \A k \in DOMAIN t \ FoldedFields(delta) : t2[k] = t[k]
    BY MergeReduceForm
  <1> HIDE DEF m2, t2
  <1>3. \A k \in Left(s) : k \notin Reduced
    BY DEF Left
  <1>4. \A k \in FoldedFields(delta) : t2[k] = m2[k]
    BY <1>1, <1>2, <1>3 DEF Follows
  <1>5. \A k \in DOMAIN m \ FoldedFields(delta) : t2[k] = m2[k]
    BY <1>1, <1>2 DEF Follows
  <1>6. \A k \in Left(s) \ DOMAIN m2 : t2[k] = truth[s][k]
    BY <1>1, <1>2 DEF Follows
  <1>7. DOMAIN t2 = DOMAIN m2 \cup Left(s)
    BY <1>1, <1>2 DEF Follows
  <1> QED
    BY <1>1, <1>4, <1>5, <1>6, <1>7 DEF Follows, m2, t2

\* What the deltas after the step's own leave: only the fields they name change,
\* and those without a reducer are held from then on.
Untouched(m, own, touched) ==
    /\ \A k \in Fields \ touched : /\ k \in DOMAIN m <=> k \in DOMAIN own
                                   /\ k \in DOMAIN m => m[k] = own[k]
    /\ touched \ Reduced \subseteq DOMAIN m

\* f is m without its tombstones and the dropped fields.
KeptOf(m, dropped, f) ==
    /\ DOMAIN f = {k \in DOMAIN m \ dropped : m[k] # Deleted}
    /\ \A k \in DOMAIN f : f[k] = m[k]

\* What a fan-in makes of the state of s may be minted against s: what is
\* referenced and not resolved was folded by nobody.
LEMMA FoldMintable ==
  ASSUME RefsInv, NEW s \in Rows, NEW m, NEW t, Follows(m, t, s), DOMAIN t \subseteq Fields,
         NEW touched, Untouched(m, MergeReduce(ResolveReduced(s), row[s].changes), touched),
         NEW dropped, dropped \cap DOMAIN row[s].refs = {},
         NEW merged, KeptOf(m, dropped, merged), NEW full, KeptOf(t, dropped, full)
  PROVE  Mintable(merged, row[s].changes, row[s].refs, s,
                  touched \cup CombinedReducerFields(ResolveReduced(s), row[s].changes), full)
  <1> DEFINE base == ResolveReduced(s)
             changes == row[s].changes
             refs == row[s].refs
             inlineOnly == touched \cup CombinedReducerFields(base, changes)
             carried == CarriedRefs(merged, changes, refs, inlineOnly)
             own == MergeReduce(base, changes)
  <1>1. /\ carried = DOMAIN refs \ (touched \cup DOMAIN changes)
        /\ inlineOnly = touched \cup (DOMAIN changes \cap Reduced \cap DOMAIN base)
    BY DEF CarriedRefs, CombinedReducerFields
  <1>2. /\ DOMAIN base = DOMAIN truth[s] \ Left(s) /\ Left(s) \subseteq DOMAIN truth[s]
        /\ \A k \in DOMAIN base : base[k] = truth[s][k]
    BY ResolveReducedReads
  <1>3. /\ DOMAIN truth[s] = DOMAIN row[s].state \cup DOMAIN refs
        /\ \A k \in DOMAIN refs : truth[s][k] = Stored(row, refs[k], k)
        /\ \A k \in DOMAIN row[s].state : truth[s][k] = row[s].state[k]
        /\ \A k \in DOMAIN truth[s] : truth[s][k] # Deleted
    BY TruthForm
  <1>4. /\ DOMAIN own = DOMAIN base \cup FoldedFields(changes)
        /\ \A k \in FoldedFields(changes) :
              own[k] = IF k \in Reduced /\ k \in DOMAIN base THEN base[k] \o changes[k] ELSE changes[k]
        /\ \A k \in DOMAIN base \ FoldedFields(changes) : own[k] = base[k]
    BY MergeReduceForm
  <1>5. /\ \A k \in DOMAIN changes \ Reduced : k \in FoldedFields(changes)
        /\ \A k \in DOMAIN changes \ FoldedFields(changes) : k \in Reduced
        /\ FoldedFields(changes) \subseteq DOMAIN changes
    BY DEF FoldedFields
  <1>6. DOMAIN refs \subseteq Fields /\ DOMAIN m \subseteq Fields
    <2>1. refs \in References
      BY RowForm
    <2> QED
      BY <2>1, ReferencesForm DEF Follows
  <1>7. Left(s) = DOMAIN refs \ Reduced
    BY DEF Left
  <1>8. Untouched(m, own, touched)
    OBVIOUS
  <1> HIDE DEF base, changes, refs, own, inlineOnly, carried
  <1>9. ASSUME NEW k \in DOMAIN m, m[k] # Deleted, k \notin dropped
        PROVE  k \in DOMAIN merged /\ k \in DOMAIN full /\ merged[k] = m[k] /\ full[k] = m[k]
    BY <1>9 DEF KeptOf, Follows
  <1>10. ASSUME NEW k \in carried
         PROVE  k \in DOMAIN full /\ full[k] = truth[s][k]
    <2>1. k \in DOMAIN refs /\ k \notin touched /\ k \notin DOMAIN changes /\ k \notin dropped
          /\ k \in DOMAIN truth[s] /\ truth[s][k] # Deleted /\ k \in Fields
      BY <1>1, <1>3, <1>6 DEF refs
    <2>2. k \in DOMAIN m <=> k \in DOMAIN base
      BY <2>1, <1>4, <1>5, <1>8 DEF Untouched
    <2>3. CASE k \in Reduced
      <3>1. k \in DOMAIN base /\ own[k] = truth[s][k] /\ m[k] = own[k]
        BY <2>1, <2>2, <2>3, <1>2, <1>4, <1>5, <1>7, <1>8 DEF Untouched
      <3> QED
        BY <2>1, <2>2, <3>1, <1>9
    <2>4. CASE k \notin Reduced
      <3>1. k \in Left(s) \ DOMAIN m
        BY <2>1, <2>2, <2>4, <1>2, <1>7
      <3>2. k \in DOMAIN t /\ t[k] = truth[s][k]
        BY <3>1 DEF Follows
      <3> QED
        BY <2>1, <3>2 DEF KeptOf
    <2> QED
      BY <2>3, <2>4
  <1>11. ASSUME NEW k \in DOMAIN full, k \notin DOMAIN merged
         PROVE  k \in carried
    <2>1. k \in DOMAIN t /\ t[k] # Deleted /\ k \notin dropped /\ k \in Fields
      BY DEF KeptOf
    <2>2. k \notin DOMAIN m
      BY <2>1, <1>9, <1>11 DEF Follows
    <2>3. k \in DOMAIN refs /\ k \notin Reduced
      BY <2>1, <2>2, <1>7 DEF Follows
    <2>4. k \notin touched
      BY <2>2, <2>3, <1>8 DEF Untouched
    <2>5. k \notin DOMAIN changes
      BY <2>1, <2>2, <2>3, <2>4, <1>4, <1>5, <1>8 DEF Untouched
    <2> QED
      BY <2>3, <2>4, <2>5, <1>1
  <1>12. ASSUME NEW k \in DOMAIN merged
         PROVE  k \in DOMAIN full /\ full[k] = merged[k] /\ merged[k] = m[k] /\ k \in DOMAIN m /\ m[k] # Deleted
    BY <1>9 DEF KeptOf
  <1>13. ASSUME NEW k \in DOMAIN merged \ (carried \cup inlineOnly)
         PROVE  full[k] = Stored(row, s, k)
    <2>1. k \in DOMAIN m /\ k \in Fields /\ k \notin touched /\ full[k] = m[k]
      BY <1>1, <1>6, <1>12
    <2>2. k \in DOMAIN own /\ m[k] = own[k]
      BY <2>1, <1>8 DEF Untouched
    <2>3. CASE k \in DOMAIN changes
      <3>1. k \in FoldedFields(changes) /\ ~(k \in Reduced /\ k \in DOMAIN base)
        BY <2>2, <2>3, <1>1, <1>4, <1>5
      <3>2. own[k] = changes[k]
        BY <3>1, <1>4
      <3> QED
        BY <2>1, <2>2, <2>3, <3>2 DEF Stored, changes
    <2>4. CASE k \notin DOMAIN changes
      <3>1. k \in DOMAIN base /\ own[k] = base[k] /\ k \notin DOMAIN refs
        BY <2>1, <2>2, <2>4, <1>1, <1>4, <1>5
      <3>2. k \in DOMAIN row[s].state /\ base[k] = row[s].state[k]
        BY <3>1, <1>2, <1>3
      <3> QED
        BY <2>1, <2>2, <2>4, <3>1, <3>2 DEF Stored, changes
    <2> QED
      BY <2>3, <2>4
  <1>14. DOMAIN full = DOMAIN merged \cup carried
    BY <1>10, <1>11, <1>12
  <1>15. \A k \in carried : full[k] = Stored(row, refs[k], k)
    BY <1>1, <1>3, <1>10
  <1> QED
    BY <1>12, <1>13, <1>14, <1>15 DEF Mintable, carried, inlineOnly, base, changes, refs

LEMMA DelNilsKept ==
  ASSUME NEW m
  PROVE  KeptOf(m, {}, DelNils(m))
  BY DelNilsForm DEF KeptOf

LEMMA FireFanInDirectKeeps ==
  ASSUME RefsInv, NEW s \in Rows, FireFanInDirect(s)
  PROVE  RefsInv'
  <1> DEFINE base == ResolveReduced(s)
             own == MergeReduce(base, row[s].changes)
             whole == MergeReduce(truth[s], row[s].changes)
             full == DelNils(whole)
             inlineOnly == CombinedReducerFields(base, row[s].changes)
  <1>1. PICK mint \in Mint(DelNils(own), row[s].changes, row[s].refs, s, inlineOnly) :
          Insert(s, "moved", <<NewRow(mint, row[s].lineage, row[s].ordinal, row[s].depth + 1)>>, <<full>>)
    BY DEF FireFanInDirect
  <1>2. row[s].phase = "completed"
    BY DEF FireFanInDirect
  <1>3. /\ base \in Snapshots /\ truth[s] \in Snapshots /\ row[s].changes \in Snapshots
        /\ s \in Nat /\ row[s].refs \in References
    <2>1. s \in Nat
      BY RowForm
    <2> QED
      BY <2>1, RowForm, ResolveReducedReads
  <1>4. own \in Snapshots /\ whole \in Snapshots
    BY <1>3, MergeReduceForm
  <1>5. Follows(own, whole, s)
    BY ResolvedFollows, FoldFollows
  <1>6. /\ DelNils(own) \in Snapshots /\ full \in Snapshots /\ Enacted(full)
        /\ DOMAIN full \subseteq DOMAIN whole
    BY <1>4, DelNilsForm
  <1>7. row[s].lineage = 0 => Item \notin DOMAIN full
    <2>1. DOMAIN whole = DOMAIN truth[s] \cup FoldedFields(row[s].changes)
      BY MergeReduceForm
    <2>2. FoldedFields(row[s].changes) \subseteq DOMAIN row[s].changes
      BY DEF FoldedFields
    <2>3. Item \notin DOMAIN row[s].changes
      BY RowForm
    <2>4. row[s].lineage = 0 => Item \notin DOMAIN truth[s]
      BY DEF RefsInv, ElementInBranches
    <2> QED
      BY <2>1, <2>2, <2>3, <2>4, <1>6
  <1>8. Mintable(DelNils(own), row[s].changes, row[s].refs, s, inlineOnly, full)
    <2>1. DOMAIN whole \subseteq Fields
      BY <1>4, SnapshotForm
    <2>2. Untouched(own, own, {})
      BY DEF Untouched
    <2>3. KeptOf(own, {}, DelNils(own)) /\ KeptOf(whole, {}, full)
      BY DelNilsKept
    <2>4. {} \cap DOMAIN row[s].refs = {}
      OBVIOUS
    <2> HIDE DEF whole, full
    <2>5. Mintable(DelNils(own), row[s].changes, row[s].refs, s, {} \cup inlineOnly, full)
      BY <2>1, <2>2, <2>3, <2>4, <1>5, FoldMintable
    <2>6. {} \cup inlineOnly = inlineOnly
      OBVIOUS
    <2> QED
      BY <2>5, <2>6
  <1> HIDE DEF base, own, whole, full, inlineOnly
  <1>9. MintedFrom(mint, row[s].refs, s, full)
    BY <1>1, <1>3, <1>6, <1>8, MintAssembles
  <1>10. Placed(s, "moved", row[s].lineage, row[s].ordinal, row[s].depth + 1, full)
    BY <1>2, <1>7, SuccessorPlaced
  <1> DEFINE new == NewRow(mint, row[s].lineage, row[s].ordinal, row[s].depth + 1)
  <1>11. Fits(s, "moved", new, full) /\ new \in StepRow
    <2>1. Keeps(s, "moved", s)
      BY DEF Keeps
    <2> QED
      BY <1>6, <1>9, <1>10, <2>1, NewRowFits
  <1>12. Insert(s, "moved", <<new>>, <<full>>)
    BY <1>1
  <1> HIDE DEF new
  <1> QED
    BY <1>2, <1>6, <1>11, <1>12, InsertOneKeeps

\* MergeReduceAll folds the deltas one after the other.
FoldRuns(base, n, deltas, w) ==
    /\ w \in [0 .. n -> Snapshots] /\ w[0] = base
    /\ \A i \in 1 .. n : w[i] = MergeReduce(w[i - 1], deltas[i])

DeltasFold(base, deltas) ==
    CHOOSE fold : fold = [n \in 0 .. Len(deltas) |->
                            IF n = 0 THEN base ELSE MergeReduce(fold[n - 1], deltas[n])]

LEMMA MergeReduceAllRuns ==
  ASSUME NEW base \in Snapshots, NEW n \in Nat, NEW deltas \in [1 .. n -> Snapshots]
  PROVE  \E w : FoldRuns(base, n, deltas, w) /\ MergeReduceAll(base, deltas) = w[n]
  <1> DEFINE h == [i \in 1 .. n |-> [x \in Snapshots |-> MergeReduce(x, deltas[i])]]
  <1>1. h \in [1 .. n -> [Snapshots -> Snapshots]]
    <2> SUFFICES ASSUME NEW i \in 1 .. n, NEW x \in Snapshots PROVE MergeReduce(x, deltas[i]) \in Snapshots
      OBVIOUS
    <2>1. deltas[i] \in Snapshots
      OBVIOUS
    <2> QED
      BY <2>1, MergeReduceForm
  <1>2. PICK w : Runs(Snapshots, n, base, h, w)
    <2> HIDE DEF h
    <2> QED
      BY <1>1, RecursionExists
  <1>3. \A i \in 1 .. n : i - 1 \in 0 .. n
    OBVIOUS
  <1>4. FoldRuns(base, n, deltas, w)
    BY <1>2, <1>3 DEF FoldRuns, Runs
  <1>5. Len(deltas) = n
    OBVIOUS
  <1> DEFINE Fold(v) == v = [i \in 0 .. n |-> IF i = 0 THEN base ELSE MergeReduce(v[i - 1], deltas[i])]
  <1>6. Fold(w)
    BY <1>4 DEF FoldRuns
  <1>7. MergeReduceAll(base, deltas) = DeltasFold(base, deltas)[n]
    BY <1>5 DEF MergeReduceAll, DeltasFold
  <1>8. Fold(DeltasFold(base, deltas))
    BY <1>5, <1>6 DEF DeltasFold
  <1>9. ASSUME NEW v, Fold(v) PROVE v = w
    <2>1. /\ v = [i \in 0 .. n |-> v[i]] /\ v[0] = base
          /\ \A i \in 1 .. n : v[i] = MergeReduce(v[i - 1], deltas[i])
      BY <1>9
    <2>2. SameSteps(n, v, w)
      BY <2>1, <1>4 DEF FoldRuns, SameSteps
    <2>3. \A i \in 0 .. n : v[i] = w[i]
      BY <2>2, RecursionUnique
    <2>4. w = [i \in 0 .. n |-> w[i]]
      BY <1>4 DEF FoldRuns
    <2> HIDE DEF Fold
    <2> QED
      BY <2>1, <2>3, <2>4
  <1> HIDE DEF Fold
  <1> QED
    BY <1>4, <1>7, <1>8, <1>9

\* The fields that some delta names.
Named(n, deltas) == UNION {DOMAIN deltas[i] : i \in 1 .. n}

\* After the deltas that name the fields seen, the two folds are in step and only
\* those fields have changed.
InStep(m, t, s, own, start, seen) ==
    Follows(m, t, s) /\ Untouched(m, own, seen) /\ DOMAIN t \subseteq start \cup seen

LEMMA OneDeltaFolds ==
  ASSUME NEW m, NEW t, NEW s, NEW own, NEW start, NEW seen, InStep(m, t, s, own, start, seen),
         NEW delta
  PROVE  InStep(MergeReduce(m, delta), MergeReduce(t, delta), s, own, start, seen \cup DOMAIN delta)
  <1> DEFINE m2 == MergeReduce(m, delta)
             t2 == MergeReduce(t, delta)
  <1>1. /\ DOMAIN m2 = DOMAIN m \cup FoldedFields(delta)
        /\ \A k \in DOMAIN m \ FoldedFields(delta) : m2[k] = m[k]
    BY MergeReduceForm
  <1>2. DOMAIN t2 = DOMAIN t \cup FoldedFields(delta)
    BY MergeReduceForm
  <1>3. Follows(m2, t2, s)
    BY FoldFollows DEF InStep
  <1> HIDE DEF m2, t2
  <1>4. /\ FoldedFields(delta) \subseteq DOMAIN delta
        /\ DOMAIN delta \ Reduced \subseteq FoldedFields(delta)
    BY DEF FoldedFields
  <1>5. Untouched(m2, own, seen \cup DOMAIN delta)
    BY <1>1, <1>4 DEF Untouched, InStep
  <1>6. DOMAIN t2 \subseteq start \cup (seen \cup DOMAIN delta)
    BY <1>2, <1>4 DEF InStep
  <1> QED
    BY <1>3, <1>5, <1>6 DEF InStep, m2, t2

\* The cohort's deltas keep the two folds in step, and leave alone what they do
\* not name.
LEMMA CohortFolds ==
  ASSUME NEW s, NEW m \in Snapshots, NEW t \in Snapshots, Follows(m, t, s),
         NEW n \in Nat, NEW deltas \in [1 .. n -> Snapshots]
  PROVE  /\ MergeReduceAll(m, deltas) \in Snapshots /\ MergeReduceAll(t, deltas) \in Snapshots
         /\ InStep(MergeReduceAll(m, deltas), MergeReduceAll(t, deltas), s, m, DOMAIN t, Named(n, deltas))
  <1>1. PICK u : FoldRuns(m, n, deltas, u) /\ MergeReduceAll(m, deltas) = u[n]
    BY MergeReduceAllRuns
  <1>2. PICK v : FoldRuns(t, n, deltas, v) /\ MergeReduceAll(t, deltas) = v[n]
    BY MergeReduceAllRuns
  <1> DEFINE Agree(i) == InStep(u[i], v[i], s, m, DOMAIN t, Named(i, deltas))
             S == {i \in 0 .. n : Agree(i)}
  <1>3. 0 \in S
    <2>1. Named(0, deltas) = {}
      BY DEF Named
    <2>2. u[0] = m /\ v[0] = t
      BY <1>1, <1>2 DEF FoldRuns
    <2>3. InStep(m, t, s, m, DOMAIN t, {})
      BY DEF Untouched, InStep
    <2>4. Agree(0)
      BY <2>1, <2>2, <2>3
    <2> QED
      BY <2>4
  <1>4. ASSUME NEW i \in 1 .. n, i - 1 \in S PROVE i \in S
    <2>1. /\ u[i] = MergeReduce(u[i - 1], deltas[i]) /\ v[i] = MergeReduce(v[i - 1], deltas[i])
      BY <1>1, <1>2 DEF FoldRuns
    <2>2. Named(i, deltas) = Named(i - 1, deltas) \cup DOMAIN deltas[i]
      <3>1. 1 .. i = (1 .. i - 1) \cup {i}
        OBVIOUS
      <3> QED
        BY <3>1 DEF Named
    <2> DEFINE m1 == u[i - 1]
               t1 == v[i - 1]
               seen == Named(i - 1, deltas)
               delta == deltas[i]
    <2>3. InStep(m1, t1, s, m, DOMAIN t, seen)
      BY <1>4
    <2>4. InStep(MergeReduce(m1, delta), MergeReduce(t1, delta), s, m, DOMAIN t, seen \cup DOMAIN delta)
      <3> HIDE DEF m1, t1, seen, delta
      <3> QED
        BY <2>3, OneDeltaFolds
    <2>5. Agree(i)
      BY <2>1, <2>2, <2>4
    <2> QED
      BY <2>5
  <1>5. 0 .. n \subseteq S
    <2> HIDE DEF S
    <2> QED
      BY <1>3, <1>4, UpTo
  <1>6. Agree(n)
    BY <1>5
  <1>7. u[n] \in Snapshots /\ v[n] \in Snapshots
    BY <1>1, <1>2 DEF FoldRuns
  <1> QED
    BY <1>1, <1>2, <1>6, <1>7

-----------------------------------------------------------------------------
(* The order of a cohort *)

\* The order of the scan, and the order in which the rows were written.
ScanBefore(a, b) ==
    \/ row[a].ordinal < row[b].ordinal
    \/ /\ row[a].ordinal = row[b].ordinal
       /\ row[a].depth < row[b].depth \/ (row[a].depth = row[b].depth /\ a < b)
WrittenBefore(a, b) ==
    row[a].ordinal < row[b].ordinal \/ (row[a].ordinal = row[b].ordinal /\ a < b)

First(S) == CHOOSE q \in S : TRUE
ScanOrders(c) ==
    {q \in [1 .. Cardinality(Members(c)) -> Members(c)] :
        \A i, j \in 1 .. Cardinality(Members(c)) : i < j => ScanBefore(q[i], q[j])}
WrittenOrders(c) ==
    {q \in [1 .. Cardinality(Members(c)) -> Members(c)] :
        \A i, j \in 1 .. Cardinality(Members(c)) : i < j => WrittenBefore(q[i], q[j])}

LEMMA OrdersAreFirsts ==
  ASSUME NEW c
  PROVE  /\ Scan(c) = First(ScanOrders(c))
         /\ FoldedInFull(c) = Folded(truth[c], c, Deltas(First(WrittenOrders(c))))
  <1>1. Scan(c) = First(ScanOrders(c))
    BY DEF Scan, InOrder, First, ScanOrders, ScanBefore
  <1>2. FoldedInFull(c) = Folded(truth[c], c, Deltas(First(WrittenOrders(c))))
    BY DEF FoldedInFull, InOrder, First, WrittenOrders, WrittenBefore
  <1> QED
    BY <1>1, <1>2

\* In a cohort the two orders are one.
LEMMA SameOrders ==
  ASSUME RefsInv, NEW c \in Rows
  PROVE  ScanOrders(c) = WrittenOrders(c)
  <1>1. c # 0
    BY RowForm
  <1>2. ASSUME NEW a \in Members(c), NEW b \in Members(c)
        PROVE  ScanBefore(a, b) <=> WrittenBefore(a, b)
    <2>1. /\ a \in Rows /\ b \in Rows /\ row[a].lineage = c /\ row[b].lineage = c
      BY DEF Members
    <2>2. /\ a \in Nat /\ b \in Nat /\ row[a].depth \in Nat /\ row[b].depth \in Nat
      BY <2>1, RowForm
    <2>3. row[a].ordinal = row[b].ordinal /\ a < b => row[a].depth < row[b].depth
      BY <2>1, <1>1 DEF RefsInv, BranchOrder
    <2>4. row[a].ordinal = row[b].ordinal /\ b < a => row[b].depth < row[a].depth
      BY <2>1, <1>1 DEF RefsInv, BranchOrder
    <2>5. CASE a = b
      BY <2>2, <2>5 DEF ScanBefore, WrittenBefore
    <2>6. CASE a # b
      BY <2>2, <2>3, <2>4, <2>6 DEF ScanBefore, WrittenBefore
    <2> QED
      BY <2>5, <2>6
  <1> DEFINE N == 1 .. Cardinality(Members(c))
  <1>3. ASSUME NEW q \in [N -> Members(c)], NEW i \in N, NEW j \in N
        PROVE  ScanBefore(q[i], q[j]) <=> WrittenBefore(q[i], q[j])
    <2>1. q[i] \in Members(c) /\ q[j] \in Members(c)
      OBVIOUS
    <2> QED
      BY <2>1, <1>2
  <1> QED
    BY <1>3 DEF ScanOrders, WrittenOrders

\* Among any rows one was written before the others.
LEMMA FirstWritten ==
  ASSUME RefsInv, NEW S \in SUBSET Rows, S # {}
  PROVE  \E a \in S : \A b \in S \ {a} : WrittenBefore(a, b)
  <1>1. \A r \in S : r \in Nat /\ row[r].ordinal \in Nat
    <2> TAKE r \in S
    <2>1. r \in Rows
      OBVIOUS
    <2> QED
      BY <2>1, RowForm
  <1> DEFINE ordinals == {row[r].ordinal : r \in S}
  <1>2. PICK o \in ordinals : \A p \in ordinals : o <= p
    <2>1. ordinals \subseteq Nat /\ ordinals # {}
      BY <1>1
    <2> HIDE DEF ordinals
    <2> QED
      BY <2>1, SmallestElement
  <1> DEFINE lowest == {r \in S : row[r].ordinal = o}
  <1>3. PICK a \in lowest : \A b \in lowest : a <= b
    <2>1. lowest \subseteq Nat /\ lowest # {}
      BY <1>1
    <2> HIDE DEF lowest
    <2> QED
      BY <2>1, SmallestElement
  <1>4. ASSUME NEW b \in S \ {a} PROVE WrittenBefore(a, b)
    <2>1. row[a].ordinal = o /\ o <= row[b].ordinal
      BY <1>2
    <2>2. row[b].ordinal = o => a <= b /\ a # b
      BY <1>3
    <2>3. a \in Nat /\ b \in Nat /\ o \in Nat /\ row[b].ordinal \in Nat
      BY <1>1, <2>1
    <2> QED
      BY <2>1, <2>2, <2>3 DEF WrittenBefore
  <1> QED
    BY <1>4

\* q lists the n rows of S in the order they were written.
Lists(q, n, S) == q \in [1 .. n -> S] /\ \A i, j \in 1 .. n : i < j => WrittenBefore(q[i], q[j])

LEMMA ListsExist ==
  ASSUME RefsInv, NEW S \in SUBSET Rows
  PROVE  IsFiniteSet(S) /\ Cardinality(S) \in Nat /\ \E q : Lists(q, Cardinality(S), S)
  <1>1. \A T \in SUBSET Rows : IsFiniteSet(T) /\ Cardinality(T) \in Nat
    <2>1. Rows = 1 .. Len(row) /\ Len(row) \in Nat
      BY DEF RefsInv, RefsTyped, Rows
    <2>2. IsFiniteSet(Rows)
      BY <2>1, FS_Interval
    <2> QED
      BY <2>2, FS_Subset, FS_CardinalityType
  <1> DEFINE n == Cardinality(S)
             Done == {k \in 0 .. n : \A T \in SUBSET Rows : Cardinality(T) = k => \E q : Lists(q, k, T)}
  <1>2. 0 \in Done
    <2>1. ASSUME NEW T \in SUBSET Rows, Cardinality(T) = 0 PROVE \E q : Lists(q, 0, T)
      <3>1. [i \in {} |-> i] \in [1 .. 0 -> T]
        OBVIOUS
      <3> QED
        BY <3>1 DEF Lists
    <2> QED
      BY <1>1, <2>1
  <1>3. ASSUME NEW k \in 1 .. n, k - 1 \in Done PROVE k \in Done
    <2> SUFFICES ASSUME NEW T \in SUBSET Rows, Cardinality(T) = k PROVE \E q : Lists(q, k, T)
      OBVIOUS
    <2>1. n \in Nat /\ k \in Nat /\ k # 0
      BY <1>1
    <2>2. T # {}
      BY <2>1, FS_EmptySet
    <2>3. PICK a \in T : \A b \in T \ {a} : WrittenBefore(a, b)
      BY <2>2, FirstWritten
    <2>4. Cardinality(T \ {a}) = k - 1 /\ T \ {a} \in SUBSET Rows
      BY <1>1, FS_RemoveElement
    <2>5. PICK q : Lists(q, k - 1, T \ {a})
      BY <1>3, <2>4
    <2> DEFINE longer == [i \in 1 .. k |-> IF i = 1 THEN a ELSE q[i - 1]]
    <2>6. \A i \in 1 .. k : i # 1 => i - 1 \in 1 .. k - 1 /\ longer[i] = q[i - 1] /\ longer[i] \in T \ {a}
      BY <2>1, <2>5 DEF Lists
    <2>7. 1 \in 1 .. k /\ longer[1] = a
      BY <2>1
    <2>8. longer \in [1 .. k -> T]
      BY <2>6, <2>7
    <2>9. ASSUME NEW i \in 1 .. k, NEW j \in 1 .. k, i < j PROVE WrittenBefore(longer[i], longer[j])
      <3>1. j # 1
        BY <2>9
      <3>2. CASE i = 1
        BY <3>1, <3>2, <2>3, <2>6, <2>7
      <3>3. CASE i # 1
        <4>1. i - 1 < j - 1 /\ i - 1 \in 1 .. k - 1 /\ j - 1 \in 1 .. k - 1
          BY <3>1, <3>3, <2>6, <2>9
        <4>2. WrittenBefore(q[i - 1], q[j - 1])
          BY <4>1, <2>5 DEF Lists
        <4>3. longer[i] = q[i - 1] /\ longer[j] = q[j - 1]
          BY <3>1, <3>3, <2>6
        <4> QED
          BY <4>2, <4>3
      <3> QED
        BY <3>2, <3>3
    <2> HIDE DEF longer
    <2> QED
      BY <2>8, <2>9 DEF Lists
  <1>4. 0 .. n \subseteq Done
    <2>1. n \in Nat
      BY <1>1
    <2> HIDE DEF Done, n
    <2> QED
      BY <1>2, <1>3, <2>1, UpTo
  <1>5. n \in Done
    BY <1>1, <1>4
  <1> QED
    BY <1>1, <1>5

\* The scan lists the cohort in the order its rows were written, and both folds
\* go over the same deltas.
LEMMA ScanLists ==
  ASSUME RefsInv, NEW c \in Rows
  PROVE  /\ Lists(Scan(c), Cardinality(Members(c)), Members(c)) /\ Cardinality(Members(c)) \in Nat
         /\ FoldedInFull(c) = Folded(truth[c], c, Deltas(Scan(c)))
  <1> DEFINE n == Cardinality(Members(c))
  <1>1. Members(c) \in SUBSET Rows
    BY DEF Members
  <1>2. n \in Nat /\ \E q : Lists(q, n, Members(c))
    BY <1>1, ListsExist
  <1>3. \A q : q \in WrittenOrders(c) <=> Lists(q, n, Members(c))
    BY DEF WrittenOrders, Lists
  <1>4. First(WrittenOrders(c)) \in WrittenOrders(c)
    BY <1>2, <1>3 DEF First
  <1>5. Scan(c) = First(WrittenOrders(c)) /\ FoldedInFull(c) = Folded(truth[c], c, Deltas(First(WrittenOrders(c))))
    BY OrdersAreFirsts, SameOrders
  <1> QED
    BY <1>2, <1>3, <1>4, <1>5

-----------------------------------------------------------------------------
(* The fan-in *)

\* The deltas that the scan of the cohort of c finds.
LEMMA DeltasForm ==
  ASSUME RefsInv, NEW c \in Rows, NEW n \in Nat, NEW q, Lists(q, n, Members(c))
  PROVE  /\ Deltas(q) \in [1 .. n -> Snapshots]
         /\ UNION {DOMAIN Deltas(q)[i] : i \in DOMAIN Deltas(q)} = Named(n, Deltas(q))
         /\ Item \notin Named(n, Deltas(q))
  <1>1. DOMAIN q = 1 .. n /\ \A i \in 1 .. n : q[i] \in Rows
    BY DEF Lists, Members
  <1>2. \A r \in Rows : row[r].changes \in Snapshots /\ Item \notin DOMAIN row[r].changes
    BY RowForm
  <1>3. DOMAIN Deltas(q) = 1 .. n /\ \A i \in 1 .. n : Deltas(q)[i] = row[q[i]].changes
    BY <1>1 DEF Deltas
  <1>4. Deltas(q) \in [1 .. n -> Snapshots]
    BY <1>1, <1>2, <1>3 DEF Deltas
  <1> QED
    BY <1>1, <1>2, <1>3, <1>4 DEF Named

\* A cohort is no deeper than the rows there are.
LEMMA DeepestForm ==
  ASSUME RefsInv, NEW s \in Rows, NEW c, row[s].lineage = c
  PROVE  /\ Max({row[r].depth : r \in Members(c)}) \in Nat
         /\ Max({row[r].depth : r \in Members(c)}) <= Len(row)
  <1> DEFINE depths == {row[r].depth : r \in Members(c)}
             L == Len(row)
             room == {L - d : d \in depths}
  <1>1. \A d \in depths : d \in Nat /\ d <= L
    <2> SUFFICES ASSUME NEW r \in Rows PROVE row[r].depth \in Nat /\ row[r].depth <= L
      BY DEF Members
    <2>1. row[r].depth \in Nat /\ Rows = 1 .. L /\ L \in Nat
      BY RowForm
    <2>2. row[r].depth <= r
      BY DEF RefsInv, DepthBounded
    <2> QED
      BY <2>1, <2>2
  <1>2. depths # {}
    BY DEF Members
  <1>3. L \in Nat
    BY RowForm
  <1> HIDE DEF depths, L
  <1>4. PICK x \in room : \A y \in room : x <= y
    <2>1. room \subseteq Nat /\ room # {}
      BY <1>1, <1>2, <1>3
    <2> HIDE DEF room
    <2> QED
      BY <2>1, SmallestElement
  <1>5. PICK d \in depths : x = L - d
    BY <1>4
  <1>6. \A e \in depths : d >= e
    BY <1>1, <1>3, <1>4, <1>5
  <1>7. Max(depths) \in depths
    BY <1>6 DEF Max
  <1> QED
    BY <1>1, <1>7 DEF depths, L

\* The fold without the element.
LEMMA FoldedForm ==
  ASSUME NEW base, NEW c, NEW deltas,
         MergeReduceAll(MergeReduce(base, row[c].changes), deltas) \in Snapshots
  PROVE  /\ Folded(base, c, deltas) \in Snapshots /\ Enacted(Folded(base, c, deltas))
         /\ KeptOf(MergeReduceAll(MergeReduce(base, row[c].changes), deltas), {Item}, Folded(base, c, deltas))
         /\ Item \notin DOMAIN Folded(base, c, deltas)
  <1> DEFINE m == MergeReduceAll(MergeReduce(base, row[c].changes), deltas)
             merged == DelNils(m)
             kept == DOMAIN merged \ {Item}
             f == Restrict(merged, kept)
  <1>1. Folded(base, c, deltas) = f
    BY DEF Folded
  <1>2. /\ DOMAIN merged = {k \in DOMAIN m : m[k] # Deleted}
        /\ \A k \in DOMAIN merged : merged[k] = m[k]
        /\ merged \in Snapshots
    BY DelNilsForm
  <1> HIDE DEF merged
  <1>3. kept \subseteq DOMAIN merged
    OBVIOUS
  <1>4. /\ DOMAIN f = kept
        /\ \A k \in kept : f[k] = merged[k]
        /\ f \in Snapshots
    BY <1>2, <1>3, RestrictForm
  <1> HIDE DEF f, m
  <1>5. KeptOf(m, {Item}, f)
    BY <1>2, <1>4 DEF KeptOf
  <1>6. Enacted(f)
    BY <1>2, <1>4 DEF Enacted
  <1> QED
    BY <1>1, <1>4, <1>5, <1>6 DEF m

\* What the fan-in of the cohort of c inserts may be minted against c.
LEMMA FanInMintable ==
  ASSUME RefsInv, NEW c \in Rows, row[c].lineage = 0,
         NEW n \in Nat, NEW q, Lists(q, n, Members(c))
  PROVE  /\ Folded(ResolveReduced(c), c, Deltas(q)) \in Snapshots
         /\ Folded(truth[c], c, Deltas(q)) \in Snapshots /\ Enacted(Folded(truth[c], c, Deltas(q)))
         /\ Item \notin DOMAIN Folded(truth[c], c, Deltas(q))
         /\ Mintable(Folded(ResolveReduced(c), c, Deltas(q)), row[c].changes, row[c].refs, c,
                     Named(n, Deltas(q)) \cup CombinedReducerFields(ResolveReduced(c), row[c].changes),
                     Folded(truth[c], c, Deltas(q)))
  <1> DEFINE base == ResolveReduced(c)
             changes == row[c].changes
             deltas == Deltas(q)
             m0 == MergeReduce(base, changes)
             t0 == MergeReduce(truth[c], changes)
             m == MergeReduceAll(m0, deltas)
             t == MergeReduceAll(t0, deltas)
             merged == Folded(base, c, deltas)
             full == Folded(truth[c], c, deltas)
             seen == Named(n, deltas)
  <1>1. deltas \in [1 .. n -> Snapshots]
    BY DeltasForm
  <1>2. base \in Snapshots /\ truth[c] \in Snapshots /\ changes \in Snapshots
    BY RowForm, ResolveReducedReads
  <1>3. m0 \in Snapshots /\ t0 \in Snapshots
    BY <1>2, MergeReduceForm
  <1>4. Follows(m0, t0, c)
    BY ResolvedFollows, FoldFollows
  <1>5. /\ m \in Snapshots /\ t \in Snapshots
        /\ InStep(m, t, c, m0, DOMAIN t0, seen)
    <2> HIDE DEF m0, t0, deltas
    <2> QED
      BY <1>1, <1>3, <1>4, CohortFolds
  <1>6. merged \in Snapshots /\ KeptOf(m, {Item}, merged)
    BY <1>5, FoldedForm
  <1>7. /\ full \in Snapshots /\ Enacted(full) /\ KeptOf(t, {Item}, full) /\ Item \notin DOMAIN full
    BY <1>5, FoldedForm
  <1>8. {Item} \cap DOMAIN row[c].refs = {}
    <2>1. Item \notin DOMAIN truth[c]
      BY DEF RefsInv, ElementInBranches
    <2> QED
      BY <2>1, TruthForm
  <1>9. DOMAIN t \subseteq Fields
    BY <1>5, SnapshotForm
  <1>10. Follows(m, t, c) /\ Untouched(m, MergeReduce(ResolveReduced(c), row[c].changes), seen)
    BY <1>5 DEF InStep
  <1>11. Mintable(merged, row[c].changes, row[c].refs, c,
                  seen \cup CombinedReducerFields(ResolveReduced(c), row[c].changes), full)
    <2> HIDE DEF m, t, merged, full, seen
    <2> QED
      BY <1>6, <1>7, <1>8, <1>9, <1>10, FoldMintable
  <1> QED
    BY <1>6, <1>7, <1>11

LEMMA ArriveFanInKeeps ==
  ASSUME RefsInv, NEW s \in Rows, ArriveFanIn(s)
  PROVE  RefsInv'
  <1> DEFINE c == row[s].lineage
             q == Scan(c)
             n == Cardinality(Members(c))
             base == ResolveReduced(c)
             merged == Folded(base, c, Deltas(q))
             full == Folded(truth[c], c, Deltas(q))
             inlineOnly == Named(n, Deltas(q)) \cup CombinedReducerFields(base, row[c].changes)
             depth == Max({row[r].depth : r \in Members(c)}) + 1
  <1>1. row[s].phase = "completed" /\ c # 0
    BY DEF ArriveFanIn
  <1>2. Moved(row, c) /\ row[c].lineage = 0 /\ c \in Rows
    BY <1>1 DEF RefsInv, CohortsSpawned, Moved, Rows
  <1>3. CASE Cardinality(Arrived(c)) + 1 < Width
    <2> DEFINE none == <<>>
    <2>1. Insert(s, "arrived", none, none)
      BY <1>3 DEF ArriveFanIn
    <2>2. none \in Seq(StepRow) /\ none \in Seq(Snapshots) /\ Len(none) = 0
      OBVIOUS
    <2>3. \A i \in 1 .. Len(none) : Fits(s, "arrived", none[i], none[i])
      BY <2>2
    <2>4. \A i, j \in 1 .. Len(none) : i # j => none[i].ordinal # none[j].ordinal
      BY <2>2
    <2> HIDE DEF none
    <2> QED
      BY <1>1, <2>1, <2>2, <2>3, <2>4, InsertKeeps
  <1>4. CASE ~(Cardinality(Arrived(c)) + 1 < Width)
    <2>1. /\ n \in Nat /\ Lists(q, n, Members(c))
          /\ FoldedInFull(c) = full
      BY <1>2, ScanLists
    <2>2. UNION {DOMAIN Deltas(q)[i] : i \in DOMAIN Deltas(q)} = Named(n, Deltas(q))
      <3> HIDE DEF q, n, c
      <3> QED
        BY <1>2, <2>1, DeltasForm
    <2>3. \E mint \in Mint(merged, row[c].changes, row[c].refs, c,
                           (UNION {DOMAIN Deltas(q)[i] : i \in DOMAIN Deltas(q)})
                             \cup CombinedReducerFields(base, row[c].changes)) :
            Insert(s, "arrived", <<NewRow(mint, 0, row[c].ordinal, depth)>>, <<FoldedInFull(c)>>)
      BY <1>4 DEF ArriveFanIn
    <2>4. PICK mint \in Mint(merged, row[c].changes, row[c].refs, c, inlineOnly) :
            Insert(s, "arrived", <<NewRow(mint, 0, row[c].ordinal, depth)>>, <<full>>)
      BY <2>1, <2>2, <2>3
    <2>5. /\ merged \in Snapshots /\ full \in Snapshots /\ Enacted(full) /\ Item \notin DOMAIN full
          /\ Mintable(merged, row[c].changes, row[c].refs, c, inlineOnly, full)
      <3> HIDE DEF q, n, c
      <3> QED
        BY <1>2, <2>1, FanInMintable
    <2>6. depth \in Nat /\ depth <= Len(row) + 1
      <3>1. Max({row[r].depth : r \in Members(c)}) \in Nat /\ Max({row[r].depth : r \in Members(c)}) <= Len(row)
        <4> DEFINE p == c
        <4>1. row[s].lineage = p
          OBVIOUS
        <4> HIDE DEF p
        <4>2. Max({row[r].depth : r \in Members(p)}) \in Nat /\ Max({row[r].depth : r \in Members(p)}) <= Len(row)
          BY <4>1, DeepestForm
        <4> QED
          BY <4>2 DEF p
      <3>2. Len(row) \in Nat
        BY RowForm
      <3> QED
        BY <3>1, <3>2
    <2> HIDE DEF c, q, n, base, merged, full, inlineOnly, depth
    <2>7. c \in Nat /\ row[c].refs \in References /\ row[c].ordinal \in Nat
      <3>1. c \in Nat
        BY <1>2, RowForm
      <3> QED
        BY <3>1, <1>2, RowForm
    <2>8. MintedFrom(mint, row[c].refs, c, full)
      BY <2>4, <2>5, <2>7, MintAssembles
    <2>9. Placed(s, "arrived", 0, row[c].ordinal, depth, full)
      BY <2>5, <2>6, <2>7 DEF Placed
    <2> DEFINE new == NewRow(mint, 0, row[c].ordinal, depth)
    <2>10. Fits(s, "arrived", new, full) /\ new \in StepRow
      <3>1. Keeps(s, "arrived", c)
        BY <1>2 DEF Keeps
      <3> QED
        BY <1>2, <2>5, <2>8, <2>9, <3>1, NewRowFits
    <2>11. Insert(s, "arrived", <<new>>, <<full>>)
      BY <2>4
    <2> HIDE DEF new
    <2> QED
      BY <1>1, <2>5, <2>10, <2>11, InsertOneKeeps
  <1> QED
    BY <1>3, <1>4

-----------------------------------------------------------------------------
(* The theorem *)

\* RefsInv is inductive.
LEMMA RefsStepKeeps ==
  ASSUME RefsInv, [RefsNext]_refsVars
  PROVE  RefsInv'
  <1>1. CASE UNCHANGED refsVars
    BY <1>1 DEF refsVars, RefsInv, RefsTyped, AnchorsMoved, HeldOrReferenced, CacheStored, RowsAssemble,
                CohortsSpawned, ElementInBranches, BranchOrder, DepthBounded, Rows, Moved, Stored, Assembled
  <1>2. CASE RefsNext
    <2>1. PICK s \in Rows : \/ Execute(s) \/ Rewind(s) \/ Advance(s)
                            \/ FanOut(s) \/ ArriveFanIn(s) \/ FireFanInDirect(s)
      BY <1>2 DEF RefsNext
    <2> QED
      BY <2>1, ExecuteKeeps, RewindKeeps, AdvanceKeeps, FanOutKeeps, ArriveFanInKeeps, FireFanInDirectKeeps
  <1> QED
    BY <1>1, <1>2

\* A flow that is not created with the forEach alias keeps the invariant.
THEOREM StateRefsInvariant ==
  Item \notin Initial => (RefsSpec => []RefsInv)
  <1> SUFFICES ASSUME Item \notin Initial PROVE RefsSpec => []RefsInv
    OBVIOUS
  <1>1. RefsInit => RefsInv
    BY RefsInitInv
  <1>2. RefsInv /\ [RefsNext]_refsVars => RefsInv'
    BY RefsStepKeeps
  <1> QED
    BY <1>1, <1>2, PTL DEF RefsSpec

\* Whatever was referenced, carried, rewritten, deleted, folded, inlined or cached
\* on the way, every step is handed the state it would be handed if every row held
\* every field, in a flow that is not created with the forEach alias.
THEOREM StateStaysWhole ==
  Item \notin Initial => (RefsSpec => []StateIsWhole)
  <1> SUFFICES ASSUME Item \notin Initial PROVE RefsSpec => []StateIsWhole
    OBVIOUS
  <1>1. RefsInv => StateIsWhole
    BY ResolveAllReads DEF StateIsWhole
  <1> QED
    BY <1>1, StateRefsInvariant, PTL
=============================================================================
