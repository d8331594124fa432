---------------------------- MODULE CohortProofs ----------------------------
(***************************************************************************)
(* Proofs about Cohort, for every number of rows, every width of a fan-out *)
(* and every depth of nesting: the counters on a spawn row are exact, so a *)
(* cohort resolves once and only when every branch has reported, its fan-  *)
(* in runs once and after all of them, and the flow stops with nothing     *)
(* left to run and with the outcome its losses deserve.                    *)
(*                                                                         *)
(* And about Cancel, which adds the watermark and the mark to the same     *)
(* rows: every path of the flow is told of a cancellation once.            *)
(***************************************************************************)
EXTENDS Cancel, FiniteSetTheorems, WellFoundedInduction, TLAPS

Running == flow \notin TerminalFlow

\* The branches a cohort waits for; those of the trunk are cohort 0.
Waiting(c) == {m \in Members(c) : Outstanding(m)}

\* A cohort that lost a branch to an error, and not to cancellation only.
Tainted(c) == cancels[c] # failures[c]

\* Rows that are not inserted yet count nothing.
BlankRows ==
    \A r \in Steps \ Rows :
        size[r] = 0 /\ arrivals[r] = 0 /\ failures[r] = 0 /\ cancels[r] = 0 /\ ~moved[r]

\* A step that moved on is completed, and a spawn has moved on.
RowShape ==
    \A r \in Rows :
        /\ status[r] # "none"
        /\ moved[r] => status[r] = "completed"
        /\ size[r] > 0 => moved[r]
        /\ size[r] = 0 => arrivals[r] = 0 /\ failures[r] = 0 /\ cancels[r] = 0
        /\ cancels[r] <= failures[r]
        /\ joins[r] # 0 => joins[r] \in Rows /\ moved[joins[r]]

\* The lineage chain of a row: its frames are older spawns, one inside the
\* other, and its own cohort is the youngest of them.
FrameShape ==
    \A m \in Rows :
        /\ lineage[m] = 0 => frames[m] = {}
        /\ lineage[m] # 0 => lineage[m] \in frames[m] /\ \A q \in frames[m] : q <= lineage[m]
        /\ \A q \in frames[m] :
              /\ q \in Rows /\ q < m /\ size[q] > 0
              /\ \A r \in Rows : r \in frames[q] <=> r \in frames[m] /\ r < q

\* While the flow runs its trunk is at one place.
TrunkExact == Running => Cardinality(Waiting(0)) = 1

\* While the flow runs every loss is counted in the cohort it happened in, and
\* in the one above as soon as that cohort has resolved.
LossesCounted ==
    Running =>
        /\ \A m \in Rows : status[m] # "terminated"
        /\ \A m \in Rows : status[m] \in {"failed", "cancelled"} =>
              lineage[m] # 0 /\ failures[lineage[m]] > 0
        /\ \A m \in Rows : status[m] = "failed" => Tainted(lineage[m])
        /\ \A c \in Rows : size[c] > 0 /\ ~Open(c) /\ failures[c] > 0 =>
              lineage[c] # 0 /\ failures[lineage[c]] > 0
        /\ \A c \in Rows : size[c] > 0 /\ ~Open(c) /\ Tainted(c) => Tainted(lineage[c])
        /\ \A c \in Rows : Tainted(c) => \E m \in Rows : status[m] = "failed"

\* The row that the bound leaves for the fan-in of every open cohort is there.
RoomLeft == last + Cardinality({c \in Rows : Open(c)}) <= MaxSteps

IInv ==
    /\ TypeOK
    /\ BlankRows
    /\ RowShape
    /\ FrameShape
    /\ RoomLeft
    /\ CountersExact
    /\ TrunkExact
    /\ LossesCounted
    /\ FanInIsSound
    /\ FlowStopsQuiet
    /\ CancelledIsPure

-----------------------------------------------------------------------------
(* Numbers and finite sets *)

\* Every non-empty set of naturals has a smallest element: the argument that
\* walks up a lineage chain.
LEMMA SmallestElement ==
  ASSUME NEW S, S \subseteq Nat, S # {}
  PROVE  \E x \in S : \A y \in S : x <= y
  <1> DEFINE Below == {S \cap (0 .. x) : x \in S}
  <1>1. ASSUME NEW x \in Nat PROVE IsFiniteSet(S \cap (0 .. x))
    <2>1. IsFiniteSet(0 .. x)
      BY FS_Interval
    <2>2. S \cap (0 .. x) \in SUBSET (0 .. x)
      OBVIOUS
    <2> QED
      BY <2>1, <2>2, FS_Subset
  <1>2. Below \subseteq FiniteSubsetsOf(Nat) /\ Below # {}
    BY <1>1 DEF FiniteSubsetsOf
  <1>3. PICK T \in Below : \A U \in Below : <<U, T>> \notin StrictSubsetOrdering(Nat)
    <2> HIDE DEF Below
    <2> QED
      BY <1>2, FS_StrictSubsetOrderingWellFounded, WFMin
  <1>4. PICK x \in S : T = S \cap (0 .. x)
    BY <1>3
  <1>5. ASSUME NEW y \in S, y < x PROVE FALSE
    <2> DEFINE U == S \cap (0 .. y)
    <2>1. U \in Below /\ U \subseteq T /\ x \in T /\ x \notin U
      BY <1>4, <1>5
    <2>2. U \in SUBSET Nat /\ T \in SUBSET Nat
      BY <1>4
    <2> QED
      BY <1>3, <2>1, <2>2 DEF StrictSubsetOrdering
  <1> QED
    BY <1>5

\* ... and a bounded one a largest: the walk down to the youngest spawn.
LEMMA LargestElement ==
  ASSUME NEW S, NEW n \in Nat, S \subseteq 0 .. n, S # {}
  PROVE  \E x \in S : \A y \in S : y <= x
  <1> DEFINE M == {k \in 0 .. n : n - k \in S}
  <1>1. M \subseteq Nat /\ M # {}
    <2>1. PICK x \in S : TRUE
      OBVIOUS
    <2>2. n - x \in 0 .. n /\ n - (n - x) = x
      BY <2>1
    <2>3. n - x \in M
      BY <2>2
    <2>4. M \subseteq Nat
      OBVIOUS
    <2> HIDE DEF M
    <2> QED
      BY <2>3, <2>4
  <1>2. PICK k \in M : \A j \in M : k <= j
    <2> HIDE DEF M
    <2> QED
      BY <1>1, SmallestElement
  <1>3. ASSUME NEW y \in S PROVE y <= n - k
    <2>1. n - y \in 0 .. n /\ n - (n - y) = y
      BY <1>3
    <2>2. n - y \in M
      BY <2>1
    <2> QED
      BY <1>2, <2>2
  <1> QED
    BY <1>2, <1>3

\* The sets of rows are finite.
LEMMA RowsFinite ==
  ASSUME TypeOK, NEW S \in SUBSET Rows
  PROVE  IsFiniteSet(S) /\ Cardinality(S) \in Nat
  <1>1. IsFiniteSet(1 .. last)
    BY FS_Interval, CohortStepsAssumption DEF TypeOK, Steps
  <1> QED
    BY <1>1, FS_Subset, FS_CardinalityType DEF Rows

-----------------------------------------------------------------------------
(* Lineage chains *)

\* Row numbers are numbers.
LEMMA RowsAreNumbers ==
  ASSUME TypeOK
  PROVE  /\ last \in Nat /\ last > 0
         /\ \A r \in Rows : r \in Nat /\ r > 0 /\ r \in Steps
  BY CohortStepsAssumption DEF TypeOK, Rows, Steps

\* The chain of a cohort is the cohort and its frames, older spawns all, each
\* with the elements below it as its own frames.
LEMMA ChainShape ==
  ASSUME TypeOK, FrameShape, NEW c \in Rows
  PROVE  /\ c \in Chain(c)
         /\ \A q \in Chain(c) : q \in Rows /\ q \in Nat /\ q <= c /\ frames[q] \subseteq Rows
         /\ \A q \in Chain(c), r \in Rows : r \in frames[q] <=> r \in Chain(c) /\ r < q
  <1>1. c \in Nat /\ c > 0
    BY RowsAreNumbers
  <1>2. \A r : r \in Chain(c) <=> r = c \/ r \in frames[c]
    BY <1>1 DEF Chain
  <1>3. \A q \in frames[c] : q \in Rows /\ q \in Nat /\ q < c
    BY RowsAreNumbers DEF FrameShape
  <1>4. \A q \in Rows : frames[q] \subseteq Rows
    BY DEF FrameShape
  <1>5. ASSUME NEW q \in Chain(c)
        PROVE  q \in Rows /\ q \in Nat /\ q <= c /\ frames[q] \subseteq Rows
    BY <1>1, <1>2, <1>3, <1>4
  <1>6. ASSUME NEW q \in frames[c], NEW r \in Rows
        PROVE  r \in frames[q] <=> r \in Chain(c) /\ r < q
    <2>1. r \in frames[q] <=> r \in frames[c] /\ r < q
      BY <1>6 DEF FrameShape
    <2>2. r = c => ~(r < q)
      BY <1>1, <1>3, <1>6
    <2> QED
      BY <1>2, <2>1, <2>2
  <1>7. ASSUME NEW r \in Rows
        PROVE  r \in frames[c] <=> r \in Chain(c) /\ r < c
    BY <1>1, <1>2, <1>3, <1>7
  <1> QED
    BY <1>2, <1>5, <1>6, <1>7

\* The element above r in a chain is the member of cohort r through which the
\* chain runs.
LEMMA NextInChain ==
  ASSUME TypeOK, FrameShape, NEW c \in Rows, NEW r \in Chain(c), r # c
  PROVE  \E q \in Chain(c) : lineage[q] = r /\ r < q /\ \A x \in Chain(c) : x > r => x >= q
  <1>1. /\ c \in Chain(c)
        /\ \A q \in Chain(c) : q \in Rows /\ q \in Nat /\ q <= c /\ frames[q] \subseteq Rows
        /\ \A q \in Chain(c), x \in Rows : x \in frames[q] <=> x \in Chain(c) /\ x < q
    BY ChainShape
  <1> DEFINE Above == {x \in Chain(c) : x > r}
  <1>2. Above \subseteq Nat /\ Above # {}
    <2>1. c \in Nat /\ r \in Nat /\ c > r
      BY <1>1
    <2>2. c \in Above
      BY <1>1, <2>1
    <2>3. Above \subseteq Nat
      BY <1>1
    <2> HIDE DEF Above
    <2> QED
      BY <2>2, <2>3
  <1>3. PICK q \in Above : \A x \in Above : q <= x
    <2> HIDE DEF Above
    <2> QED
      BY <1>2, SmallestElement
  <1>4. q \in Chain(c) /\ q \in Rows /\ q \in Nat /\ r < q /\ r \in Rows /\ r \in Nat
    BY <1>1, <1>3
  <1>5. r \in frames[q]
    BY <1>1, <1>4
  <1>6. lineage[q] # 0 /\ lineage[q] \in frames[q] /\ r <= lineage[q]
    BY <1>4, <1>5 DEF FrameShape
  <1>7. lineage[q] \in Rows
    BY <1>1, <1>4, <1>6
  <1>8. lineage[q] \in Chain(c) /\ lineage[q] < q /\ lineage[q] \in Nat
    BY <1>1, <1>4, <1>6, <1>7
  <1>9. lineage[q] > r => q <= lineage[q]
    BY <1>3, <1>8
  <1>10. lineage[q] = r
    BY <1>4, <1>6, <1>8, <1>9
  <1> QED
    BY <1>3, <1>4, <1>10

\* The other way: what a chain element is a member of is the next one down.
LEMMA LineageInChain ==
  ASSUME TypeOK, FrameShape, NEW c \in Rows, NEW q \in Chain(c), lineage[q] # 0
  PROVE  /\ lineage[q] \in Chain(c) /\ lineage[q] < q
         /\ \A x \in Chain(c) : x > lineage[q] => x >= q
  <1>1. /\ \A x \in Chain(c) : x \in Rows /\ x \in Nat /\ x <= c /\ frames[x] \subseteq Rows
        /\ \A x \in Chain(c), y \in Rows : y \in frames[x] <=> y \in Chain(c) /\ y < x
    BY ChainShape
  <1>2. lineage[q] \in frames[q] /\ \A x \in frames[q] : x <= lineage[q]
    BY <1>1 DEF FrameShape
  <1>3. lineage[q] \in Rows /\ lineage[q] \in Chain(c) /\ lineage[q] < q /\ lineage[q] \in Nat /\ q \in Nat
    BY <1>1, <1>2
  <1>4. ASSUME NEW x \in Chain(c), x > lineage[q] PROVE x >= q
    <2>1. x \in Rows /\ x \in Nat
      BY <1>1
    <2>2. x \notin frames[q]
      BY <1>2, <1>3, <1>4, <2>1
    <2> QED
      BY <1>1, <1>3, <2>1, <2>2
  <1> QED
    BY <1>3, <1>4

\* The frames of a row are the chain of its cohort.
LEMMA FramesAreChain ==
  ASSUME TypeOK, FrameShape, NEW m \in Rows
  PROVE  /\ Chain(lineage[m]) = frames[m]
         /\ lineage[m] # 0 => lineage[m] \in Rows /\ lineage[m] < m /\ size[lineage[m]] > 0
  <1>1. CASE lineage[m] = 0
    BY <1>1 DEF FrameShape, Chain
  <1>2. CASE lineage[m] # 0
    <2>1. /\ lineage[m] \in frames[m] /\ \A q \in frames[m] : q <= lineage[m]
          /\ \A q \in frames[m] : q \in Rows /\ q < m /\ size[q] > 0
      BY <1>2 DEF FrameShape
    <2>2. \A r \in Rows : r \in frames[lineage[m]] <=> r \in frames[m] /\ r < lineage[m]
      BY <2>1 DEF FrameShape
    <2>3. frames[lineage[m]] \subseteq Rows
      BY <2>1 DEF FrameShape
    <2>4. ASSUME NEW r \in Rows PROVE r \in {lineage[m]} \cup frames[lineage[m]] <=> r \in frames[m]
      <3>1. r \in Nat /\ lineage[m] \in Nat
        BY <2>1, RowsAreNumbers
      <3> QED
        BY <2>1, <2>2, <3>1
    <2>5. {lineage[m]} \cup frames[lineage[m]] = frames[m]
      BY <2>1, <2>3, <2>4
    <2> QED
      BY <1>2, <2>1, <2>5 DEF Chain
  <1> QED
    BY <1>1, <1>2

\* A set of rows that holds, with every row, the cohort it belongs to, holds
\* all the spawns up its lineage.
LEMMA ClosedUpwards ==
  ASSUME TypeOK, FrameShape, NEW Out \in SUBSET Rows,
         \A m \in Out : lineage[m] # 0 => lineage[m] \in Out,
         NEW m \in Out
  PROVE  frames[m] \subseteq Out
  <1> DEFINE Bad == {r \in frames[m] : r \notin Out}
  <1> SUFFICES ASSUME Bad # {} PROVE FALSE
    OBVIOUS
  <1>1. last \in Nat /\ Bad \subseteq 0 .. last
    <2>1. \A r \in frames[m] : r \in Rows
      BY DEF FrameShape
    <2> QED
      BY <2>1, RowsAreNumbers DEF Rows
  <1>2. PICK r \in Bad : \A y \in Bad : y <= r
    <2> HIDE DEF Bad
    <2> QED
      BY <1>1, LargestElement
  <1>3. /\ Chain(lineage[m]) = frames[m]
        /\ lineage[m] # 0 => lineage[m] \in Rows
    BY FramesAreChain
  <1>4. lineage[m] # 0
    BY <1>2, <1>3 DEF Chain
  <1>5. r # lineage[m]
    BY <1>2, <1>4
  <1>6. PICK q \in Chain(lineage[m]) : lineage[q] = r /\ r < q
    BY <1>2, <1>3, <1>4, <1>5, NextInChain
  <1>7. q \in Rows /\ q \in Nat /\ r \in Nat /\ r # 0
    BY <1>2, <1>3, <1>4, <1>6, ChainShape, RowsAreNumbers
  <1>8. q \in Out
    BY <1>2, <1>3, <1>6, <1>7
  <1> QED
    BY <1>2, <1>6, <1>7, <1>8

\* ... and, if it holds anything, a row of the trunk.
LEMMA TrunkIsLast ==
  ASSUME TypeOK, FrameShape, NEW Out \in SUBSET Rows, Out # {},
         \A m \in Out : lineage[m] # 0 => lineage[m] \in Out
  PROVE  \E m \in Out : lineage[m] = 0
  <1>1. Out \subseteq Nat
    BY RowsAreNumbers
  <1>2. PICK m \in Out : \A y \in Out : m <= y
    BY <1>1, SmallestElement
  <1>3. lineage[m] # 0 => lineage[m] < m
    BY FramesAreChain
  <1>4. lineage[m] # 0 => lineage[m] \in Nat /\ m \in Nat
    BY <1>1
  <1> QED
    BY <1>2, <1>3, <1>4

\* The rows that cease to be outstanding when the loss of x climbs: x, and the
\* cohorts it resolves on its way.
Lost(x) == {x} \cup {q \in Charged(lineage[x]) : Resolving(q)}

\* The loss charges every cohort on its way once, for one lost member of it,
\* and reaches the trunk exactly when it fails the flow.
LEMMA LossClimbs ==
  ASSUME TypeOK, FrameShape, NEW x \in Rows
  PROVE  /\ Lost(x) \subseteq Rows
         /\ \A q \in Charged(lineage[x]) : q \in frames[x] /\ q \in Rows /\ q < x
         /\ \A m \in Lost(x) : lineage[m] # 0 => lineage[m] \in Charged(lineage[x])
         /\ \A r \in Charged(lineage[x]) : \E m \in Lost(x) : lineage[m] = r
         /\ \A m, n \in Lost(x) : lineage[m] = lineage[n] => m = n
         /\ FailsFlow(lineage[x]) <=> \E m \in Lost(x) : lineage[m] = 0
  <1> DEFINE b == lineage[x]
  <1>1. Chain(b) = frames[x] /\ (b # 0 => b \in Rows /\ b < x)
    BY FramesAreChain
  <1>2. Charged(b) \subseteq Chain(b)
    BY DEF Charged
  <1>3. \A q \in frames[x] : q \in Rows /\ q < x
    BY DEF FrameShape
  <1>4. Lost(x) \subseteq Rows
    BY <1>1, <1>2, <1>3 DEF Lost
  <1>5. \A q \in Charged(b) : q \in frames[x] /\ q \in Rows /\ q < x
    BY <1>1, <1>2, <1>3
  <1>6. CASE b = 0
    <2>1. Chain(b) = {}
      BY <1>6 DEF Chain
    <2>2. Charged(b) = {}
      BY <1>2, <2>1
    <2>3. Lost(x) = {x}
      BY <2>2 DEF Lost
    <2>4. FailsFlow(b)
      BY <2>1 DEF FailsFlow
    <2> QED
      BY <1>4, <1>6, <2>2, <2>3, <2>4
  <1>7. CASE b # 0
    <2>0. b \in Rows
      BY <1>1, <1>7
    <2>1. \A q \in Chain(b) : q \in Rows /\ q \in Nat /\ q <= b
      BY <2>0, ChainShape
    <2>2. b \in Charged(b)
      <3>1. b \in Chain(b)
        BY <2>0, ChainShape
      <3>2. \A q \in Chain(b) : ~(q > b)
        BY <2>1, <3>1
      <3> QED
        BY <3>1, <3>2 DEF Charged
    <2>3. ASSUME NEW q \in Charged(b), Resolving(q), lineage[q] # 0 PROVE lineage[q] \in Charged(b)
      <3>1. q \in Chain(b)
        BY <1>2
      <3>2. /\ lineage[q] \in Chain(b) /\ lineage[q] < q
            /\ \A y \in Chain(b) : y > lineage[q] => y >= q
        BY <2>0, <2>3, <3>1, LineageInChain
      <3>3. ASSUME NEW y \in Chain(b), y > lineage[q] PROVE Resolving(y)
        <4>1. y \in Nat /\ q \in Nat /\ y >= q
          BY <2>1, <3>1, <3>2, <3>3
        <4> QED
          BY <2>3, <4>1, <3>3 DEF Charged
      <3> QED
        BY <3>2, <3>3 DEF Charged
    <2>4. ASSUME NEW m \in Lost(x), lineage[m] # 0 PROVE lineage[m] \in Charged(b)
      BY <2>2, <2>3, <2>4 DEF Lost
    <2>5. ASSUME NEW r \in Charged(b) PROVE \E m \in Lost(x) : lineage[m] = r
      <3>1. CASE r = b
        BY <3>1 DEF Lost
      <3>2. CASE r # b
        <4>1. r \in Chain(b)
          BY <1>2
        <4>2. PICK q \in Chain(b) : lineage[q] = r /\ r < q /\ \A y \in Chain(b) : y > r => y >= q
          BY <2>0, <3>2, <4>1, NextInChain
        <4>3. r \in Nat /\ q \in Nat
          BY <2>1, <4>1, <4>2
        <4>4. Resolving(q)
          BY <2>5, <4>2, <4>3 DEF Charged
        <4>5. \A y \in Chain(b) : y > q => Resolving(y)
          <5>1. ASSUME NEW y \in Chain(b), y > q PROVE y > r
            BY <2>1, <4>2, <4>3, <5>1
          <5> QED
            BY <5>1, <2>5 DEF Charged
        <4>6. q \in Lost(x)
          BY <4>2, <4>4, <4>5 DEF Charged, Lost
        <4> QED
          BY <4>2, <4>6
      <3> QED
        BY <3>1, <3>2
    <2>6. ASSUME NEW q \in Chain(b), NEW n \in Chain(b), lineage[q] = lineage[n], q < n PROVE FALSE
      <3>1. q \in Nat /\ n \in Nat /\ q \in Rows /\ n \in Rows
        BY <2>1
      <3>2. q \in frames[n]
        BY <2>0, <2>6, <3>1, ChainShape
      <3>3. lineage[n] # 0 /\ q <= lineage[n]
        BY <3>1, <3>2 DEF FrameShape
      <3>4. lineage[q] \in Chain(b) /\ lineage[q] < q
        BY <2>0, <2>6, <3>3, LineageInChain
      <3>5. lineage[q] \in Nat
        BY <2>1, <3>4
      <3> QED
        BY <2>6, <3>1, <3>3, <3>4, <3>5
    <2>7. ASSUME NEW q \in Chain(b) PROVE lineage[q] # b /\ q # x
      <3>1. q \in Nat /\ b \in Nat /\ x \in Nat /\ q <= b /\ b < x
        BY <1>1, <2>0, <2>1, RowsAreNumbers
      <3>2. lineage[q] # 0 => lineage[q] < q /\ lineage[q] \in Nat
        BY <2>0, <2>1, LineageInChain
      <3> QED
        BY <1>7, <3>1, <3>2
    <2>8. ASSUME NEW m \in Lost(x), NEW n \in Lost(x), lineage[m] = lineage[n] PROVE m = n
      <3>1. CASE m = x \/ n = x
        BY <1>2, <2>7, <2>8, <3>1 DEF Lost
      <3>2. CASE m # x /\ n # x
        <4>1. m \in Chain(b) /\ n \in Chain(b)
          BY <1>2, <3>2 DEF Lost
        <4>2. ~(m < n) /\ ~(n < m) /\ m \in Nat /\ n \in Nat
          BY <2>1, <2>6, <2>8, <4>1
        <4> QED
          BY <4>2
      <3> QED
        BY <3>1, <3>2
    <2>9. ASSUME FailsFlow(b) PROVE \E m \in Lost(x) : lineage[m] = 0
      <3>1. Chain(b) \subseteq Nat /\ Chain(b) # {}
        BY <1>2, <2>1, <2>2
      <3>2. PICK q \in Chain(b) : \A y \in Chain(b) : q <= y
        BY <3>1, SmallestElement
      <3>3. lineage[q] = 0
        <4>1. lineage[q] # 0 => lineage[q] \in Chain(b) /\ lineage[q] < q
          BY <2>0, LineageInChain
        <4>2. q \in Nat /\ (lineage[q] # 0 => lineage[q] \in Nat)
          BY <2>1, <4>1
        <4> QED
          BY <3>2, <4>1, <4>2
      <3>4. q \in Lost(x)
        BY <2>9 DEF FailsFlow, Charged, Lost
      <3> QED
        BY <3>3, <3>4
    <2>10. ASSUME NEW m \in Lost(x), lineage[m] = 0 PROVE FailsFlow(b)
      <3>1. m \in Charged(b) /\ Resolving(m) /\ m \in Chain(b)
        BY <1>2, <1>7, <2>10 DEF Lost
      <3>2. ASSUME NEW y \in Chain(b) PROVE Resolving(y)
        <4>1. y \in Nat /\ m \in Nat /\ y \in Rows /\ m \in Rows
          BY <2>1, <3>1
        <4>2. frames[m] = {}
          BY <2>10, <4>1 DEF FrameShape
        <4>3. ~(y < m)
          BY <2>0, <3>1, <4>1, <4>2, ChainShape
        <4>4. y = m \/ y > m
          BY <4>1, <4>3
        <4> QED
          BY <3>1, <4>4 DEF Charged
      <3> QED
        BY <3>2 DEF FailsFlow
    <2> QED
      BY <1>4, <1>5, <2>4, <2>5, <2>8, <2>9, <2>10
  <1> QED
    BY <1>6, <1>7

-----------------------------------------------------------------------------
(* Counting *)

\* A count that still has something to wait for has not reached its size.
LEMMA CountPositive ==
  ASSUME NEW W, IsFiniteSet(W), NEW a \in Nat, NEW n \in Nat, a + Cardinality(W) = n
  PROVE  a < n <=> W # {}
  <1>1. Cardinality(W) \in Nat
    BY FS_CardinalityType
  <1>2. Cardinality(W) = 0 <=> W = {}
    BY FS_EmptySet
  <1> QED
    BY <1>1, <1>2

\* The branches of one cohort are a finite set.
LEMMA WaitingFinite ==
  ASSUME TypeOK, NEW c
  PROVE  IsFiniteSet(Waiting(c)) /\ Cardinality(Waiting(c)) \in Nat /\ Waiting(c) \subseteq Rows
  BY RowsFinite DEF Waiting, Members

\* A cohort with an outstanding branch is open.
LEMMA OutstandingIsInOpen ==
  ASSUME IInv, Running, NEW m \in Rows, Outstanding(m), lineage[m] # 0
  PROVE  lineage[m] \in Rows /\ Open(lineage[m]) /\ Outstanding(lineage[m])
  <1> DEFINE c == lineage[m]
  <1>0. TypeOK /\ FrameShape
    BY DEF IInv
  <1>1. c \in Rows /\ size[c] > 0
    BY <1>0, FramesAreChain
  <1>2. m \in Waiting(c)
    BY DEF Waiting, Members
  <1>3. arrivals[c] + Cardinality(Waiting(c)) = size[c]
    BY <1>1 DEF IInv, CountersExact, Running, Waiting
  <1>4. arrivals[c] \in Nat /\ size[c] \in Nat
    BY <1>0, <1>1, RowsAreNumbers DEF TypeOK
  <1>5. arrivals[c] < size[c]
    BY <1>0, <1>2, <1>3, <1>4, CountPositive, WaitingFinite
  <1> QED
    BY <1>1, <1>5 DEF Open, Outstanding

\* So is every cohort above it.
LEMMA OpenAbove ==
  ASSUME IInv, Running, NEW m \in Rows, Outstanding(m)
  PROVE  \A r \in frames[m] : r \in Rows /\ Open(r)
  <1> DEFINE Out == {x \in Rows : Outstanding(x)}
  <1>0. TypeOK /\ FrameShape
    BY DEF IInv
  <1>1. Out \in SUBSET Rows /\ m \in Out
    OBVIOUS
  <1>2. \A x \in Out : lineage[x] # 0 => lineage[x] \in Out
    BY OutstandingIsInOpen
  <1>3. frames[m] \subseteq Out
    <2> HIDE DEF Out
    <2> QED
      BY <1>0, <1>1, <1>2, ClosedUpwards
  <1>4. ASSUME NEW r \in frames[m] PROVE Open(r)
    <2>1. r \in Rows /\ Outstanding(r) /\ size[r] > 0
      BY <1>0, <1>3, <1>4 DEF FrameShape
    <2>2. moved[r] /\ status[r] = "completed"
      BY <2>1 DEF IInv, RowShape
    <2> QED
      BY <2>1, <2>2 DEF Outstanding, Owing, LiveStep
  <1> QED
    BY <1>3, <1>4

\* When the rows in D cease to be outstanding, no two of them in one cohort,
\* a cohort waits for one branch less if and only if one of them is in it.
LEMMA WaitingAfterLoss ==
  ASSUME TypeOK, NEW D \in SUBSET Rows, \A m \in D : Outstanding(m),
         \A m \in Rows : Outstanding(m)' <=> Outstanding(m) /\ m \notin D,
         \A m, n \in D : lineage[m] = lineage[n] => m = n,
         UNCHANGED <<last, lineage>>, NEW c
  PROVE  Cardinality(Waiting(c)') = Cardinality(Waiting(c)) - IF \E m \in D : lineage[m] = c THEN 1 ELSE 0
  <1>0. IsFiniteSet(Waiting(c)) /\ Cardinality(Waiting(c)) \in Nat
    BY WaitingFinite
  <1>r. Rows' = Rows /\ Members(c)' = Members(c)
    BY DEF Rows, Members
  <1>1. CASE \E m \in D : lineage[m] = c
    <2>1. PICK m \in D : lineage[m] = c
      BY <1>1
    <2>2. m \in Waiting(c)
      BY <2>1 DEF Waiting, Members
    <2>3. Waiting(c)' = Waiting(c) \ {m}
      BY <1>r, <2>1 DEF Waiting, Members
    <2>4. Cardinality(Waiting(c) \ {m}) = Cardinality(Waiting(c)) - 1
      BY <1>0, <2>2, FS_RemoveElement
    <2> QED
      BY <1>1, <2>3, <2>4
  <1>2. CASE ~\E m \in D : lineage[m] = c
    <2>1. Waiting(c)' = Waiting(c)
      BY <1>r, <1>2 DEF Waiting, Members
    <2> QED
      BY <1>0, <1>2, <2>1
  <1> QED
    BY <1>1, <1>2

-----------------------------------------------------------------------------
(* The dispatch of a step *)

\* A flow with something left to run has not stopped of itself.
LEMMA FlowIsOn ==
  ASSUME IInv, NEW s \in Rows, Outstanding(s)
  PROVE  flow = "terminated" \/ (flow = "running" /\ Running)
  BY DEF IInv, TypeOK, FlowStopsQuiet, Running, TerminalFlow

\* A step in a worker's hands, or on its way there, has not moved on, spawned
\* nothing, and belongs to no cohort whose fan-in exists.
LEMMA InHand ==
  ASSUME IInv, NEW s \in Rows, status[s] \in LiveStep \/ Owing(s)
  PROVE  /\ Outstanding(s) /\ ~moved[s] /\ size[s] = 0 /\ ~Open(s) /\ failures[s] = 0 /\ cancels[s] = 0
         /\ arrivals[s] = 0
         /\ s \in Steps /\ status[s] \in {"pending", "running", "completed"}
         /\ \A m \in Rows : lineage[m] # s /\ s \notin frames[m]
         /\ \A f \in Rows : joins[f] # s /\ (joins[f] # 0 => lineage[s] # joins[f])
  <1>0. TypeOK /\ FrameShape /\ RowShape /\ FanInIsSound
    BY DEF IInv
  <1>1. Outstanding(s) /\ ~moved[s] /\ status[s] \in {"pending", "running", "completed"}
    BY <1>0 DEF Outstanding, Owing, LiveStep, RowShape
  <1>2. s \in Steps /\ s > 0 /\ size[s] \in Nat
    BY <1>0, RowsAreNumbers DEF TypeOK
  <1>3. size[s] = 0 /\ failures[s] = 0 /\ cancels[s] = 0 /\ arrivals[s] = 0
    BY <1>0, <1>1, <1>2 DEF RowShape
  <1>4. \A m \in Rows : lineage[m] # s /\ s \notin frames[m]
    BY <1>0, <1>2, <1>3, FramesAreChain DEF FrameShape
  <1>5. \A f \in Rows : joins[f] # s
    BY <1>0, <1>1, <1>2 DEF RowShape
  <1>6. \A f \in Rows : joins[f] # 0 => lineage[s] # joins[f]
    BY <1>0, <1>1 DEF FanInIsSound, Members
  <1> QED
    BY <1>1, <1>2, <1>3, <1>4, <1>5, <1>6 DEF Open

\* Claim, completion and rewind pass the step on and leave the counts alone.
LEMMA StatusMoves ==
  ASSUME IInv, NEW s \in Rows, status[s] \in LiveStep \/ Owing(s),
         NEW st \in {"pending", "running", "completed"}, status' = [status EXCEPT ![s] = st],
         UNCHANGED <<rows, counters, moved, flow>>, budget' \in Nat
  PROVE  IInv'
  <1> USE DEF rows, counters
  <1>0. TypeOK /\ BlankRows /\ RowShape /\ FrameShape
    BY DEF IInv
  <1>1. /\ Outstanding(s) /\ ~moved[s] /\ size[s] = 0 /\ ~Open(s) /\ s \in Steps
        /\ status[s] \in {"pending", "running", "completed"}
        /\ \A f \in Rows : joins[f] # s /\ (joins[f] # 0 => lineage[s] # joins[f])
    BY InHand
  <1>2. /\ Rows' = Rows /\ \A r \in Steps : r # s => status'[r] = status[r]
        /\ status'[s] = st
    BY <1>0, <1>1 DEF Rows, TypeOK
  <1>3. \A m \in Rows : (Open(m)' <=> Open(m)) /\ (Outstanding(m)' <=> Outstanding(m))
    <2>1. \A m \in Rows : Open(m)' <=> Open(m)
      BY DEF Open
    <2>2. Outstanding(s)'
      BY <1>1, <1>2 DEF Outstanding, Owing, LiveStep
    <2>3. \A m \in Rows : m # s => (Outstanding(m)' <=> Outstanding(m))
      BY <1>0, <1>2, <2>1, RowsAreNumbers DEF Outstanding, Owing
    <2> QED
      BY <1>1, <2>1, <2>2, <2>3
  <1>4. TypeOK'
    BY <1>0 DEF TypeOK, StepStatuses, LiveStep, TerminalFlow
  <1>5. BlankRows' /\ FrameShape'
    BY <1>0, <1>2 DEF BlankRows, FrameShape
  <1>6. RowShape'
    BY <1>0, <1>1, <1>2, RowsAreNumbers DEF RowShape
  <1>7. \A c : Waiting(c)' = Waiting(c)
    BY <1>2, <1>3 DEF Waiting, Members
  <1>8. CountersExact' /\ TrunkExact'
    BY <1>2, <1>7 DEF IInv, CountersExact, TrunkExact, Running, Waiting
  <1>9. RoomLeft'
    <2>1. {c \in Rows : Open(c)}' = {c \in Rows : Open(c)}
      BY <1>2, <1>3
    <2> QED
      BY <2>1 DEF IInv, RoomLeft
  <1>10. LossesCounted'
    <2>1. \A m \in Rows : status'[m] = "failed" <=> status[m] = "failed"
      BY <1>1, <1>2, RowsAreNumbers, <1>0
    <2>2. \A m \in Rows : status'[m] = "cancelled" <=> status[m] = "cancelled"
      BY <1>1, <1>2, RowsAreNumbers, <1>0
    <2>3. \A m \in Rows : status'[m] = "terminated" <=> status[m] = "terminated"
      BY <1>1, <1>2, RowsAreNumbers, <1>0
    <2> QED
      BY <1>2, <1>3, <2>1, <2>2, <2>3 DEF IInv, LossesCounted, Running, Tainted
  <1>11. FanInIsSound'
    <2>1. \A c : Members(c)' = Members(c)
      BY <1>2 DEF Members
    <2>2. \A f \in Rows : joins[f] # 0 => \A m \in Members(joins[f]) : m # s /\ m \in Rows
      BY <1>1 DEF Members
    <2> QED
      BY <1>0, <1>2, <1>3, <2>1, <2>2, RowsAreNumbers DEF IInv, FanInIsSound
  <1>12. FlowStopsQuiet' /\ CancelledIsPure'
    <2>1. flow' \in {"running", "terminated"}
      BY <1>1, FlowIsOn
    <2> QED
      BY <2>1 DEF FlowStopsQuiet, CancelledIsPure
  <1> QED
    BY <1>4, <1>5, <1>6, <1>8, <1>9, <1>10, <1>11, <1>12 DEF IInv

-----------------------------------------------------------------------------
(* Losses *)

\* A failed row taints its cohort, and a tainted cohort that has resolved the
\* one above: with no tainted cohort open there is no failed row.
LEMMA NoTaintNoFailure ==
  ASSUME IInv, Running, \A r \in Rows : Open(r) => ~Tainted(r), NEW m \in Rows, status[m] = "failed"
  PROVE  FALSE
  <1> DEFINE Bad == {r \in frames[m] : Tainted(r)}
  <1>0. TypeOK /\ FrameShape /\ RowShape /\ LossesCounted
    BY DEF IInv
  <1>1. lineage[m] # 0 /\ Tainted(lineage[m])
    BY <1>0 DEF LossesCounted
  <1>2. \A r \in frames[m] : r \in Rows /\ r \in Nat /\ size[r] > 0
    BY <1>0, RowsAreNumbers DEF FrameShape
  <1>3. lineage[m] \in Bad /\ Bad \subseteq Nat
    BY <1>0, <1>1, <1>2 DEF FrameShape
  <1>4. PICK r \in Bad : \A y \in Bad : r <= y
    <2> HIDE DEF Bad
    <2> QED
      BY <1>3, SmallestElement
  <1>5. r \in Rows /\ r \in Nat /\ size[r] > 0 /\ ~Open(r) /\ Tainted(r)
    BY <1>2, <1>4
  <1>6. failures[r] > 0
    <2>1. failures[r] \in Nat /\ cancels[r] \in Nat /\ cancels[r] <= failures[r]
      BY <1>0, <1>5, RowsAreNumbers DEF TypeOK, RowShape
    <2> QED
      BY <1>5, <2>1 DEF Tainted
  <1>7. lineage[r] # 0 /\ Tainted(lineage[r])
    BY <1>0, <1>5, <1>6 DEF LossesCounted
  <1>8. lineage[r] \in Rows /\ lineage[r] < r /\ lineage[r] \in frames[r]
    BY <1>0, <1>5, <1>7, FramesAreChain DEF FrameShape
  <1>9. lineage[r] \in frames[m]
    BY <1>0, <1>4, <1>8 DEF FrameShape
  <1>10. r <= lineage[r] /\ lineage[r] \in Nat
    BY <1>2, <1>4, <1>7, <1>9
  <1> QED
    BY <1>5, <1>8, <1>10

\* In the same way, with no cohort open that has lost a branch no row is lost.
LEMMA NoLossNoFailure ==
  ASSUME IInv, Running, \A r \in Rows : Open(r) => failures[r] = 0,
         NEW m \in Rows, status[m] \in {"failed", "cancelled"}
  PROVE  FALSE
  <1> DEFINE Bad == {r \in frames[m] : failures[r] > 0}
  <1>0. TypeOK /\ FrameShape /\ RowShape /\ LossesCounted
    BY DEF IInv
  <1>1. lineage[m] # 0 /\ failures[lineage[m]] > 0
    BY <1>0 DEF LossesCounted
  <1>2. \A r \in frames[m] : r \in Rows /\ r \in Nat /\ size[r] > 0
    BY <1>0, RowsAreNumbers DEF FrameShape
  <1>3. lineage[m] \in Bad /\ Bad \subseteq Nat
    BY <1>0, <1>1, <1>2 DEF FrameShape
  <1>4. PICK r \in Bad : \A y \in Bad : r <= y
    <2> HIDE DEF Bad
    <2> QED
      BY <1>3, SmallestElement
  <1>5. r \in Rows /\ r \in Nat /\ size[r] > 0 /\ ~Open(r) /\ failures[r] > 0
    BY <1>2, <1>4
  <1>6. lineage[r] # 0 /\ failures[lineage[r]] > 0
    BY <1>0, <1>5 DEF LossesCounted
  <1>7. lineage[r] \in Rows /\ lineage[r] < r /\ lineage[r] \in frames[r]
    BY <1>0, <1>5, <1>6, FramesAreChain DEF FrameShape
  <1>8. lineage[r] \in frames[m]
    BY <1>0, <1>4, <1>7 DEF FrameShape
  <1>9. r <= lineage[r] /\ lineage[r] \in Nat
    BY <1>2, <1>4, <1>6, <1>8
  <1> QED
    BY <1>5, <1>7, <1>9

\* What charging a loss does to the counters of losses.
LEMMA ChargeFacts ==
  ASSUME IInv, NEW x \in Rows, NEW k \in BOOLEAN, UNCHANGED lineage,
         failures' = [r \in Steps |-> IF r \in Charged(lineage[x]) THEN failures[r] + 1 ELSE failures[r]],
         cancels' = [r \in Steps |-> IF r \in ChargedCancelled(lineage[x], k) THEN cancels[r] + 1 ELSE cancels[r]]
  PROVE  /\ failures' \in [Steps -> Nat] /\ cancels' \in [Steps -> Nat]
         /\ \A r \in Rows : /\ failures'[r] >= failures[r] /\ cancels'[r] <= failures'[r]
                            /\ failures[r] > 0 => failures'[r] > 0
                            /\ Tainted(r) => Tainted(r)'
         /\ \A r \in Steps : r \notin Charged(lineage[x]) =>
               failures'[r] = failures[r] /\ cancels'[r] = cancels[r]
         /\ \A r \in Charged(lineage[x]) : failures'[r] > 0
         /\ \A q \in Lost(x) : q # x /\ lineage[q] # 0 => (Tainted(q)' => Tainted(lineage[q])')
         /\ ~k => \A r \in Charged(lineage[x]) : Tainted(r)'
         /\ \A r \in Rows : Tainted(r)' => Tainted(r) \/ ~k \/ \E q \in Chain(lineage[x]) : Tainted(q)
  <1> DEFINE b == lineage[x]
  <1> USE DEF Tainted
  <1>0. TypeOK /\ FrameShape /\ RowShape
    BY DEF IInv
  <1>1. ChargedCancelled(b, k) \subseteq Charged(b)
    BY DEF ChargedCancelled
  <1>2. \A q \in Charged(b) : q \in Rows /\ q < x
    BY <1>0, LossClimbs
  <1>3. \A r \in Rows : r \in Steps /\ failures[r] \in Nat /\ cancels[r] \in Nat /\ cancels[r] <= failures[r]
    BY <1>0, RowsAreNumbers DEF TypeOK, RowShape
  <1>4. failures' \in [Steps -> Nat] /\ cancels' \in [Steps -> Nat]
    BY <1>0 DEF TypeOK
  <1>5. \A r \in Steps : r \notin Charged(b) => failures'[r] = failures[r] /\ cancels'[r] = cancels[r]
    BY <1>1
  <1>6. ASSUME NEW r \in Charged(b)
        PROVE  /\ failures'[r] = failures[r] + 1
               /\ r \in ChargedCancelled(b, k) => cancels'[r] = cancels[r] + 1
               /\ r \notin ChargedCancelled(b, k) => cancels'[r] = cancels[r] /\ Tainted(r)'
    BY <1>2, <1>3, <1>6
  <1>7. ASSUME NEW r \in Rows
        PROVE  /\ failures'[r] >= failures[r] /\ cancels'[r] <= failures'[r]
               /\ failures[r] > 0 => failures'[r] > 0
               /\ Tainted(r) => Tainted(r)'
    BY <1>3, <1>5, <1>6
  <1>8. \A r \in Charged(b) : failures'[r] > 0
    BY <1>2, <1>3, <1>6
  <1>9. ASSUME NEW q \in Lost(x), q # x, lineage[q] # 0, Tainted(q)' PROVE Tainted(lineage[q])'
    <2>1. q \in Charged(b) /\ lineage[q] \in Charged(b)
      BY <1>0, <1>9, LossClimbs DEF Lost
    <2>2. lineage[q] < q /\ q \in Chain(b)
      BY <1>0, <1>2, <1>9, <2>1, FramesAreChain DEF Charged
    <2>3. ASSUME lineage[q] \in ChargedCancelled(b, k) PROVE q \in ChargedCancelled(b, k) /\ cancels[q] = failures[q]
      <3>1. k /\ \A y \in Chain(b) : y > lineage[q] => cancels[y] = failures[y]
        BY <2>3 DEF ChargedCancelled
      <3>2. q \in Nat /\ lineage[q] \in Nat /\ \A y \in Chain(b) : y \in Nat
        BY <1>0, <1>2, <2>1, RowsAreNumbers, FramesAreChain DEF FrameShape
      <3>3. \A y \in Chain(b) : y > q => y > lineage[q]
        BY <2>2, <3>2
      <3> QED
        BY <2>1, <2>2, <3>1, <3>2, <3>3 DEF ChargedCancelled
    <2>4. lineage[q] \notin ChargedCancelled(b, k)
      BY <1>2, <1>3, <1>6, <1>9, <2>1, <2>3
    <2> QED
      BY <1>6, <2>1, <2>4
  <1>10. ASSUME ~k, NEW r \in Charged(b) PROVE Tainted(r)'
    BY <1>6, <1>10 DEF ChargedCancelled
  <1>11. ASSUME NEW r \in Rows, Tainted(r)', ~Tainted(r), k PROVE \E q \in Chain(b) : Tainted(q)
    <2>1. r \in Charged(b)
      BY <1>3, <1>5, <1>11
    <2>2. r \notin ChargedCancelled(b, k)
      BY <1>3, <1>6, <1>11, <2>1
    <2> QED
      BY <1>11, <2>1, <2>2 DEF ChargedCancelled
  <1> QED
    BY <1>4, <1>5, <1>7, <1>8, <1>9, <1>10, <1>11

\* A step that reports, as lost or as arrived, leaves the rows as they are and
\* adds to the counters of spawns.
LEMMA ReportShape ==
  ASSUME IInv, NEW s \in Rows, status[s] \in LiveStep \/ Owing(s),
         \/ /\ \E st \in {"failed", "cancelled"} : status' = [status EXCEPT ![s] = st]
            /\ UNCHANGED moved
         \/ UNCHANGED status /\ Owing(s) /\ Moves(s),
         UNCHANGED <<rows, size, budget>>, flow' \in {"running"} \cup TerminalFlow,
         arrivals' \in [Steps -> Nat], failures' \in [Steps -> Nat], cancels' \in [Steps -> Nat],
         \A r \in Steps : arrivals'[r] >= arrivals[r],
         \A r \in Steps : ~(r \in Rows /\ size[r] > 0) =>
            arrivals'[r] = arrivals[r] /\ failures'[r] = failures[r] /\ cancels'[r] = cancels[r],
         \A r \in Rows : cancels'[r] <= failures'[r]
  PROVE  /\ TypeOK' /\ BlankRows' /\ RowShape' /\ FrameShape' /\ RoomLeft' /\ FanInIsSound'
         /\ ~Outstanding(s)'
         /\ \A m \in Rows : m # s => status'[m] = status[m] /\ moved'[m] = moved[m]
         /\ \A m \in Rows : Open(m)' => Open(m)
         /\ \A m \in Rows : ~Outstanding(m) => ~Outstanding(m)'
  <1> USE DEF rows
  <1>0. TypeOK /\ BlankRows /\ RowShape /\ FrameShape /\ Rows' = Rows
    BY DEF IInv, Rows
  <1>1. /\ Outstanding(s) /\ ~moved[s] /\ size[s] = 0 /\ s \in Steps
        /\ status[s] \in {"pending", "running", "completed"}
        /\ \A f \in Rows : joins[f] # s /\ (joins[f] # 0 => lineage[s] # joins[f])
    BY InHand
  <1>2. \A r \in Rows : r \in Steps
    BY <1>0, RowsAreNumbers
  <1>3. \A m \in Rows : m # s => status'[m] = status[m] /\ moved'[m] = moved[m]
    BY <1>0, <1>2 DEF TypeOK, Moves
  <1>4. \/ status'[s] \in {"failed", "cancelled"} /\ ~moved'[s]
        \/ status'[s] = "completed" /\ moved'[s]
    BY <1>0, <1>1 DEF TypeOK, Moves, Owing
  <1>5. ASSUME NEW m \in Rows, Open(m)' PROVE Open(m)
    <2>1. arrivals[m] \in Nat /\ arrivals'[m] \in Nat /\ arrivals'[m] >= arrivals[m] /\ size[m] \in Nat
      BY <1>0, <1>2 DEF TypeOK
    <2> QED
      BY <1>5, <2>1 DEF Open
  <1>6. ~Outstanding(s)'
    BY <1>1, <1>4, <1>0 DEF Outstanding, Owing, Open, LiveStep, TypeOK
  <1>7. \A m \in Rows : ~Outstanding(m) => ~Outstanding(m)'
    BY <1>3, <1>5, <1>6 DEF Outstanding, Owing
  <1>8. TypeOK'
    BY <1>0 DEF TypeOK, Moves, StepStatuses, TerminalFlow
  <1>9. BlankRows' /\ FrameShape'
    <2>1. \A r \in Steps \ Rows : moved'[r] = moved[r]
      BY <1>0 DEF TypeOK, Moves
    <2> QED
      BY <1>0, <2>1 DEF BlankRows, FrameShape
  <1>10. RowShape'
    <2> SUFFICES ASSUME NEW r \in Rows
                 PROVE  /\ status'[r] # "none"
                        /\ moved'[r] => status'[r] = "completed"
                        /\ size[r] > 0 => moved'[r]
                        /\ size[r] = 0 => arrivals'[r] = 0 /\ failures'[r] = 0 /\ cancels'[r] = 0
                        /\ cancels'[r] <= failures'[r]
                        /\ joins[r] # 0 => joins[r] \in Rows /\ moved'[joins[r]]
      BY <1>0 DEF RowShape
    <2>1. status'[r] # "none" /\ (moved'[r] => status'[r] = "completed") /\ (size[r] > 0 => moved'[r])
      BY <1>0, <1>1, <1>3, <1>4 DEF RowShape
    <2>2. size[r] = 0 => arrivals'[r] = 0 /\ failures'[r] = 0 /\ cancels'[r] = 0
      BY <1>0, <1>2 DEF RowShape
    <2>3. joins[r] # 0 => joins[r] \in Rows /\ moved'[joins[r]]
      BY <1>0, <1>1, <1>3 DEF RowShape
    <2> QED
      BY <2>1, <2>2, <2>3
  <1>11. RoomLeft'
    <2> DEFINE S == {c \in Rows : Open(c)}
               T == {c \in Rows : Open(c)'}
    <2>1. T \in SUBSET S /\ S \in SUBSET Rows
      BY <1>5
    <2>2. IsFiniteSet(S) /\ Cardinality(S) \in Nat /\ Cardinality(T) \in Nat
      <3> HIDE DEF S, T
      <3>1. T \in SUBSET Rows
        BY <2>1
      <3> QED
        BY <1>0, <2>1, <3>1, RowsFinite
    <2>3. Cardinality(T) <= Cardinality(S)
      <3> HIDE DEF S, T
      <3> QED
        BY <2>1, <2>2, FS_Subset
    <2>4. last + Cardinality(S) <= MaxSteps /\ last \in Nat
      BY <1>0, RowsAreNumbers DEF IInv, RoomLeft
    <2>5. last + Cardinality(T) <= MaxSteps
      <3> HIDE DEF S, T
      <3> QED
        BY <2>2, <2>3, <2>4, CohortStepsAssumption
    <2> QED
      BY <1>0, <2>5 DEF RoomLeft
  <1>12. FanInIsSound'
    <2>1. \A c : Members(c)' = Members(c)
      BY <1>0 DEF Members
    <2>2. \A f \in Rows : joins[f] # 0 => \A m \in Members(joins[f]) : m # s /\ m \in Rows
      BY <1>1 DEF Members
    <2> QED
      BY <1>0, <1>3, <1>7, <2>1, <2>2 DEF IInv, FanInIsSound
  <1> QED
    BY <1>3, <1>5, <1>6, <1>7, <1>8, <1>9, <1>10, <1>11, <1>12

\* While the flow runs the counts stay exact when the rows in D cease to be
\* outstanding and each of their cohorts counts one; if one of them is of the
\* trunk nothing is outstanding any more.
LEMMA CountsAfterLoss ==
  ASSUME IInv, Running, NEW D \in SUBSET Rows, \A m \in D : Outstanding(m),
         \A m \in Rows : Outstanding(m)' <=> Outstanding(m) /\ m \notin D,
         \A m, n \in D : lineage[m] = lineage[n] => m = n,
         \A r \in Rows : arrivals'[r] = arrivals[r] + IF \E m \in D : lineage[m] = r THEN 1 ELSE 0,
         UNCHANGED <<rows, size>>
  PROVE  /\ \A c \in Rows : size[c] > 0 => arrivals'[c] + Cardinality(Waiting(c)') = size[c]
         /\ (~\E m \in D : lineage[m] = 0) => Cardinality(Waiting(0)') = 1
         /\ (\E m \in D : lineage[m] = 0) => \A m \in Rows : ~Outstanding(m)'
  <1> USE DEF rows
  <1>0. TypeOK /\ FrameShape /\ Rows' = Rows
    BY DEF IInv, Rows
  <1>1. ASSUME NEW c \in Rows, size[c] > 0 PROVE arrivals'[c] + Cardinality(Waiting(c)') = size[c]
    <2>1. arrivals[c] + Cardinality(Waiting(c)) = size[c]
      BY <1>1 DEF IInv, CountersExact, Running, Waiting
    <2>2. arrivals[c] \in Nat /\ size[c] \in Nat /\ Cardinality(Waiting(c)) \in Nat
      BY <1>0, RowsAreNumbers, WaitingFinite DEF TypeOK
    <2>3. Cardinality(Waiting(c)') = Cardinality(Waiting(c)) - IF \E m \in D : lineage[m] = c THEN 1 ELSE 0
      BY <1>0, WaitingAfterLoss
    <2> QED
      BY <2>1, <2>2, <2>3
  <1>2. /\ Cardinality(Waiting(0)) = 1
        /\ Cardinality(Waiting(0)') = Cardinality(Waiting(0)) - IF \E m \in D : lineage[m] = 0 THEN 1 ELSE 0
    BY <1>0, WaitingAfterLoss DEF IInv, TrunkExact
  <1>3. ASSUME \E m \in D : lineage[m] = 0, NEW m \in Rows, Outstanding(m)' PROVE FALSE
    <2> DEFINE Out == {x \in Rows : Outstanding(x)'}
    <2>1. ASSUME NEW x \in Out, lineage[x] # 0 PROVE lineage[x] \in Out
      <3> DEFINE c == lineage[x]
      <3>1. c \in Rows /\ size[c] > 0
        BY <1>0, <2>1, FramesAreChain
      <3>2. x \in Waiting(c)'
        BY <1>0, <2>1 DEF Waiting, Members
      <3>3. Waiting(c)' \in SUBSET Rows
        BY <1>0 DEF Waiting, Members
      <3>4. IsFiniteSet(Waiting(c)')
        BY <1>0, <3>3, RowsFinite
      <3>5. arrivals'[c] \in Nat /\ size[c] \in Nat
        BY <1>0, <3>1, RowsAreNumbers DEF TypeOK
      <3>6. arrivals'[c] < size[c]
        BY <1>1, <3>1, <3>2, <3>4, <3>5, CountPositive
      <3>7. Open(c)'
        BY <3>1, <3>6 DEF Open
      <3> QED
        BY <3>1, <3>7 DEF Outstanding
    <2>2. Out \in SUBSET Rows /\ Out # {}
      BY <1>3
    <2>3. PICK x \in Out : lineage[x] = 0
      <3> HIDE DEF Out
      <3> QED
        BY <1>0, <2>1, <2>2, TrunkIsLast
    <2>4. x \in Waiting(0)' /\ Waiting(0)' \in SUBSET Rows
      BY <1>0, <2>3 DEF Waiting, Members
    <2>5. Cardinality(Waiting(0)') = 0 /\ IsFiniteSet(Waiting(0)')
      BY <1>0, <1>2, <1>3, <2>4, RowsFinite
    <2> QED
      BY <2>4, <2>5, FS_EmptySet
  <1> QED
    BY <1>1, <1>2, <1>3

\* The loss of x, the step s itself or the cohort that s resolves, climbs
\* while the flow runs: counts and losses stay in step, and if the loss
\* reaches the trunk the flow stops quiet and with the outcome it deserves.
LEMMA LossInRun ==
  ASSUME IInv, Running, NEW s \in Rows, NEW x \in Rows, NEW k \in BOOLEAN, NEW arrived,
         status[s] \in LiveStep \/ Owing(s),
         \/ /\ x = s /\ arrived = {}
            /\ status' = [status EXCEPT ![s] = IF k THEN "cancelled" ELSE "failed"]
            /\ UNCHANGED moved
         \/ /\ x = lineage[s] /\ arrived = {x} /\ Resolving(x) /\ failures[x] > 0
            /\ k = (cancels[x] = failures[x])
            /\ UNCHANGED status /\ Owing(s) /\ Moves(s),
         PropagateCohortFailure(lineage[x], k, arrived), UNCHANGED budget
  PROVE  IInv'
  <1> DEFINE b == lineage[x]
             D == {s} \cup Lost(x)
  <1> USE DEF rows
  <1>0. TypeOK /\ BlankRows /\ RowShape /\ FrameShape /\ LossesCounted
    BY DEF IInv
  <1>1. /\ Outstanding(s) /\ ~moved[s] /\ size[s] = 0 /\ s \in Steps /\ s > 0
        /\ status[s] \in {"pending", "running", "completed"}
        /\ \A m \in Rows : lineage[m] # s /\ s \notin frames[m]
    BY <1>0, InHand, RowsAreNumbers
  <1>2. \A r \in Rows : r \in Steps /\ r \in Nat /\ r > 0 /\ size[r] \in Nat /\ arrivals[r] \in Nat
                        /\ failures[r] \in Nat /\ cancels[r] \in Nat /\ cancels[r] <= failures[r]
    BY <1>0, RowsAreNumbers DEF TypeOK, RowShape
  <1>3. /\ \A r \in Steps : arrivals'[r] = IF r \in arrived \cup Charged(b) THEN arrivals[r] + 1 ELSE arrivals[r]
        /\ arrivals' = [r \in Steps |-> IF r \in arrived \cup Charged(b) THEN arrivals[r] + 1 ELSE arrivals[r]]
        /\ failures' = [r \in Steps |-> IF r \in Charged(b) THEN failures[r] + 1 ELSE failures[r]]
        /\ cancels' = [r \in Steps |-> IF r \in ChargedCancelled(b, k) THEN cancels[r] + 1 ELSE cancels[r]]
        /\ flow' = IF FailsFlow(b) THEN LossStatus(b, k) ELSE flow
        /\ UNCHANGED <<size, rows>>
    BY DEF PropagateCohortFailure, FlowRowLocked, Running
  <1>4. /\ Lost(x) \subseteq Rows
        /\ \A q \in Charged(b) : q \in frames[x] /\ q \in Rows /\ q < x
        /\ \A m \in Lost(x) : lineage[m] # 0 => lineage[m] \in Charged(b)
        /\ \A r \in Charged(b) : \E m \in Lost(x) : lineage[m] = r
        /\ \A m, n \in Lost(x) : lineage[m] = lineage[n] => m = n
        /\ FailsFlow(b) <=> \E m \in Lost(x) : lineage[m] = 0
    BY <1>0, LossClimbs
  <1>5. \A q \in frames[s] : q \in Rows /\ Open(q)
    BY <1>1, OpenAbove
  <1>6. (x # s => x = lineage[s] /\ arrived = {x} /\ x \in frames[s] /\ Open(x)) /\ frames[x] \subseteq frames[s]
    <2>1. CASE x = s
      BY <2>1
    <2>2. CASE x # s
      <3>1. x = lineage[s] /\ arrived = {x} /\ lineage[s] # 0
        BY <1>2, <2>2
      <3>2. x \in frames[s] /\ frames[x] \subseteq frames[s]
        BY <1>0, <3>1 DEF FrameShape
      <3> QED
        BY <1>5, <3>1, <3>2
    <2> QED
      BY <2>1, <2>2
  <1>6a. x = s => arrived = {} /\ status'[s] = IF k THEN "cancelled" ELSE "failed"
    BY <1>0, <1>1 DEF TypeOK
  <1>7. \A q \in frames[x] : q \in Rows /\ Open(q) /\ size[q] > 0 /\ moved[q] /\ status[q] = "completed" /\ q # s
    BY <1>0, <1>1, <1>5, <1>6 DEF RowShape, Open
  <1>8. x # s => size[x] > 0 /\ moved[x] /\ status[x] = "completed" /\ x \notin Charged(b)
    BY <1>0, <1>2, <1>4, <1>6 DEF RowShape, Open
  <1>9. /\ failures' \in [Steps -> Nat] /\ cancels' \in [Steps -> Nat]
        /\ \A r \in Rows : /\ failures'[r] >= failures[r] /\ cancels'[r] <= failures'[r]
                           /\ failures[r] > 0 => failures'[r] > 0
                           /\ Tainted(r) => Tainted(r)'
        /\ \A r \in Steps : r \notin Charged(b) => failures'[r] = failures[r] /\ cancels'[r] = cancels[r]
        /\ \A r \in Charged(b) : failures'[r] > 0
        /\ \A q \in Lost(x) : q # x /\ lineage[q] # 0 => (Tainted(q)' => Tainted(lineage[q])')
        /\ ~k => \A r \in Charged(b) : Tainted(r)'
        /\ \A r \in Rows : Tainted(r)' => Tainted(r) \/ ~k \/ \E q \in Chain(b) : Tainted(q)
    BY <1>3, ChargeFacts
  <1>10. /\ TypeOK' /\ BlankRows' /\ RowShape' /\ FrameShape' /\ RoomLeft' /\ FanInIsSound'
         /\ ~Outstanding(s)'
         /\ \A m \in Rows : m # s => status'[m] = status[m] /\ moved'[m] = moved[m]
    <2>1. flow' \in {"running"} \cup TerminalFlow
      BY <1>0, <1>3 DEF LossStatus, TerminalFlow, TypeOK
    <2>2. arrivals' \in [Steps -> Nat] /\ \A r \in Steps : arrivals'[r] >= arrivals[r]
      BY <1>0, <1>3 DEF TypeOK
    <2>3. \A r \in Steps : ~(r \in Rows /\ size[r] > 0) => r \notin arrived \cup Charged(b)
      BY <1>4, <1>6, <1>6a, <1>7, <1>8
    <2>4. \A r \in Steps : ~(r \in Rows /\ size[r] > 0) =>
             arrivals'[r] = arrivals[r] /\ failures'[r] = failures[r] /\ cancels'[r] = cancels[r]
      BY <1>3, <1>9, <2>3
    <2>5. \A r \in Rows : cancels'[r] <= failures'[r]
      BY <1>9
    <2>6. \/ /\ \E st \in {"failed", "cancelled"} : status' = [status EXCEPT ![s] = st]
             /\ UNCHANGED moved
          \/ UNCHANGED status /\ Owing(s) /\ Moves(s)
      OBVIOUS
    <2> QED
      BY <1>3, <1>9, <2>1, <2>2, <2>4, <2>5, <2>6, ReportShape
  <1>11. D \in SUBSET Rows /\ \A m \in D : Outstanding(m)
    BY <1>1, <1>4, <1>6, <1>7 DEF Lost, Outstanding
  <1>12. ASSUME NEW r \in Rows
         PROVE  r \in arrived \cup Charged(b) <=> \E m \in D : lineage[m] = r
    <2>1. r # 0
      BY <1>2
    <2>2. CASE x = s
      <3>1. D = Lost(x) /\ arrived = {}
        BY <1>6a, <2>2 DEF Lost
      <3> HIDE DEF D
      <3> QED
        BY <1>4, <2>1, <3>1
    <2>3. CASE x # s
      BY <1>4, <1>6, <2>1, <2>3
    <2> QED
      BY <2>2, <2>3
  <1>13. ASSUME NEW m \in Rows PROVE Outstanding(m)' <=> Outstanding(m) /\ m \notin D
    <2>1. CASE m = s
      BY <1>10, <2>1
    <2>2. CASE m # s /\ m \in arrived \cup Charged(b)
      <3>1. moved'[m] /\ status'[m] = "completed" /\ Open(m) /\ moved[m] /\ status[m] = "completed"
        BY <1>4, <1>6, <1>7, <1>8, <1>10, <2>2
      <3>2. arrivals'[m] = arrivals[m] + 1 /\ size'[m] = size[m]
        BY <1>2, <1>3, <2>2
      <3>3. Open(m)' <=> ~Resolving(m)
        BY <1>2, <3>1, <3>2 DEF Open, Resolving
      <3>4. Outstanding(m)' <=> Open(m)'
        BY <3>1 DEF Outstanding, Owing, LiveStep
      <3>5. Resolving(m) <=> m \in D
        BY <1>6, <1>8, <2>2 DEF Lost
      <3> QED
        BY <3>1, <3>3, <3>4, <3>5 DEF Outstanding
    <2>3. CASE m # s /\ m \notin arrived \cup Charged(b)
      <3>1. arrivals'[m] = arrivals[m] /\ status'[m] = status[m] /\ moved'[m] = moved[m] /\ size'[m] = size[m]
        BY <1>2, <1>3, <1>10, <2>3
      <3>2. m \notin D
        BY <1>6, <2>3 DEF Lost
      <3> QED
        BY <3>1, <3>2 DEF Outstanding, Owing, Open
    <2> QED
      BY <2>1, <2>2, <2>3
  <1>14. \A m, n \in D : lineage[m] = lineage[n] => m = n
    <2>1. CASE x = s
      BY <1>4, <2>1 DEF Lost
    <2>2. CASE x # s
      <3>1. \A m \in Lost(x) : lineage[m] # x
        BY <1>2, <1>4, <1>8, <2>2
      <3> QED
        BY <1>4, <1>6, <2>2, <3>1
    <2> QED
      BY <2>1, <2>2
  <1>15. FailsFlow(b) <=> \E m \in D : lineage[m] = 0
    BY <1>2, <1>4, <1>6 DEF Lost
  <1>16. /\ \A c \in Rows : size[c] > 0 => arrivals'[c] + Cardinality(Waiting(c)') = size[c]
         /\ ~FailsFlow(b) => Cardinality(Waiting(0)') = 1
         /\ FailsFlow(b) => \A m \in Rows : ~Outstanding(m)'
    <2>1. \A r \in Rows : arrivals'[r] = arrivals[r] + IF \E m \in D : lineage[m] = r THEN 1 ELSE 0
      BY <1>2, <1>3, <1>12
    <2> HIDE DEF D
    <2> QED
      BY <1>3, <1>11, <1>13, <1>14, <1>15, <2>1, CountsAfterLoss
  <1>17. Rows' = Rows
    BY <1>3 DEF Rows
  <1>18. CountersExact'
    BY <1>3, <1>16, <1>17 DEF CountersExact, Waiting
  <1>19. CASE ~FailsFlow(b)
    <2>1. b # 0 /\ flow' = flow /\ Running'
      BY <1>3, <1>4, <1>19 DEF Lost, Running
    <2>2. b \in Charged(b) /\ b \in Rows /\ (\A m \in Lost(x) : lineage[m] # 0)
      BY <1>4, <1>19, <2>1 DEF Lost
    <2>3. TrunkExact'
      BY <1>16, <1>19 DEF TrunkExact
    <2>4. FlowStopsQuiet' /\ CancelledIsPure'
      <3>1. flow' = "running"
        BY <1>0, <2>1 DEF Running, TypeOK
      <3> QED
        BY <3>1 DEF FlowStopsQuiet, CancelledIsPure
    <2>5. \A m \in Rows : status[m] \in {"failed", "cancelled", "terminated"} => m # s /\ status'[m] = status[m]
      BY <1>1, <1>10
    <2>6. /\ status'[s] # "terminated"
          /\ status'[s] \in {"failed", "cancelled"} => x = s
          /\ status'[s] = "failed" => x = s /\ ~k
      <3>1. CASE x = s
        BY <1>6a, <3>1
      <3>2. CASE x # s
        BY <1>1, <3>2 DEF Owing
      <3> QED
        BY <3>1, <3>2
    <2>7. ASSUME NEW m \in Rows
          PROVE  /\ status'[m] # "terminated"
                 /\ status'[m] \in {"failed", "cancelled"} => lineage[m] # 0 /\ failures'[lineage[m]] > 0
                 /\ status'[m] = "failed" => Tainted(lineage[m])'
      <3>1. CASE m = s
        BY <1>9, <2>1, <2>2, <2>6, <3>1, <1>3
      <3>2. CASE m # s
        <4>1. status'[m] = status[m]
          BY <1>10, <3>2
        <4>2. lineage[m] # 0 => lineage[m] \in Rows
          BY <1>0, FramesAreChain
        <4> QED
          BY <1>0, <1>3, <1>9, <4>1, <4>2 DEF LossesCounted
      <3> QED
        BY <3>1, <3>2
    <2>8. ASSUME NEW c \in Rows, size[c] > 0, ~Open(c)'
          PROVE  /\ failures'[c] > 0 => lineage[c] # 0 /\ failures'[lineage[c]] > 0
                 /\ Tainted(c)' => Tainted(lineage[c])'
      <3>1. CASE c \in Lost(x) /\ c # x
        BY <1>4, <1>9, <2>2, <3>1
      <3>2. CASE c = x
        <4>1. x # s
          BY <1>1, <1>2, <2>8, <3>2
        <4>2. Tainted(x)' <=> Tainted(x)
          BY <1>2, <1>8, <1>9, <4>1 DEF Tainted
        <4>3. Tainted(x) => ~k
          BY <4>1 DEF Tainted
        <4> QED
          BY <1>3, <1>9, <2>1, <2>2, <3>2, <4>2, <4>3
      <3>3. CASE c \notin Lost(x)
        <4>1. ~Open(c)
          <5>1. CASE c \in arrived \cup Charged(b)
            <6>1. c \in Charged(b) /\ ~Resolving(c)
              BY <1>6, <1>6a, <3>3, <5>1 DEF Lost
            <6>2. arrivals'[c] = arrivals[c] + 1 /\ size'[c] = size[c]
              BY <1>2, <1>3, <5>1
            <6> QED
              BY <1>2, <2>8, <6>1, <6>2 DEF Open, Resolving
          <5>2. CASE c \notin arrived \cup Charged(b)
            <6>1. arrivals'[c] = arrivals[c] /\ size'[c] = size[c]
              BY <1>2, <1>3, <5>2
            <6> QED
              BY <2>8, <6>1 DEF Open
          <5> QED
            BY <5>1, <5>2
        <4>2. c \notin Charged(b)
          BY <1>4, <1>7, <4>1
        <4>3. /\ failures'[c] = failures[c] /\ (Tainted(c)' <=> Tainted(c))
          BY <1>2, <1>9, <4>2 DEF Tainted
        <4>4. /\ failures[c] > 0 => lineage[c] # 0 /\ failures[lineage[c]] > 0
              /\ Tainted(c) => Tainted(lineage[c])
          BY <1>0, <2>8, <4>1 DEF LossesCounted
        <4>5. lineage[c] # 0 => lineage[c] \in Rows
          BY <1>0, FramesAreChain
        <4>6. Tainted(c) => failures[c] > 0
          BY <1>2 DEF Tainted
        <4> QED
          BY <1>3, <1>9, <4>3, <4>4, <4>5, <4>6
      <3> QED
        BY <3>1, <3>2, <3>3
    <2>9. ASSUME NEW c \in Rows, Tainted(c)' PROVE \E m \in Rows : status'[m] = "failed"
      <3>1. CASE \E r \in Rows : Tainted(r)
        <4>1. PICK m \in Rows : status[m] = "failed"
          BY <1>0, <3>1 DEF LossesCounted
        <4> QED
          BY <2>5, <4>1
      <3>2. CASE ~\E r \in Rows : Tainted(r)
        <4>1. \A q \in Chain(b) : q \in Rows
          BY <1>0, <2>2, ChainShape
        <4>2. ~k
          BY <1>9, <2>9, <3>2, <4>1
        <4>3. x = s
          BY <3>2, <4>2 DEF Tainted
        <4> QED
          BY <1>6a, <4>2, <4>3
      <3> QED
        BY <3>1, <3>2
    <2>10. LossesCounted'
      <3>1. \A c \in Rows : size'[c] = size[c] /\ lineage'[c] = lineage[c]
        BY <1>3
      <3>2. Rows' = Rows
        BY <1>3 DEF Rows
      <3>3. \A m \in Rows : status[m]' = status'[m] /\ lineage[m]' = lineage[m] /\ failures[lineage[m]]' = failures'[lineage[m]]
        BY <1>3
      <3> QED
        BY <1>3, <2>7, <2>8, <2>9, <3>1, <3>2, <3>3 DEF LossesCounted
    <2> QED
      BY <1>10, <1>18, <2>3, <2>4, <2>10 DEF IInv
  <1>20. CASE FailsFlow(b)
    <2>1. flow' = LossStatus(b, k) /\ flow' \in {"failed", "cancelled"}
      BY <1>3, <1>20 DEF LossStatus
    <2>2. ~Running'
      BY <2>1 DEF Running, TerminalFlow
    <2>3. FlowStopsQuiet'
      BY <1>16, <1>17, <1>20 DEF FlowStopsQuiet
    <2>4. \A q \in Chain(b) : q \in Rows
      <3>1. b # 0 => b \in Rows
        BY <1>0, FramesAreChain
      <3> QED
        BY <1>0, <3>1, ChainShape DEF Chain
    <2>5. ASSUME flow' = "cancelled", NEW m \in Rows, status'[m] = "failed" PROVE FALSE
      <3>1. k /\ \A q \in Chain(b) : ~Tainted(q)
        BY <2>1, <2>5 DEF LossStatus, Tainted
      <3>2. ASSUME NEW r \in Rows, Open(r) PROVE ~Tainted(r)
        <4>1. r \in D
          BY <1>13, <1>16, <1>20, <3>2 DEF Outstanding
        <4>2. r # s
          BY <1>1, <1>2, <3>2 DEF Open
        <4>3. r = x \/ r \in Chain(b)
          BY <4>1, <4>2 DEF Lost, Charged
        <4>4. x # s => ~Tainted(x)
          BY <3>1 DEF Tainted
        <4> QED
          BY <3>1, <4>2, <4>3, <4>4
      <3>3. status[m] = "failed"
        <4>1. CASE m # s
          BY <1>10, <2>5, <4>1
        <4>2. CASE m = s
          BY <1>1, <1>6a, <2>5, <3>1, <4>2 DEF Owing
        <4> QED
          BY <4>1, <4>2
      <3> QED
        BY <3>2, <3>3, NoTaintNoFailure
    <2>6. ASSUME flow' = "failed" PROVE \E m \in Rows : status'[m] = "failed"
      <3>1. ~k \/ \E q \in Chain(b) : Tainted(q)
        BY <2>1, <2>6 DEF LossStatus, Tainted
      <3>2. CASE \E r \in Rows : Tainted(r)
        <4>1. PICK m \in Rows : status[m] = "failed"
          BY <1>0, <3>2 DEF LossesCounted
        <4> QED
          BY <1>1, <1>10, <4>1
      <3>3. CASE ~\E r \in Rows : Tainted(r)
        <4>1. ~k
          BY <2>4, <3>1, <3>3
        <4>2. x = s
          BY <3>3, <4>1 DEF Tainted
        <4> QED
          BY <1>6a, <4>1, <4>2
      <3> QED
        BY <3>2, <3>3
    <2>7. CancelledIsPure'
      <3>1. flow' # "completed"
        BY <2>1
      <3> QED
        BY <1>17, <2>5, <2>6, <3>1 DEF CancelledIsPure
    <2>8. TrunkExact' /\ LossesCounted'
      BY <2>2 DEF TrunkExact, LossesCounted
    <2> QED
      BY <1>10, <1>18, <2>3, <2>7, <2>8 DEF IInv
  <1> QED
    BY <1>19, <1>20

-----------------------------------------------------------------------------
(* The steps that report a branch *)

\* failStep keeps the invariant.
LEMMA FailStepKeeps ==
  ASSUME IInv, NEW s \in Rows, FailStep(s)
  PROVE  IInv'
  <1> USE DEF rows
  <1>0. TypeOK /\ FrameShape /\ RowShape
    BY DEF IInv
  <1>1. PICK k \in BOOLEAN : /\ status' = [status EXCEPT ![s] = IF k THEN "cancelled" ELSE "failed"]
                             /\ PropagateCohortFailure(lineage[s], k, {})
    BY DEF FailStep
  <1>2. UNCHANGED <<moved, budget>> /\ (status[s] \in LiveStep \/ Owing(s))
    BY DEF FailStep, Failable, LiveStep
  <1>3. CASE Running
    BY <1>1, <1>2, <1>3, LossInRun
  <1>4. CASE ~Running
    <2>1. Outstanding(s) /\ flow = "terminated"
      BY <1>2, <1>4, InHand, FlowIsOn
    <2>2. flow' = flow /\ UNCHANGED <<rows, size>>
      BY <1>1, <1>4 DEF PropagateCohortFailure, FlowRowLocked, Running
    <2>3. /\ failures' \in [Steps -> Nat] /\ cancels' \in [Steps -> Nat]
          /\ \A r \in Rows : cancels'[r] <= failures'[r]
          /\ \A r \in Steps : r \notin Charged(lineage[s]) => failures'[r] = failures[r] /\ cancels'[r] = cancels[r]
      BY <1>1, <2>2, ChargeFacts DEF PropagateCohortFailure
    <2>4. \A r \in Charged(lineage[s]) : r \in Rows /\ size[r] > 0
      BY <1>0, LossClimbs DEF FrameShape
    <2>5. /\ arrivals' \in [Steps -> Nat] /\ \A r \in Steps : arrivals'[r] >= arrivals[r]
          /\ \A r \in Steps : r \notin Charged(lineage[s]) => arrivals'[r] = arrivals[r]
      BY <1>0, <1>1 DEF PropagateCohortFailure, TypeOK
    <2>6. \A r \in Steps : ~(r \in Rows /\ size[r] > 0) =>
             arrivals'[r] = arrivals[r] /\ failures'[r] = failures[r] /\ cancels'[r] = cancels[r]
      BY <2>3, <2>4, <2>5
    <2>7. flow' \in {"running"} \cup TerminalFlow
      BY <2>1, <2>2 DEF TerminalFlow
    <2>8. \E st \in {"failed", "cancelled"} : status' = [status EXCEPT ![s] = st]
      BY <1>1
    <2>9. TypeOK' /\ BlankRows' /\ RowShape' /\ FrameShape' /\ RoomLeft' /\ FanInIsSound'
      BY <1>2, <2>2, <2>3, <2>5, <2>6, <2>7, <2>8, ReportShape
    <2>10. CountersExact' /\ TrunkExact' /\ LossesCounted' /\ FlowStopsQuiet' /\ CancelledIsPure'
      BY <2>1, <2>2 DEF CountersExact, TrunkExact, LossesCounted, FlowStopsQuiet, CancelledIsPure,
         Running, TerminalFlow
    <2> QED
      BY <2>9, <2>10 DEF IInv
  <1> QED
    BY <1>3, <1>4

\* A transition that inserts nothing and counts at most one arrival.
LEMMA MovedShape ==
  ASSUME IInv, NEW s \in Rows, Owing(s), Moves(s), UNCHANGED <<rows, status, size, failures, cancels, budget>>,
         flow' \in {"running"} \cup TerminalFlow,
         UNCHANGED arrivals \/ (lineage[s] # 0 /\ arrivals' = [arrivals EXCEPT ![lineage[s]] = @ + 1])
  PROVE  /\ TypeOK' /\ BlankRows' /\ RowShape' /\ FrameShape' /\ RoomLeft' /\ FanInIsSound'
         /\ ~Outstanding(s)'
         /\ \A m \in Rows : m # s => status'[m] = status[m] /\ moved'[m] = moved[m]
         /\ \A m \in Rows : Open(m)' => Open(m)
         /\ \A m \in Rows : ~Outstanding(m) => ~Outstanding(m)'
  <1>0. TypeOK /\ FrameShape /\ RowShape
    BY DEF IInv
  <1>1. lineage[s] # 0 => lineage[s] \in Rows /\ size[lineage[s]] > 0 /\ lineage[s] \in Steps
    BY <1>0, FramesAreChain, RowsAreNumbers
  <1>2. /\ arrivals' \in [Steps -> Nat] /\ \A r \in Steps : arrivals'[r] >= arrivals[r]
        /\ \A r \in Steps : r # lineage[s] => arrivals'[r] = arrivals[r]
        /\ lineage[s] = 0 => UNCHANGED arrivals
    BY <1>0, <1>1 DEF TypeOK
  <1>3. failures' \in [Steps -> Nat] /\ cancels' \in [Steps -> Nat] /\ \A r \in Rows : cancels'[r] <= failures'[r]
    BY <1>0 DEF TypeOK, RowShape
  <1>4. \A r \in Steps : ~(r \in Rows /\ size[r] > 0) =>
           arrivals'[r] = arrivals[r] /\ failures'[r] = failures[r] /\ cancels'[r] = cancels[r]
    BY <1>1, <1>2
  <1> QED
    BY <1>2, <1>3, <1>4, ReportShape

\* An arrival that resolves nothing, or comes after the flow stopped.
LEMMA ArrivalKeeps ==
  ASSUME IInv, NEW s \in Rows, Owing(s), lineage[s] # 0, Moves(s), UNCHANGED budget,
         ~Resolving(lineage[s]) \/ ~FlowRowLocked,
         arrivals' = [arrivals EXCEPT ![lineage[s]] = @ + 1],
         UNCHANGED <<rows, status, size, failures, cancels, flow>>
  PROVE  IInv'
  <1> DEFINE c == lineage[s]
  <1> USE DEF rows
  <1>0. TypeOK /\ FrameShape /\ RowShape /\ LossesCounted /\ Rows' = Rows
    BY DEF IInv, Rows
  <1>1. /\ TypeOK' /\ BlankRows' /\ RowShape' /\ FrameShape' /\ RoomLeft' /\ FanInIsSound'
        /\ ~Outstanding(s)'
        /\ \A m \in Rows : m # s => status'[m] = status[m] /\ moved'[m] = moved[m]
    <2>1. flow' \in {"running"} \cup TerminalFlow
      BY <1>0 DEF TypeOK
    <2> QED
      BY <2>1, MovedShape
  <1>2. Outstanding(s) /\ (flow = "terminated" \/ (flow = "running" /\ Running)) /\ s > 0
    BY <1>0, InHand, FlowIsOn, RowsAreNumbers
  <1>3. CASE flow = "terminated"
    <2>1. CountersExact' /\ TrunkExact' /\ LossesCounted' /\ FlowStopsQuiet' /\ CancelledIsPure'
      BY <1>3 DEF CountersExact, TrunkExact, LossesCounted, FlowStopsQuiet, CancelledIsPure,
         Running, TerminalFlow
    <2> QED
      BY <1>1, <2>1 DEF IInv
  <1>4. CASE flow = "running" /\ Running
    <2>1. c \in Rows /\ c \in Steps /\ c # s /\ Open(c) /\ ~Resolving(c)
      <3>1. c \in Rows /\ Open(c)
        BY <1>2, <1>4, OutstandingIsInOpen
      <3>2. c # s
        BY InHand
      <3> QED
        BY <1>0, <1>4, <3>1, <3>2, RowsAreNumbers DEF FlowRowLocked, Running
    <2>2. \A r \in Rows : arrivals'[r] = arrivals[r] + IF r = c THEN 1 ELSE 0
      BY <1>0, <2>1, RowsAreNumbers DEF TypeOK
    <2>3. \A m \in Rows : Open(m)' <=> Open(m)
      <3>1. \A m \in Rows : arrivals[m] \in Nat /\ size[m] \in Nat
        BY <1>0, RowsAreNumbers DEF TypeOK
      <3>2. Open(c)'
        BY <2>1, <2>2, <3>1 DEF Open, Resolving
      <3>3. \A m \in Rows : m # c => arrivals'[m] = arrivals[m]
        BY <2>2, <3>1
      <3> QED
        BY <2>1, <3>2, <3>3 DEF Open
    <2>4. \A m \in Rows : Outstanding(m)' <=> Outstanding(m) /\ m \notin {s}
      BY <1>1, <2>3 DEF Outstanding, Owing
    <2>5. /\ \A r \in Rows : size[r] > 0 => arrivals'[r] + Cardinality(Waiting(r)') = size[r]
          /\ Cardinality(Waiting(0)') = 1
      <3>1. \A r \in Rows : arrivals'[r] = arrivals[r] + IF \E m \in {s} : lineage[m] = r THEN 1 ELSE 0
        BY <2>2
      <3> QED
        BY <1>2, <1>4, <2>4, <3>1, CountsAfterLoss
    <2>6. CountersExact' /\ TrunkExact'
      BY <1>0, <2>5 DEF CountersExact, TrunkExact, Waiting
    <2>7. LossesCounted'
      <3>1. \A r \in Rows : Tainted(r)' <=> Tainted(r)
        BY DEF Tainted
      <3>2. \A r \in Rows : Tainted(lineage[r])' <=> Tainted(lineage[r])
        BY DEF Tainted
      <3> QED
        BY <1>0, <1>4, <2>3, <3>1, <3>2 DEF LossesCounted
    <2>8. FlowStopsQuiet' /\ CancelledIsPure'
      BY <1>4 DEF FlowStopsQuiet, CancelledIsPure
    <2> QED
      BY <1>1, <2>6, <2>7, <2>8 DEF IInv
  <1> QED
    BY <1>2, <1>3, <1>4

\* completeFlow: the trunk is the one place the flow still was, so that with it
\* everything has stopped, and nothing was lost on the way.
LEMMA CompleteFlowKeeps ==
  ASSUME IInv, NEW s \in Rows, CompleteFlow(s)
  PROVE  IInv'
  <1> USE DEF rows, counters
  <1>0. TypeOK /\ FrameShape /\ RowShape /\ LossesCounted /\ Rows' = Rows
    BY DEF IInv, Rows, CompleteFlow
  <1>1. /\ Owing(s) /\ Running /\ lineage[s] = 0 /\ Moves(s) /\ flow' = "completed"
        /\ UNCHANGED <<rows, status, counters, budget>>
    BY DEF CompleteFlow, FlowRowLocked, Running
  <1>2. /\ TypeOK' /\ BlankRows' /\ RowShape' /\ FrameShape' /\ RoomLeft' /\ FanInIsSound'
        /\ ~Outstanding(s)'
        /\ \A m \in Rows : m # s => status'[m] = status[m] /\ moved'[m] = moved[m]
    <2>1. flow' \in {"running"} \cup TerminalFlow
      BY <1>1 DEF TerminalFlow
    <2> QED
      BY <1>1, <2>1, MovedShape
  <1>3. \A m \in Rows : Outstanding(m)' <=> Outstanding(m) /\ m \notin {s}
    BY <1>1, <1>2 DEF Outstanding, Owing, Open
  <1>4. \A m \in Rows : ~Outstanding(m)'
    <2>1. \A r \in Rows : arrivals'[r] = arrivals[r] + IF \E m \in {s} : lineage[m] = r THEN 1 ELSE 0
      BY <1>0, <1>1, RowsAreNumbers DEF TypeOK
    <2>2. Outstanding(s)
      BY <1>1, InHand
    <2> QED
      BY <1>1, <1>3, <2>1, <2>2, CountsAfterLoss
  <1>5. ASSUME NEW m \in Rows PROVE status[m] = "completed"
    <2>1. \A r \in Rows : Open(r) => failures[r] = 0
      <3>1. ~Open(s)
        BY <1>1, InHand
      <3> QED
        BY <1>3, <1>4, <3>1 DEF Outstanding
    <2>2. status[m] \notin {"failed", "cancelled"}
      BY <1>1, <2>1, NoLossNoFailure
    <2>3. status[m] \notin {"none", "terminated"}
      BY <1>0, <1>1 DEF RowShape, LossesCounted
    <2>4. status[m] \notin LiveStep
      BY <1>1, <1>3, <1>4 DEF Outstanding, Owing, LiveStep
    <2>5. status[m] \in StepStatuses
      BY <1>0, RowsAreNumbers DEF TypeOK
    <2> QED
      BY <2>2, <2>3, <2>4, <2>5 DEF StepStatuses, TerminalFlow
  <1>6. FlowStopsQuiet' /\ CancelledIsPure'
    BY <1>0, <1>1, <1>4, <1>5 DEF FlowStopsQuiet, CancelledIsPure
  <1>7. CountersExact' /\ TrunkExact' /\ LossesCounted'
    BY <1>1 DEF CountersExact, TrunkExact, LossesCounted, Running, TerminalFlow
  <1> QED
    BY <1>2, <1>6, <1>7 DEF IInv

\* The terminal-status guard: the flow was terminated under the worker.
LEMMA TransitionNoOpKeeps ==
  ASSUME IInv, NEW s \in Rows, TransitionNoOp(s)
  PROVE  IInv'
  <1> USE DEF rows, counters
  <1>1. /\ Owing(s) /\ Moves(s) /\ ~Running
        /\ UNCHANGED <<rows, status, counters, flow, budget>>
    BY DEF TransitionNoOp, FlowRowLocked, Running
  <1>2. flow = "terminated" /\ flow' = "terminated"
    BY <1>1, InHand, FlowIsOn
  <1>3. TypeOK' /\ BlankRows' /\ RowShape' /\ FrameShape' /\ RoomLeft' /\ FanInIsSound'
    <2>1. flow' \in {"running"} \cup TerminalFlow
      BY <1>2 DEF TerminalFlow
    <2> QED
      BY <1>1, <2>1, MovedShape
  <1>4. CountersExact' /\ TrunkExact' /\ LossesCounted' /\ FlowStopsQuiet' /\ CancelledIsPure'
    BY <1>2 DEF CountersExact, TrunkExact, LossesCounted, FlowStopsQuiet, CancelledIsPure,
       Running, TerminalFlow
  <1> QED
    BY <1>3, <1>4 DEF IInv

\* Terminate spares the settled rows, and so the members of joined cohorts.
LEMMA TerminateKeeps ==
  ASSUME IInv, Terminate
  PROVE  IInv'
  <1> USE DEF rows, counters
  <1>0. TypeOK /\ BlankRows /\ RowShape /\ FrameShape /\ RoomLeft /\ FanInIsSound /\ Rows' = Rows
    BY DEF IInv, Rows, Terminate
  <1>1. /\ flow' = "terminated" /\ UNCHANGED <<rows, counters, moved, budget>>
        /\ status' = [r \in Steps |-> IF status[r] \in LiveStep THEN "terminated" ELSE status[r]]
    BY DEF Terminate
  <1>2. \A r \in Rows : r \in Steps /\ status'[r] = IF status[r] \in LiveStep THEN "terminated" ELSE status[r]
    BY <1>0, <1>1, RowsAreNumbers
  <1>3. \A r \in Rows : (Open(r)' <=> Open(r)) /\ (~Outstanding(r) => ~Outstanding(r)')
    BY <1>1, <1>2 DEF Open, Outstanding, Owing, LiveStep
  <1>4. TypeOK'
    BY <1>0, <1>1 DEF TypeOK, StepStatuses, LiveStep, TerminalFlow
  <1>5. BlankRows' /\ FrameShape'
    BY <1>0, <1>1 DEF BlankRows, FrameShape
  <1>6. RowShape'
    BY <1>0, <1>1, <1>2 DEF RowShape, LiveStep
  <1>7. RoomLeft'
    <2>1. {c \in Rows : Open(c)}' = {c \in Rows : Open(c)}
      BY <1>0, <1>3
    <2> QED
      BY <1>0, <1>1, <2>1 DEF RoomLeft
  <1>8. FanInIsSound'
    <2>1. \A c : Members(c)' = Members(c) /\ Members(c) \subseteq Rows
      BY <1>0, <1>1 DEF Members
    <2> QED
      BY <1>0, <1>1, <1>2, <1>3, <2>1 DEF FanInIsSound, LiveStep
  <1>9. CountersExact' /\ TrunkExact' /\ LossesCounted' /\ FlowStopsQuiet' /\ CancelledIsPure'
    BY <1>1 DEF CountersExact, TrunkExact, LossesCounted, FlowStopsQuiet, CancelledIsPure,
       Running, TerminalFlow
  <1> QED
    BY <1>4, <1>5, <1>6, <1>7, <1>8, <1>9 DEF IInv

-----------------------------------------------------------------------------
(* The steps that insert rows *)

\* The rows new are inserted into cohort lin as s moves on.
Inserted(s, new, lin, join) ==
    /\ TypeOK' /\ BlankRows' /\ RowShape' /\ FrameShape'
    /\ \A r : r \in Rows' <=> r \in Rows \/ r \in new
    /\ \A r \in Rows : /\ status'[r] = status[r] /\ lineage'[r] = lineage[r] /\ joins'[r] = joins[r]
                       /\ (moved'[r] <=> r = s \/ moved[r]) /\ r \notin new
    /\ \A r \in new :
          /\ r \in Steps /\ r \notin Rows /\ status'[r] = "pending" /\ lineage'[r] = lin /\ joins'[r] = join
          /\ size'[r] = 0 /\ failures'[r] = 0 /\ cancels'[r] = 0 /\ Outstanding(r)' /\ ~Open(r)'

\* Inserted rows are pending, count nothing and take the chain of the cohort
\* they are inserted into; the rows before them keep their shape.
LEMMA InsertShape ==
  ASSUME IInv, NEW s \in Rows, Owing(s), Moves(s),
         NEW n \in Nat, n > 0, last + n <= MaxSteps,
         NEW lin \in {0} \cup Rows, NEW join \in {0} \cup Rows, NEW state \in SUBSET Steps,
         InsertSteps(n, lin, join, state),
         size' \in [Steps -> Nat], arrivals' \in [Steps -> Nat],
         UNCHANGED <<failures, cancels, flow, budget>>,
         \A r \in Steps : r # s => size'[r] = size[r],
         \A r \in Steps : r # s /\ ~(r \in Rows /\ size[r] > 0) => arrivals'[r] = arrivals[r],
         size'[s] = 0 => arrivals'[s] = 0,
         lin # 0 => size'[lin] > 0,
         join # 0 => join = s \/ moved[join]
  PROVE  Inserted(s, last + 1 .. last + n, lin, join)
  <1> DEFINE new == last + 1 .. last + n
  <1>0. TypeOK /\ BlankRows /\ RowShape /\ FrameShape
    BY DEF IInv
  <1>1. /\ last \in Nat /\ last > 0 /\ MaxSteps \in Nat /\ last' = last + n /\ last' \in Steps
        /\ \A r \in Rows : r \in Nat /\ r > 0 /\ r \in Steps /\ r <= last
    BY <1>0, RowsAreNumbers, CohortStepsAssumption DEF InsertSteps, Rows, Steps
  <1>2. /\ \A r : r \in Rows' <=> r \in Rows \/ r \in new
        /\ \A r \in new : r \in Steps /\ r \notin Rows /\ r \in Nat /\ r > last
        /\ \A r \in Rows : r \notin new
    <2>1. Rows = 1 .. last /\ Rows' = 1 .. last + n /\ Steps = 1 .. MaxSteps
      BY <1>1 DEF Rows, Steps
    <2>2. ASSUME NEW r \in Int
          PROVE  /\ r \in 1 .. last + n <=> r \in 1 .. last \/ r \in last + 1 .. last + n
                 /\ r \in last + 1 .. last + n => r \in 1 .. MaxSteps /\ r \notin 1 .. last /\ r \in Nat /\ r > last
      BY <1>1, <2>2
    <2>3. \A r : r \in 1 .. last + n \/ r \in 1 .. last \/ r \in last + 1 .. last + n => r \in Int
      BY <1>1
    <2> QED
      BY <2>1, <2>2, <2>3
  <1>3. /\ status' = [r \in Steps |-> IF r \in new THEN "pending" ELSE status[r]]
        /\ lineage' = [r \in Steps |-> IF r \in new THEN lin ELSE lineage[r]]
        /\ frames' = [r \in Steps |-> IF r \notin new THEN frames[r]
                                      ELSE IF lin = 0 THEN {} ELSE {lin} \cup frames[lin]]
        /\ joins' = [r \in Steps |-> IF r \in new THEN join ELSE joins[r]]
        /\ carried' = [r \in Steps |-> IF r \in new THEN state ELSE carried[r]]
    BY DEF InsertSteps
  <1> HIDE DEF new
  <1>4. /\ ~moved[s] /\ size[s] = 0 /\ failures[s] = 0 /\ cancels[s] = 0 /\ status[s] = "completed"
        /\ \A m \in Rows : lineage[m] # s /\ s \notin frames[m]
    BY InHand DEF Owing
  <1>5. /\ \A r \in Steps : (moved'[r] <=> r = s \/ moved[r])
        /\ moved' \in [Steps -> BOOLEAN]
    BY <1>0, <1>1 DEF Moves, TypeOK
  <1>6. \A r \in Rows : /\ status'[r] = status[r] /\ lineage'[r] = lineage[r] /\ joins'[r] = joins[r]
                        /\ frames'[r] = frames[r] /\ (moved'[r] <=> r = s \/ moved[r])
    BY <1>1, <1>2, <1>3, <1>5
  <1>7. ASSUME NEW r \in new
        PROVE  /\ status'[r] = "pending" /\ lineage'[r] = lin /\ joins'[r] = join
               /\ frames'[r] = IF lin = 0 THEN {} ELSE {lin} \cup frames[lin]
               /\ size'[r] = 0 /\ arrivals'[r] = 0 /\ failures'[r] = 0 /\ cancels'[r] = 0 /\ ~moved'[r]
               /\ Outstanding(r)' /\ ~Open(r)'
    <2>1. r \in Steps /\ r # s /\ r \notin Rows
      BY <1>2
    <2>2. size[r] = 0 /\ arrivals[r] = 0 /\ failures[r] = 0 /\ cancels[r] = 0 /\ ~moved[r]
      BY <1>0, <2>1 DEF BlankRows
    <2>3. size'[r] = 0 /\ arrivals'[r] = 0 /\ failures'[r] = 0 /\ cancels'[r] = 0 /\ ~moved'[r]
      BY <1>5, <2>1, <2>2
    <2>4. status'[r] = "pending" /\ lineage'[r] = lin /\ joins'[r] = join
      BY <1>3, <2>1, <1>7
    <2>5. frames'[r] = IF lin = 0 THEN {} ELSE {lin} \cup frames[lin]
      BY <1>3, <2>1, <1>7
    <2>6. Outstanding(r)' /\ ~Open(r)'
      BY <2>3, <2>4 DEF Outstanding, Open, LiveStep
    <2> QED
      BY <2>3, <2>4, <2>5, <2>6
  <1>8. TypeOK'
    <2>1. status' \in [Steps -> StepStatuses]
      BY <1>0, <1>3 DEF TypeOK, StepStatuses, LiveStep
    <2>2. lineage' \in [Steps -> {0} \cup Steps] /\ joins' \in [Steps -> {0} \cup Steps]
      BY <1>0, <1>1, <1>3 DEF TypeOK
    <2>3. frames' \in [Steps -> SUBSET Steps]
      <3>1. ASSUME NEW r \in Steps
            PROVE  (IF r \notin new THEN frames[r] ELSE IF lin = 0 THEN {} ELSE {lin} \cup frames[lin]) \in SUBSET Steps
        <4>1. lin # 0 => {lin} \cup frames[lin] \in SUBSET Steps
          BY <1>0, <1>1 DEF TypeOK
        <4> QED
          BY <1>0, <4>1 DEF TypeOK
      <3> QED
        BY <1>3, <3>1
    <2>4. carried' \in [Steps -> SUBSET Steps]
      BY <1>0, <1>3 DEF TypeOK
    <2>5. failures' \in [Steps -> Nat] /\ cancels' \in [Steps -> Nat] /\ flow' \in {"running"} \cup TerminalFlow /\ budget' \in Nat
      BY <1>0 DEF TypeOK
    <2> QED
      BY <1>1, <1>5, <2>1, <2>2, <2>3, <2>4, <2>5 DEF TypeOK
  <1>9. BlankRows'
    <2> SUFFICES ASSUME NEW r \in Steps, r \notin Rows'
                 PROVE  size'[r] = 0 /\ arrivals'[r] = 0 /\ failures'[r] = 0 /\ cancels'[r] = 0 /\ ~moved'[r]
      BY DEF BlankRows
    <2>1. r \notin Rows /\ r # s
      BY <1>2
    <2>2. size[r] = 0 /\ arrivals[r] = 0 /\ failures[r] = 0 /\ cancels[r] = 0 /\ ~moved[r]
      BY <1>0, <2>1 DEF BlankRows
    <2> QED
      BY <1>5, <2>1, <2>2
  <1>10. RowShape'
    <2> SUFFICES ASSUME NEW r \in Rows'
                 PROVE  /\ status'[r] # "none"
                        /\ moved'[r] => status'[r] = "completed"
                        /\ size'[r] > 0 => moved'[r]
                        /\ size'[r] = 0 => arrivals'[r] = 0 /\ failures'[r] = 0 /\ cancels'[r] = 0
                        /\ cancels'[r] <= failures'[r]
                        /\ joins'[r] # 0 => joins'[r] \in Rows' /\ moved'[joins'[r]]
      BY DEF RowShape
    <2>1. CASE r \in new
      <3>1. join # 0 => join \in Rows' /\ moved'[join]
        BY <1>2, <1>6
      <3>2. status'[r] = "pending" /\ joins'[r] = join /\ size'[r] = 0 /\ ~moved'[r]
        BY <1>7, <2>1
      <3>3. arrivals'[r] = 0 /\ failures'[r] = 0 /\ cancels'[r] = 0
        BY <1>7, <2>1
      <3> QED
        BY <3>1, <3>2, <3>3
    <2>2. CASE r \in Rows /\ r # s
      <3>1. status'[r] # "none" /\ (moved'[r] => status'[r] = "completed") /\ (size'[r] > 0 => moved'[r])
        BY <1>0, <1>1, <1>6, <2>2 DEF RowShape
      <3>2. /\ size'[r] = 0 => arrivals'[r] = 0 /\ failures'[r] = 0 /\ cancels'[r] = 0
            /\ cancels'[r] <= failures'[r]
        BY <1>0, <1>1, <2>2 DEF RowShape
      <3>3. joins'[r] # 0 => joins'[r] \in Rows' /\ moved'[joins'[r]]
        BY <1>0, <1>2, <1>6, <2>2 DEF RowShape
      <3> QED
        BY <3>1, <3>2, <3>3
    <2>3. CASE r = s
      BY <1>0, <1>2, <1>4, <1>6, <2>3 DEF RowShape
    <2> QED
      BY <1>2, <2>1, <2>2, <2>3
  <1>11. FrameShape'
    <2>1. ASSUME NEW m \in Rows, NEW q \in frames[m]
          PROVE  q \in Rows /\ q < m /\ size'[q] > 0 /\ q # s
      BY <1>0, <1>1, <1>4, <2>1 DEF FrameShape
    <2> SUFFICES ASSUME NEW m \in Rows'
                 PROVE  /\ lineage'[m] = 0 => frames'[m] = {}
                        /\ lineage'[m] # 0 => lineage'[m] \in frames'[m] /\ \A q \in frames'[m] : q <= lineage'[m]
                        /\ \A q \in frames'[m] :
                              /\ q \in Rows' /\ q < m /\ size'[q] > 0
                              /\ \A r \in Rows' : r \in frames'[q] <=> r \in frames'[m] /\ r < q
      BY DEF FrameShape
    <2>2. CASE m \in Rows
      <3>1. /\ lineage'[m] = 0 => frames'[m] = {}
            /\ lineage'[m] # 0 => lineage'[m] \in frames'[m] /\ \A q \in frames'[m] : q <= lineage'[m]
        BY <1>0, <1>6, <2>2 DEF FrameShape
      <3>2. ASSUME NEW q \in frames'[m]
            PROVE  /\ q \in Rows' /\ q < m /\ size'[q] > 0
                   /\ \A r \in Rows' : r \in frames'[q] <=> r \in frames'[m] /\ r < q
        <4>1. q \in frames[m] /\ q \in Rows /\ q < m /\ size'[q] > 0
          BY <1>6, <2>1, <2>2, <3>2
        <4>2. frames'[q] = frames[q] /\ frames'[m] = frames[m]
          BY <1>6, <2>2, <4>1
        <4>3. ASSUME NEW r \in Rows' PROVE r \in frames[q] <=> r \in frames[m] /\ r < q
          <5>1. CASE r \in Rows
            BY <1>0, <2>2, <4>1, <5>1 DEF FrameShape
          <5>2. CASE r \notin Rows
            BY <2>1, <2>2, <4>1, <5>2
          <5> QED
            BY <5>1, <5>2
        <4> QED
          BY <1>2, <4>1, <4>2, <4>3
      <3> QED
        BY <3>1, <3>2
    <2>3. CASE m \in new /\ lin = 0
      BY <1>7, <2>3
    <2>4. CASE m \in new /\ lin # 0
      <3>1. lineage'[m] = lin /\ frames'[m] = Chain(lin) /\ lin \in Rows
        BY <1>7, <2>4 DEF Chain
      <3>2. /\ lin \in Chain(lin)
            /\ \A q \in Chain(lin) : q \in Rows /\ q \in Nat /\ q <= lin /\ frames[q] \subseteq Rows
            /\ \A q \in Chain(lin), r \in Rows : r \in frames[q] <=> r \in Chain(lin) /\ r < q
        BY <1>0, <3>1, ChainShape
      <3>3. ASSUME NEW q \in Chain(lin)
            PROVE  /\ q \in Rows' /\ q < m /\ size'[q] > 0
                   /\ \A r \in Rows' : r \in frames'[q] <=> r \in Chain(lin) /\ r < q
        <4>1. q \in Rows /\ q <= last /\ m \in Nat /\ m > last
          BY <1>1, <1>2, <2>4, <3>2
        <4>2. size'[q] > 0
          <5>1. q = lin \/ q \in frames[lin]
            BY <3>3 DEF Chain
          <5> QED
            BY <2>1, <2>4, <3>1, <5>1
        <4>3. frames'[q] = frames[q]
          BY <1>6, <4>1
        <4>4. ASSUME NEW r \in Rows' PROVE r \in frames[q] <=> r \in Chain(lin) /\ r < q
          BY <3>2, <3>3
        <4> QED
          BY <1>1, <1>2, <4>1, <4>2, <4>3, <4>4
      <3> QED
        BY <2>4, <3>1, <3>2, <3>3
    <2> QED
      BY <1>2, <2>2, <2>3, <2>4
  <1> QED
    BY <1>2, <1>6, <1>7, <1>8, <1>9, <1>10, <1>11 DEF new, Inserted

\* One row takes the place of another in its cohort: the successor or the
\* fan-in for the step s itself, or the fan-in for the spawn d whose cohort s
\* is the last to arrive at.
LEMMA SwapKeeps ==
  ASSUME IInv, Running, NEW s \in Rows, Owing(s), Moves(s), NEW d \in Rows,
         d = s \/ (d = lineage[s] /\ Resolving(d) /\ failures[d] = 0),
         NEW join \in {0, d}, join = 0 => d = s, NEW state \in SUBSET Steps,
         NEW lin, lin = lineage[d], NEW f, f = last + 1,
         InsertSteps(1, lin, join, state), d = s => Room(1),
         size' \in [Steps -> Nat], arrivals' \in [Steps -> Nat],
         UNCHANGED <<failures, cancels, flow, budget>>,
         \A r \in Steps : r # s => size'[r] = size[r] /\ arrivals'[r] = arrivals[r] + IF r = d THEN 1 ELSE 0,
         arrivals'[s] = size'[s]
  PROVE  IInv'
  <1>0. TypeOK /\ BlankRows /\ RowShape /\ FrameShape /\ LossesCounted /\ FanInIsSound
    BY DEF IInv
  <1>1. /\ Outstanding(s) /\ ~moved[s] /\ size[s] = 0 /\ ~Open(s) /\ failures[s] = 0 /\ cancels[s] = 0
        /\ s \in Steps /\ status[s] = "completed"
        /\ \A m \in Rows : lineage[m] # s /\ s \notin frames[m]
        /\ \A g \in Rows : joins[g] # s /\ (joins[g] # 0 => lineage[s] # joins[g])
    BY InHand DEF Owing
  <1>2. /\ last \in Nat /\ 0 \notin Rows
        /\ \A r \in Rows : r \in Steps /\ r \in Nat /\ r > 0 /\ size[r] \in Nat /\ arrivals[r] \in Nat
                           /\ failures[r] \in Nat /\ cancels[r] \in Nat /\ cancels[r] <= failures[r]
    <2>1. last \in Nat /\ \A r \in Rows : r \in Steps /\ r \in Nat /\ r > 0
      BY <1>0, RowsAreNumbers
    <2> QED
      BY <1>0, <2>1 DEF TypeOK, RowShape
  <1>3. d # s => d = lineage[s] /\ Open(d) /\ Resolving(d) /\ failures[d] = 0 /\ size[d] > 0 /\ moved[d]
                 /\ status[d] = "completed" /\ cancels[d] = 0
    <2>1. ASSUME d # s PROVE d = lineage[s] /\ lineage[s] # 0 /\ Resolving(d) /\ failures[d] = 0
      BY <1>2, <2>1
    <2>2. d # s => Open(d)
      BY <1>1, <2>1, OutstandingIsInOpen
    <2> QED
      BY <1>0, <1>2, <2>1, <2>2 DEF RowShape, Open
  <1>4. Outstanding(d)
    BY <1>1, <1>3 DEF Outstanding
  <1>5. lin # 0 => lin \in Rows /\ lin < d /\ size[lin] > 0 /\ lin # s /\ lin # d
    <2>1. lin # 0 => lin \in Rows /\ lin < d /\ size[lin] > 0
      BY <1>0, FramesAreChain
    <2> QED
      BY <1>2, <1>1, <2>1
  <1>6. lin # s /\ lin # d
    BY <1>2, <1>5
  <1>7. \A r : r \in last + 1 .. last + 1 <=> r = f
    BY <1>2
  <1> DEFINE Op == {c \in Rows : Open(c)}
  <1>r. /\ IsFiniteSet(Op) /\ Cardinality(Op) \in Nat
        /\ IsFiniteSet(Op \ {d}) /\ Cardinality(Op \ {d}) \in Nat
        /\ last + 1 + Cardinality(Op \ {d}) <= MaxSteps /\ last + 1 <= MaxSteps
    <2>1. IsFiniteSet(Op) /\ Cardinality(Op) \in Nat /\ IsFiniteSet(Op \ {d}) /\ Cardinality(Op \ {d}) \in Nat
      BY <1>0, RowsFinite
    <2>2. CASE d = s
      <3>1. Op \ {d} = Op
        BY <1>1, <2>2
      <3>2. last + 1 + Cardinality(Op) <= MaxSteps
        BY <2>2 DEF Room
      <3> HIDE DEF Op
      <3> QED
        BY <1>2, <2>1, <3>1, <3>2, CohortStepsAssumption
    <2>3. CASE d # s
      <3>1. d \in Op
        BY <1>3, <2>3
      <3>2. last + Cardinality(Op) <= MaxSteps
        BY DEF IInv, RoomLeft
      <3> HIDE DEF Op
      <3>3. Cardinality(Op \ {d}) = Cardinality(Op) - 1
        BY <2>1, <3>1, FS_RemoveElement
      <3> QED
        BY <1>2, <2>1, <3>2, <3>3, CohortStepsAssumption
    <2> QED
      BY <2>1, <2>2, <2>3
  <1> HIDE DEF Op
  <1>8. Inserted(s, last + 1 .. last + 1, lin, join)
    <2>1. \A r \in Steps : r # s => size'[r] = size[r]
      OBVIOUS
    <2>2. ASSUME NEW r \in Steps, r # s, ~(r \in Rows /\ size[r] > 0) PROVE arrivals'[r] = arrivals[r]
      <3>1. r # d
        BY <1>3, <2>2
      <3> QED
        BY <1>0, <2>2, <3>1 DEF TypeOK
    <2>3. size'[s] = 0 => arrivals'[s] = 0
      OBVIOUS
    <2>4. lin # 0 => size'[lin] > 0
      BY <1>2, <1>5
    <2>5. join # 0 => join = s \/ moved[join]
      BY <1>3
    <2>6. lin \in {0} \cup Rows /\ join \in {0} \cup Rows /\ 1 \in Nat /\ 1 > 0
      BY <1>5
    <2>7. \A r \in Steps : r # s /\ ~(r \in Rows /\ size[r] > 0) => arrivals'[r] = arrivals[r]
      BY <2>2
    <2> QED
      BY <1>r, <2>1, <2>3, <2>4, <2>5, <2>6, <2>7, InsertShape
  <1>9. /\ \A r : r \in Rows' <=> r \in Rows \/ r = f
        /\ f \notin Rows /\ status'[f] = "pending" /\ lineage'[f] = lin /\ joins'[f] = join
        /\ size'[f] = 0 /\ failures'[f] = 0 /\ cancels'[f] = 0 /\ Outstanding(f)' /\ ~Open(f)'
        /\ \A r \in Rows : /\ status'[r] = status[r] /\ lineage'[r] = lineage[r] /\ joins'[r] = joins[r]
                           /\ (moved'[r] <=> r = s \/ moved[r])
    BY <1>7, <1>8 DEF Inserted
  <1>10. ASSUME NEW m \in Rows
         PROVE  /\ Outstanding(m)' <=> Outstanding(m) /\ m # s /\ m # d
                /\ m # s /\ m # d => (Open(m)' <=> Open(m))
                /\ m = s \/ m = d => ~Open(m)'
    <2>1. CASE m = s
      BY <1>1, <1>2, <1>9, <2>1 DEF Outstanding, Owing, Open, LiveStep
    <2>2. CASE m = d /\ d # s
      <3>1. arrivals'[m] = arrivals[m] + 1 /\ size'[m] = size[m]
        BY <1>2, <2>2
      <3>2. ~Open(m)'
        BY <1>2, <1>3, <2>2, <3>1 DEF Open, Resolving
      <3> QED
        BY <1>3, <1>9, <2>2, <3>2 DEF Outstanding, Owing, LiveStep
    <2>3. CASE m # s /\ m # d
      <3>1. arrivals'[m] = arrivals[m] /\ size'[m] = size[m]
        BY <1>2, <2>3
      <3>2. Open(m)' <=> Open(m)
        BY <3>1 DEF Open
      <3> QED
        BY <1>9, <2>3, <3>2 DEF Outstanding, Owing
    <2> QED
      BY <2>1, <2>2, <2>3
  <1>11. ASSUME NEW c, NEW m
         PROVE  m \in Waiting(c)' <=> \/ m \in Waiting(c) /\ m # s /\ m # d
                                      \/ m = f /\ c = lin
    <2>1. CASE m \in Rows
      BY <1>9, <1>10, <2>1 DEF Waiting, Members
    <2>2. CASE m = f
      BY <1>9, <2>2 DEF Waiting, Members
    <2>3. CASE m \notin Rows /\ m # f
      BY <1>9, <2>3 DEF Waiting, Members
    <2> QED
      BY <2>1, <2>2, <2>3
  <1>12. ASSUME NEW c PROVE IsFiniteSet(Waiting(c)) /\ Cardinality(Waiting(c)) \in Nat /\ Waiting(c) \subseteq Rows
    BY <1>0, WaitingFinite
  <1>13. Cardinality(Waiting(lin)') = Cardinality(Waiting(lin))
    <2>1. d \in Waiting(lin) /\ s \in Waiting(lineage[s])
      BY <1>1, <1>4 DEF Waiting, Members
    <2>2. d # s => s \notin Waiting(lin)
      BY <1>3, <1>6 DEF Waiting, Members
    <2>3. Waiting(lin)' = (Waiting(lin) \ {d}) \cup {f}
      <3>1. \A m : m \in Waiting(lin)' <=> m \in (Waiting(lin) \ {d}) \cup {f}
        BY <1>11, <2>2
      <3> QED
        BY <3>1
    <2>4. f \notin Waiting(lin) \ {d}
      BY <1>9, <1>12
    <2>5. IsFiniteSet(Waiting(lin) \ {d}) /\ Cardinality(Waiting(lin) \ {d}) = Cardinality(Waiting(lin)) - 1
      BY <1>12, <2>1, FS_RemoveElement
    <2>6. Cardinality((Waiting(lin) \ {d}) \cup {f}) = Cardinality(Waiting(lin) \ {d}) + 1
      BY <2>4, <2>5, FS_AddElement
    <2> QED
      BY <1>12, <2>3, <2>5, <2>6
  <1>14. ASSUME NEW c, c # lin, c # lineage[s] \/ d = s PROVE Waiting(c)' = Waiting(c)
    <2>1. s \notin Waiting(c) /\ d \notin Waiting(c)
      BY <1>14 DEF Waiting, Members
    <2>2. \A m : m \in Waiting(c)' <=> m \in Waiting(c)
      BY <1>11, <1>14, <2>1
    <2> QED
      BY <2>2
  <1>15. d # s => Cardinality(Waiting(d)') = Cardinality(Waiting(d)) - 1
    <2> HAVE d # s
    <2>1. s \in Waiting(d) /\ d \notin Waiting(d)
      BY <1>1, <1>3, <1>6 DEF Waiting, Members
    <2>2. Waiting(d)' = Waiting(d) \ {s}
      <3>1. \A m : m \in Waiting(d)' <=> m \in Waiting(d) \ {s}
        BY <1>6, <1>11, <2>1
      <3> QED
        BY <3>1
    <2> QED
      BY <1>12, <2>1, <2>2, FS_RemoveElement
  <1>16. CountersExact'
    <2> SUFFICES ASSUME NEW c \in Rows', size'[c] > 0
                 PROVE  arrivals'[c] + Cardinality(Waiting(c)') = size'[c]
      BY DEF CountersExact, Waiting
    <2>1. c \in Rows
      BY <1>9
    <2>2. c # s => arrivals[c] + Cardinality(Waiting(c)) = size[c] /\ Cardinality(Waiting(c)) \in Nat
      BY <1>2, <1>12, <2>1 DEF IInv, CountersExact, Running, Waiting
    <2>3. CASE c = s
      <3>1. Waiting(s)' = {}
        <4>1. \A m : m \notin Waiting(s)
          BY <1>1 DEF Waiting, Members
        <4> QED
          BY <1>6, <1>11, <4>1
      <3>2. Cardinality(Waiting(c)') = 0
        BY <2>3, <3>1, FS_EmptySet
      <3> QED
        BY <1>1, <2>3, <3>2
    <2>4. CASE c = d /\ d # s
      BY <1>2, <1>15, <2>1, <2>2, <2>4
    <2>5. CASE c = lin
      BY <1>2, <1>6, <1>13, <2>1, <2>2, <2>5
    <2>6. CASE c # s /\ c # d /\ c # lin
      <3>1. Waiting(c)' = Waiting(c)
        BY <1>3, <1>14, <2>6
      <3> QED
        BY <1>2, <2>1, <2>2, <2>6, <3>1
    <2> QED
      BY <2>3, <2>4, <2>5, <2>6
  <1>17. TrunkExact'
    <2>1. CASE lin = 0
      BY <1>13, <2>1 DEF IInv, TrunkExact
    <2>2. CASE lin # 0
      <3>1. Waiting(0)' = Waiting(0)
        BY <1>2, <1>3, <1>14, <2>2
      <3> QED
        BY <3>1 DEF IInv, TrunkExact
    <2> QED
      BY <2>1, <2>2
  <1>18. LossesCounted'
    <2>1. \A c : Tainted(c)' <=> Tainted(c)
      BY DEF Tainted
    <2>2. ASSUME NEW m \in Rows'
          PROVE  /\ status'[m] # "terminated"
                 /\ status'[m] \in {"failed", "cancelled"} => lineage'[m] # 0 /\ failures'[lineage'[m]] > 0
                 /\ status'[m] = "failed" => Tainted(lineage'[m])
      BY <1>0, <1>9 DEF LossesCounted
    <2>3. ASSUME NEW c \in Rows', size'[c] > 0, ~Open(c)'
          PROVE  /\ failures'[c] > 0 => lineage'[c] # 0 /\ failures'[lineage'[c]] > 0
                 /\ Tainted(c) => Tainted(lineage'[c])
      <3>1. c \in Rows
        BY <1>9, <2>3
      <3>2. CASE c = s \/ c = d
        BY <1>1, <1>3, <3>2, <1>2 DEF Tainted
      <3>3. CASE c # s /\ c # d
        <4>1. ~Open(c) /\ size[c] > 0
          BY <1>2, <1>10, <2>3, <3>1, <3>3
        <4> QED
          BY <1>0, <1>9, <3>1, <4>1 DEF LossesCounted
      <3> QED
        BY <3>2, <3>3
    <2>4. ASSUME NEW c \in Rows', Tainted(c) PROVE \E m \in Rows' : status'[m] = "failed"
      <3>1. c \in Rows
        BY <1>9, <2>1, <2>4 DEF Tainted
      <3>2. PICK m \in Rows : status[m] = "failed"
        BY <1>0, <2>4, <3>1 DEF LossesCounted
      <3> QED
        BY <1>9, <3>2
    <2>5. \A m : Tainted(lineage[m])' <=> Tainted(lineage'[m])
      BY DEF Tainted
    <2> QED
      BY <2>1, <2>2, <2>3, <2>4, <2>5 DEF LossesCounted
  <1>19. FanInIsSound'
    <2>1. ASSUME NEW m \in Rows, lineage[m] = d, d # s PROVE status[m] = "completed" /\ (m # s => ~Outstanding(m))
      <3>1. arrivals[d] + Cardinality(Waiting(d)) = size[d]
        BY <1>3, <2>1 DEF IInv, CountersExact, Running, Waiting
      <3>2. Cardinality(Waiting(d)) = 1
        BY <1>2, <1>3, <1>12, <2>1, <3>1 DEF Open, Resolving
      <3>3. PICK w : Waiting(d) = {w}
        BY <1>12, <3>2, FS_Singleton
      <3>4. s \in Waiting(d)
        BY <1>1, <1>3, <2>1 DEF Waiting, Members
      <3>5. m # s => ~Outstanding(m)
        BY <2>1, <3>3, <3>4 DEF Waiting, Members
      <3>6. status[m] \notin {"failed", "cancelled", "none", "terminated"}
        BY <1>0, <1>3, <2>1 DEF LossesCounted, RowShape
      <3>7. m # s => status[m] \notin LiveStep
        BY <3>5 DEF Outstanding
      <3>8. status[m] \in StepStatuses
        BY <1>0, <1>2 DEF TypeOK
      <3> QED
        BY <1>1, <3>5, <3>6, <3>7, <3>8 DEF StepStatuses, TerminalFlow
    <2>2. ASSUME NEW g \in Rows, joins[g] # 0 PROVE joins[g] # d /\ joins[g] # lin
      <3>1. \A m \in Rows : lineage[m] = joins[g] => status[m] = "completed" /\ ~Outstanding(m)
        BY <1>0, <2>2 DEF FanInIsSound, Members
      <3> QED
        BY <1>1, <1>3, <1>4, <3>1
    <2>3. ASSUME NEW g \in Rows', joins'[g] # 0, NEW m \in Rows', lineage'[m] = joins'[g]
          PROVE  status'[m] = "completed" /\ ~Outstanding(m)'
      <3>1. CASE g \in Rows
        <4>1. joins'[g] = joins[g] /\ m \in Rows
          BY <1>9, <2>2, <2>3, <3>1
        <4>2. status[m] = "completed" /\ ~Outstanding(m)
          BY <1>0, <1>9, <2>3, <3>1, <4>1 DEF FanInIsSound, Members
        <4> QED
          BY <1>9, <1>10, <4>1, <4>2
      <3>2. CASE g = f
        <4>1. joins'[g] = d /\ m \in Rows /\ lineage[m] = d
          BY <1>6, <1>9, <2>3, <3>2
        <4>2. d # s
          BY <1>1, <4>1
        <4>3. status[m] = "completed" /\ (m # s => ~Outstanding(m))
          BY <2>1, <4>1, <4>2
        <4> QED
          BY <1>9, <1>10, <4>1, <4>3
      <3> QED
        BY <1>9, <3>1, <3>2
    <2>4. ASSUME NEW g \in Rows', NEW h \in Rows', joins'[g] # 0, joins'[g] = joins'[h] PROVE g = h
      BY <1>0, <1>9, <2>2, <2>4 DEF FanInIsSound
    <2> QED
      BY <2>3, <2>4 DEF FanInIsSound, Members
  <1>20. FlowStopsQuiet' /\ CancelledIsPure'
    <2>1. flow' = "running"
      BY <1>0 DEF Running, TypeOK
    <2> QED
      BY <2>1 DEF FlowStopsQuiet, CancelledIsPure
  <1>21. RoomLeft'
    <2> DEFINE T == {c \in Rows' : Open(c)'}
    <2>1. T \in SUBSET (Op \ {d})
      BY <1>1, <1>9, <1>10 DEF Op
    <2>2. last' = last + 1
      BY DEF InsertSteps
    <2>3. last' + Cardinality(T) <= MaxSteps
      <3> HIDE DEF T
      <3>1. Cardinality(T) <= Cardinality(Op \ {d}) /\ Cardinality(T) \in Nat
        BY <1>r, <2>1, FS_Subset, FS_CardinalityType
      <3> QED
        BY <1>2, <1>r, <2>2, <3>1, CohortStepsAssumption
    <2> QED
      BY <2>3 DEF RoomLeft
  <1> QED
    BY <1>8, <1>16, <1>17, <1>18, <1>19, <1>20, <1>21 DEF IInv, Inserted

\* The transitions with one successor: the next step, and the fan-in of a
\* fan-out that left no branch.
LEMMA SuccessorKeeps ==
  ASSUME IInv, NEW s \in Rows, Owing(s), FlowRowLocked, Moves(s), Room(1),
         NEW join \in {0, s}, InsertSteps(1, lineage[s], join, Outcome(s)), NEW n \in Nat,
         size' = [size EXCEPT ![s] = n], arrivals' = [arrivals EXCEPT ![s] = n],
         UNCHANGED <<failures, cancels, flow, budget>>
  PROVE  IInv'
  <1>0. TypeOK /\ s \in Steps
    BY InHand DEF IInv
  <1>1. Outcome(s) \in SUBSET Steps
    BY <1>0 DEF Outcome, TypeOK
  <1>2. size' \in [Steps -> Nat] /\ arrivals' \in [Steps -> Nat] /\ arrivals'[s] = size'[s]
    BY <1>0 DEF TypeOK
  <1>3. ASSUME NEW r \in Steps, r # s
        PROVE  size'[r] = size[r] /\ arrivals'[r] = arrivals[r] + IF r = s THEN 1 ELSE 0
    BY <1>0, <1>3 DEF TypeOK
  <1>4. PICK lin, f, state : lin = lineage[s] /\ f = last + 1 /\ state = Outcome(s)
    OBVIOUS
  <1>5. Running
    BY DEF FlowRowLocked, Running
  <1>6. InsertSteps(1, lin, join, state) /\ state \in SUBSET Steps
    BY <1>1, <1>4
  <1> QED
    BY <1>2, <1>3, <1>4, <1>5, <1>6, SwapKeeps

\* Advance and fireFanInDirect keep the invariant.
LEMMA AdvanceKeeps ==
  ASSUME IInv, NEW s \in Rows, Advance(s) \/ FireFanInDirect(s)
  PROVE  IInv'
  <1>0. TypeOK /\ size[s] = 0 /\ arrivals[s] = 0 /\ s \in Steps
    BY InHand DEF IInv, Advance, FireFanInDirect
  <1>1. size = [size EXCEPT ![s] = 0] /\ arrivals = [arrivals EXCEPT ![s] = 0]
    BY <1>0 DEF TypeOK
  <1>2. size' = [size EXCEPT ![s] = 0] /\ arrivals' = [arrivals EXCEPT ![s] = 0]
    BY <1>1 DEF Advance, FireFanInDirect, counters
  <1>3. UNCHANGED <<failures, cancels, flow, budget>> /\ Owing(s) /\ FlowRowLocked /\ Moves(s) /\ Room(1)
    BY DEF Advance, FireFanInDirect, counters
  <1>4. \E join \in {0, s} : InsertSteps(1, lineage[s], join, Outcome(s))
    BY DEF Advance, FireFanInDirect
  <1> QED
    BY <1>2, <1>3, <1>4, SuccessorKeeps

\* The arrival that completes the count of a cohort without losses.
LEMMA FanInKeeps ==
  ASSUME IInv, NEW s \in Rows, Owing(s), Moves(s), UNCHANGED budget, NEW c, c = lineage[s], c # 0,
         Resolving(c), FlowRowLocked, failures[c] = 0,
         arrivals' = [arrivals EXCEPT ![c] = @ + 1],
         InsertSteps(1, lineage[c], c, FanInState(c)),
         UNCHANGED <<size, failures, cancels, flow>>
  PROVE  IInv'
  <1>0. TypeOK /\ FrameShape
    BY DEF IInv
  <1>1. size[s] = 0 /\ arrivals[s] = 0 /\ s \in Steps /\ c # s
    BY InHand
  <1>2. c \in Rows /\ c \in Steps
    BY <1>0, FramesAreChain, RowsAreNumbers
  <1>3. FanInState(c) \in SUBSET Steps
    BY <1>0, <1>2, RowsAreNumbers DEF FanInState, Outcome, TypeOK
  <1>4. size' \in [Steps -> Nat] /\ arrivals' \in [Steps -> Nat] /\ arrivals'[s] = size'[s]
    BY <1>0, <1>1, <1>2 DEF TypeOK
  <1>5. ASSUME NEW r \in Steps, r # s
        PROVE  size'[r] = size[r] /\ arrivals'[r] = arrivals[r] + IF r = c THEN 1 ELSE 0
    BY <1>0, <1>2, <1>5 DEF TypeOK
  <1>6. PICK lin, f, state : lin = lineage[c] /\ f = last + 1 /\ state = FanInState(c)
    OBVIOUS
  <1>7. Running
    BY DEF FlowRowLocked, Running
  <1>8. InsertSteps(1, lin, c, state) /\ state \in SUBSET Steps
    BY <1>3, <1>6
  <1>9. UNCHANGED <<failures, cancels, flow, budget>>
    OBVIOUS
  <1> QED
    BY <1>1, <1>2, <1>4, <1>5, <1>6, <1>7, <1>8, <1>9, SwapKeeps

\* The three outcomes of an arrival.
LEMMA ArriveFanInKeeps ==
  ASSUME IInv, NEW s \in Rows, ArriveFanIn(s)
  PROVE  IInv'
  <1> DEFINE c == lineage[s]
  <1>0. Owing(s) /\ c # 0 /\ Moves(s) /\ UNCHANGED budget /\ c \in Rows
    BY FramesAreChain DEF ArriveFanIn, IInv
  <1>1. CASE /\ ~Resolving(c) \/ ~FlowRowLocked
             /\ arrivals' = [arrivals EXCEPT ![c] = @ + 1]
             /\ UNCHANGED <<rows, status, size, failures, cancels, flow>>
    BY <1>0, <1>1, ArrivalKeeps
  <1>2. CASE /\ Resolving(c) /\ FlowRowLocked /\ failures[c] = 0
             /\ arrivals' = [arrivals EXCEPT ![c] = @ + 1]
             /\ InsertSteps(1, lineage[c], c, FanInState(c))
             /\ UNCHANGED <<size, failures, cancels, flow>>
    BY <1>0, <1>2, FanInKeeps
  <1>3. CASE /\ Resolving(c) /\ FlowRowLocked /\ failures[c] > 0
             /\ PropagateCohortFailure(lineage[c], cancels[c] = failures[c], {c})
             /\ UNCHANGED status
    <2>1. PICK x, k, arrived : x = c /\ k = (cancels[c] = failures[c]) /\ arrived = {c}
      OBVIOUS
    <2>2. k \in BOOLEAN /\ Running /\ x \in Rows
      BY <1>0, <1>3, <2>1 DEF FlowRowLocked, Running
    <2>3. PropagateCohortFailure(lineage[x], k, arrived)
      BY <1>3, <2>1
    <2>4. x = lineage[s] /\ arrived = {x} /\ Resolving(x) /\ failures[x] > 0 /\ k = (cancels[x] = failures[x])
      BY <1>3, <2>1
    <2> QED
      BY <1>0, <1>3, <2>2, <2>3, <2>4, LossInRun
  <1> QED
    BY <1>1, <1>2, <1>3 DEF ArriveFanIn

\* A fan-out with w branches opens the cohort of s.
LEMMA SpawnKeeps ==
  ASSUME IInv, NEW s \in Rows, Owing(s), FlowRowLocked, Moves(s),
         NEW n \in Nat, NEW direct \in Nat, direct < n, NEW w \in Nat, w = n - direct, Room(w + 1),
         InsertSteps(w, s, 0, Outcome(s)),
         size' = [size EXCEPT ![s] = n], arrivals' = [arrivals EXCEPT ![s] = direct],
         UNCHANGED <<failures, cancels, flow, budget>>
  PROVE  IInv'
  <1>0. TypeOK /\ BlankRows /\ RowShape /\ FrameShape /\ LossesCounted /\ FanInIsSound
    BY DEF IInv
  <1>1. /\ Outstanding(s) /\ ~moved[s] /\ size[s] = 0 /\ ~Open(s) /\ failures[s] = 0 /\ cancels[s] = 0
        /\ s \in Steps /\ status[s] = "completed"
        /\ \A m \in Rows : lineage[m] # s /\ s \notin frames[m]
        /\ \A g \in Rows : joins[g] # s /\ (joins[g] # 0 => lineage[s] # joins[g])
    BY InHand DEF Owing
  <1>2. /\ last \in Nat /\ 0 \notin Rows /\ w > 0 /\ Running
        /\ \A r \in Rows : r \in Steps /\ r \in Nat /\ r > 0 /\ size[r] \in Nat /\ arrivals[r] \in Nat
    <2>1. last \in Nat /\ \A r \in Rows : r \in Steps /\ r \in Nat /\ r > 0
      BY <1>0, RowsAreNumbers
    <2> QED
      BY <1>0, <2>1 DEF TypeOK, FlowRowLocked, Running
  <1> DEFINE Op == {c \in Rows : Open(c)}
  <1>3. /\ IsFiniteSet(Op) /\ Cardinality(Op) \in Nat /\ last + w + 1 + Cardinality(Op) <= MaxSteps
        /\ last + w <= MaxSteps
    <2>1. IsFiniteSet(Op) /\ Cardinality(Op) \in Nat
      BY <1>0, RowsFinite
    <2>2. last + (w + 1) + Cardinality(Op) <= MaxSteps
      BY DEF Room
    <2> HIDE DEF Op
    <2> QED
      BY <1>2, <2>1, <2>2, CohortStepsAssumption
  <1> HIDE DEF Op
  <1>4. /\ size' \in [Steps -> Nat] /\ arrivals' \in [Steps -> Nat] /\ size'[s] = n /\ arrivals'[s] = direct
        /\ \A r \in Steps : r # s => size'[r] = size[r] /\ arrivals'[r] = arrivals[r]
    BY <1>0, <1>1 DEF TypeOK
  <1>5. PICK new, state : new = last + 1 .. last + w /\ state = Outcome(s)
    OBVIOUS
  <1>6. Inserted(s, new, s, 0)
    <2>1. state \in SUBSET Steps /\ InsertSteps(w, s, 0, state)
      BY <1>0, <1>1, <1>5 DEF Outcome, TypeOK
    <2>2. \A r \in Steps : r # s => size'[r] = size[r]
      BY <1>4
    <2>3. \A r \in Steps : r # s /\ ~(r \in Rows /\ size[r] > 0) => arrivals'[r] = arrivals[r]
      BY <1>4
    <2>4. (size'[s] = 0 => arrivals'[s] = 0) /\ (s # 0 => size'[s] > 0)
      BY <1>4
    <2>5. s \in {0} \cup Rows /\ 0 \in {0} \cup Rows /\ (0 # 0 => 0 = s \/ moved[0])
      OBVIOUS
    <2>6. Inserted(s, last + 1 .. last + w, s, 0)
      BY <1>2, <1>3, <1>4, <2>1, <2>2, <2>3, <2>4, <2>5, InsertShape
    <2> QED
      BY <1>5, <2>6
  <1>7. /\ TypeOK' /\ BlankRows' /\ RowShape' /\ FrameShape'
        /\ \A r : r \in Rows' <=> r \in Rows \/ r \in new
        /\ \A r \in Rows : /\ status'[r] = status[r] /\ lineage'[r] = lineage[r] /\ joins'[r] = joins[r]
                           /\ (moved'[r] <=> r = s \/ moved[r]) /\ r \notin new
        /\ \A r \in new :
              /\ r \in Steps /\ r \notin Rows /\ status'[r] = "pending" /\ lineage'[r] = s /\ joins'[r] = 0
              /\ size'[r] = 0 /\ failures'[r] = 0 /\ cancels'[r] = 0 /\ Outstanding(r)' /\ ~Open(r)'
    BY <1>6 DEF Inserted
  <1>8. Open(s)' /\ Outstanding(s)'
    BY <1>4 DEF Open, Outstanding
  <1>9. ASSUME NEW m \in Rows, m # s PROVE (Open(m)' <=> Open(m)) /\ (Outstanding(m)' <=> Outstanding(m))
    <2>1. Open(m)' <=> Open(m)
      BY <1>2, <1>4, <1>9 DEF Open
    <2> QED
      BY <1>7, <1>9, <2>1 DEF Outstanding, Owing
  <1>10. ASSUME NEW c, c # s PROVE Waiting(c)' = Waiting(c)
    <2>1. ASSUME NEW m PROVE m \in Waiting(c)' <=> m \in Waiting(c)
      <3>1. CASE m \in Rows
        BY <1>1, <1>7, <1>8, <1>9, <3>1 DEF Waiting, Members
      <3>2. CASE m \notin Rows
        BY <1>7, <1>10, <3>2 DEF Waiting, Members
      <3> QED
        BY <3>1, <3>2
    <2> QED
      BY <2>1
  <1>11. Waiting(s)' = new
    <2>1. ASSUME NEW m PROVE m \in Waiting(s)' <=> m \in new
      <3>1. CASE m \in Rows
        BY <1>1, <1>7, <3>1 DEF Waiting, Members
      <3>2. CASE m \notin Rows
        BY <1>7, <3>2 DEF Waiting, Members
      <3> QED
        BY <3>1, <3>2
    <2> QED
      BY <2>1
  <1>12. Cardinality(new) = w
    <2>1. last + 1 \in Int /\ last + w \in Int
      BY <1>2
    <2>2. Cardinality(last + 1 .. last + w) = IF last + 1 > last + w THEN 0 ELSE (last + w) - (last + 1) + 1
      BY <2>1, FS_Interval
    <2> QED
      BY <1>2, <1>5, <2>2
  <1>13. CountersExact'
    <2> SUFFICES ASSUME NEW c \in Rows', size'[c] > 0
                 PROVE  arrivals'[c] + Cardinality(Waiting(c)') = size'[c]
      BY DEF CountersExact, Waiting
    <2>1. c \in Rows
      BY <1>7
    <2>2. CASE c = s
      BY <1>4, <1>11, <1>12, <2>2
    <2>3. CASE c # s
      <3>1. size'[c] = size[c] /\ arrivals'[c] = arrivals[c] /\ Waiting(c)' = Waiting(c)
        BY <1>2, <1>4, <1>10, <2>1, <2>3
      <3> QED
        BY <1>2, <2>1, <3>1 DEF IInv, CountersExact, Running, Waiting
    <2> QED
      BY <2>2, <2>3
  <1>14. TrunkExact'
    <2>1. Waiting(0)' = Waiting(0)
      BY <1>2, <1>10
    <2> QED
      BY <1>2, <2>1 DEF IInv, TrunkExact
  <1>15. LossesCounted'
    <2>1. \A c : Tainted(c)' <=> Tainted(c)
      BY DEF Tainted
    <2>2. ASSUME NEW m \in Rows'
          PROVE  /\ status'[m] # "terminated"
                 /\ status'[m] \in {"failed", "cancelled"} => lineage'[m] # 0 /\ failures'[lineage'[m]] > 0
                 /\ status'[m] = "failed" => Tainted(lineage'[m])
      BY <1>0, <1>2, <1>7 DEF LossesCounted
    <2>3. ASSUME NEW c \in Rows', size'[c] > 0, ~Open(c)'
          PROVE  /\ failures'[c] > 0 => lineage'[c] # 0 /\ failures'[lineage'[c]] > 0
                 /\ Tainted(c) => Tainted(lineage'[c])
      <3>1. c \in Rows /\ c # s
        BY <1>7, <1>8, <2>3
      <3>2. ~Open(c) /\ size[c] > 0
        BY <1>2, <1>4, <1>9, <2>3, <3>1
      <3> QED
        BY <1>0, <1>2, <1>7, <3>1, <3>2 DEF LossesCounted
    <2>4. ASSUME NEW c \in Rows', Tainted(c) PROVE \E m \in Rows' : status'[m] = "failed"
      <3>1. c \in Rows
        BY <1>7, <2>1, <2>4 DEF Tainted
      <3>2. PICK m \in Rows : status[m] = "failed"
        BY <1>0, <1>2, <2>4, <3>1 DEF LossesCounted
      <3> QED
        BY <1>7, <3>2
    <2>5. \A m : Tainted(lineage[m])' <=> Tainted(lineage'[m])
      BY DEF Tainted
    <2> QED
      BY <2>1, <2>2, <2>3, <2>4, <2>5 DEF LossesCounted
  <1>16. FanInIsSound'
    <2>1. ASSUME NEW g \in Rows', joins'[g] # 0
          PROVE  g \in Rows /\ joins'[g] = joins[g] /\ joins[g] # s /\ joins[g] # 0
      BY <1>1, <1>7, <2>1
    <2>2. ASSUME NEW g \in Rows', joins'[g] # 0, NEW m \in Rows', lineage'[m] = joins'[g]
          PROVE  status'[m] = "completed" /\ ~Outstanding(m)'
      <3>1. m \in Rows /\ lineage[m] = joins[g]
        BY <1>7, <2>1, <2>2
      <3>2. status[m] = "completed" /\ ~Outstanding(m)
        BY <1>0, <2>1, <2>2, <3>1 DEF FanInIsSound, Members
      <3> QED
        BY <1>1, <1>7, <1>9, <3>1, <3>2
    <2>3. ASSUME NEW g \in Rows', NEW h \in Rows', joins'[g] # 0, joins'[g] = joins'[h] PROVE g = h
      BY <1>0, <2>1, <2>3 DEF FanInIsSound
    <2> QED
      BY <2>2, <2>3 DEF FanInIsSound, Members
  <1>17. FlowStopsQuiet' /\ CancelledIsPure'
    <2>1. flow' = "running"
      BY <1>0, <1>2 DEF Running, TypeOK
    <2> QED
      BY <2>1 DEF FlowStopsQuiet, CancelledIsPure
  <1>18. RoomLeft'
    <2> DEFINE T == {c \in Rows' : Open(c)'}
    <2>1. T = Op \cup {s} /\ s \notin Op
      <3>1. ASSUME NEW c PROVE c \in T <=> c \in Op \cup {s}
        <4>1. CASE c \in Rows
          BY <1>7, <1>8, <1>9, <4>1 DEF Op
        <4>2. CASE c \notin Rows
          BY <1>7, <4>2 DEF Op
        <4> QED
          BY <4>1, <4>2
      <3>2. s \notin Op
        BY <1>1 DEF Op
      <3> HIDE DEF T
      <3> QED
        BY <3>1, <3>2
    <2>2. last' = last + w
      BY DEF InsertSteps
    <2>3. last' + Cardinality(T) <= MaxSteps
      <3> HIDE DEF T
      <3>1. Cardinality(T) = Cardinality(Op) + 1
        BY <1>3, <2>1, FS_AddElement
      <3> QED
        BY <1>2, <1>3, <2>2, <3>1, CohortStepsAssumption
    <2> QED
      BY <2>3 DEF RoomLeft
  <1> QED
    BY <1>7, <1>13, <1>14, <1>15, <1>16, <1>17, <1>18 DEF IInv

\* A fan-out, with branches or without.
LEMMA FanOutKeeps ==
  ASSUME IInv, NEW s \in Rows, FanOut(s)
  PROVE  IInv'
  <1>1. PICK n \in 1 .. MaxWidth, direct \in 0 .. MaxDirect :
          /\ direct < n \/ (direct = n /\ n > 1)
          /\ Room((n - direct) + 1)
          /\ IF direct < n THEN InsertSteps(n - direct, s, 0, Outcome(s))
                           ELSE InsertSteps(1, lineage[s], s, Outcome(s))
          /\ size' = [size EXCEPT ![s] = n]
          /\ arrivals' = [arrivals EXCEPT ![s] = direct]
    BY DEF FanOut
  <1>2. Owing(s) /\ FlowRowLocked /\ Moves(s) /\ UNCHANGED <<failures, cancels, flow, budget>>
    BY DEF FanOut
  <1>3. n \in Nat /\ direct \in Nat
    BY CohortWidthAssumption, CohortDirectAssumption
  <1>4. CASE direct < n
    <2>1. n - direct \in Nat
      BY <1>3, <1>4
    <2> QED
      BY <1>1, <1>2, <1>3, <1>4, <2>1, SpawnKeeps
  <1>5. CASE direct = n /\ ~(direct < n)
    <2>1. (n - direct) + 1 = 1
      BY <1>3, <1>5
    <2>2. Room(1)
      BY <1>1, <2>1
    <2>3. InsertSteps(1, lineage[s], s, Outcome(s))
      BY <1>1, <1>5
    <2> QED
      BY <1>1, <1>2, <1>3, <1>5, <2>2, <2>3, SuccessorKeeps
  <1> QED
    BY <1>1, <1>3, <1>4, <1>5

-----------------------------------------------------------------------------
(* The theorems *)

\* The flow starts with one pending step of the trunk.
LEMMA InitIInv == Init => IInv
  <1> SUFFICES ASSUME Init PROVE IInv
    OBVIOUS
  <1>1. /\ 1 \in Steps /\ \A r : r \in Rows <=> r = 1
        /\ \A r \in Steps : size[r] = 0 /\ arrivals[r] = 0 /\ failures[r] = 0 /\ cancels[r] = 0 /\ ~moved[r]
        /\ \A r \in Steps : lineage[r] = 0 /\ frames[r] = {} /\ joins[r] = 0
        /\ status[1] = "pending" /\ flow = "running" /\ last = 1
    <2>1. 1 \in Steps /\ last = 1 /\ flow = "running" /\ status[1] = "pending"
      BY CohortStepsAssumption DEF Init, Steps
    <2>2. \A r : r \in Rows <=> r = 1
      BY <2>1 DEF Rows
    <2> QED
      BY <2>1, <2>2 DEF Init
  <1>2. TypeOK
    <2>1. status \in [Steps -> StepStatuses]
      BY DEF Init, StepStatuses, LiveStep
    <2>2. /\ lineage \in [Steps -> {0} \cup Steps] /\ frames \in [Steps -> SUBSET Steps]
          /\ joins \in [Steps -> {0} \cup Steps] /\ carried \in [Steps -> SUBSET Steps]
          /\ moved \in [Steps -> BOOLEAN]
      BY DEF Init
    <2>3. /\ size \in [Steps -> Nat] /\ arrivals \in [Steps -> Nat]
          /\ failures \in [Steps -> Nat] /\ cancels \in [Steps -> Nat] /\ budget \in Nat
      BY CohortBudgetAssumption DEF Init
    <2> QED
      BY <1>1, <2>1, <2>2, <2>3 DEF TypeOK
  <1>3. BlankRows /\ RowShape /\ FrameShape
    BY <1>1 DEF BlankRows, RowShape, FrameShape
  <1>4. ~Open(1) /\ Outstanding(1)
    BY <1>1 DEF Open, Outstanding, LiveStep
  <1>5. RoomLeft
    <2>1. {c \in Rows : Open(c)} = {}
      BY <1>1, <1>4
    <2>2. Cardinality({c \in Rows : Open(c)}) = 0
      BY <2>1, FS_EmptySet
    <2> QED
      BY <1>1, <2>2, CohortStepsAssumption DEF RoomLeft
  <1>6. CountersExact
    BY <1>1 DEF CountersExact
  <1>7. TrunkExact
    <2>1. Waiting(0) = {1}
      BY <1>1, <1>4 DEF Waiting, Members
    <2>2. Cardinality({1}) = 1
      BY FS_Singleton
    <2> QED
      BY <2>1, <2>2 DEF TrunkExact
  <1>8. LossesCounted
    BY <1>1 DEF LossesCounted, Tainted
  <1>9. FanInIsSound /\ FlowStopsQuiet /\ CancelledIsPure
    BY <1>1 DEF FanInIsSound, FlowStopsQuiet, CancelledIsPure
  <1> QED
    BY <1>2, <1>3, <1>5, <1>6, <1>7, <1>8, <1>9 DEF IInv

\* Claim, completion and rewind.
LEMMA DispatchKeeps ==
  ASSUME IInv, NEW s \in Rows, Claim(s) \/ Complete(s) \/ Rewind(s)
  PROVE  IInv'
  <1>0. budget \in Nat
    BY DEF IInv, TypeOK
  <1>1. CASE Claim(s)
    BY <1>0, <1>1, StatusMoves DEF Claim, LiveStep
  <1>2. CASE Complete(s)
    BY <1>0, <1>2, StatusMoves DEF Complete, LiveStep
  <1>3. CASE Rewind(s)
    <2>1. budget' \in Nat
      BY <1>0, <1>3 DEF Rewind
    <2> QED
      BY <1>3, <2>1, StatusMoves DEF Rewind, LiveStep
  <1> QED
    BY <1>1, <1>2, <1>3

\* Every step keeps the invariant.
LEMMA NextKeeps == IInv /\ [Next]_vars => IInv'
  <1> SUFFICES ASSUME IInv, [Next]_vars PROVE IInv'
    OBVIOUS
  <1>1. ASSUME NEW s \in Rows, Claim(s) \/ Settle(s) \/ Rewind(s) PROVE IInv'
    BY <1>1, DispatchKeeps, FailStepKeeps, AdvanceKeeps, FanOutKeeps, ArriveFanInKeeps, CompleteFlowKeeps,
       TransitionNoOpKeeps DEF Settle
  <1>2. CASE Terminate
    BY <1>2, TerminateKeeps
  <1>3. CASE UNCHANGED vars
    BY <1>3 DEF vars, rows, counters, IInv, TypeOK, BlankRows, RowShape, FrameShape, RoomLeft, CountersExact,
       TrunkExact, LossesCounted, FanInIsSound, FlowStopsQuiet, CancelledIsPure, Waiting, Members,
       Outstanding, Owing, Open, Rows, Running, Tainted
  <1> QED
    BY <1>1, <1>2, <1>3 DEF Next

\* The inductive invariant of the fan-out and fan-in transactions.
THEOREM InductiveInvariant == Spec => []IInv
  <1>1. Init => IInv
    BY InitIInv
  <1>2. IInv /\ [Next]_vars => IInv'
    BY NextKeeps
  <1> QED
    BY <1>1, <1>2, PTL DEF Spec

\* The rows of the flow keep the shape of the schema.
THEOREM TypeCorrect == Spec => []TypeOK
  <1>1. IInv => TypeOK
    BY DEF IInv
  <1> QED
    BY <1>1, InductiveInvariant, PTL

\* Whatever the nesting and the order of the reports, the counters on a spawn
\* row stand for the branches that are still to report: a cohort resolves
\* neither early nor never.
THEOREM CohortCountersExact == Spec => []CountersExact
  <1>1. IInv => CountersExact
    BY DEF IInv
  <1> QED
    BY <1>1, InductiveInvariant, PTL

\* The fan-in of a cohort is inserted at most once, and only after each of its
\* branches succeeded.
THEOREM FanInRunsOnceAfterAll == Spec => []FanInIsSound
  <1>1. IInv => FanInIsSound
    BY DEF IInv
  <1> QED
    BY <1>1, InductiveInvariant, PTL

\* completeFlow and propagateCohortFailure stop the flow only when nothing in
\* it is left to run.
THEOREM FlowsStopQuiet == Spec => []FlowStopsQuiet
  <1>1. IInv => FlowStopsQuiet
    BY DEF IInv
  <1> QED
    BY <1>1, InductiveInvariant, PTL

\* The flow's outcome is the one its steps deserve: completed only if all are,
\* cancelled only if none failed, failed only if one did.
THEOREM OutcomeIsDeserved == Spec => []CancelledIsPure
  <1>1. IInv => CancelledIsPure
    BY DEF IInv
  <1> QED
    BY <1>1, InductiveInvariant, PTL

-----------------------------------------------------------------------------
(* Cancel *)

\* The marks and what follows them are rows; before the stamp there are none,
\* what follows a mark is younger than the stamp, a step at work has been
\* claimed, and a call that went past its stamp found or left the flow row
\* stamped or terminal.
CancelShape ==
    /\ mark \subseteq Rows /\ told \subseteq Rows
    /\ watermark \in Nat /\ watermark <= last /\ call \in [Calls -> {"idle", "read", "stamped", "marked", "failed", "returned"}]
    /\ watermark = 0 => mark = {} /\ told = {}
    /\ \A s \in told : s > watermark
    /\ \A s \in Rows : status[s] \in {"running", "completed"} => s \in begun
    /\ \A k \in Calls : call[k] \in {"stamped", "marked"} => watermark # 0 \/ ~Running

\* The inductive invariant of the flow with its Cancel.
CancelInv == IInv /\ CancelShape /\ CancelToldOnce

\* What a step of the flow does to the rows: it inserts pending ones after the
\* newest; only a rewind of s makes an old row pending, only a claim or the
\* completion of s puts one to work, and a stopped flow stays stopped.
LEMMA RowsUnder ==
  ASSUME IInv, NEW s \in Rows, Claim(s) \/ Settle(s) \/ Rewind(s)
  PROVE  /\ last \in Nat /\ last' \in Nat
         /\ \A r : r \in Rows' <=> r \in Rows \/ r \in last + 1 .. last'
         /\ \A r \in last + 1 .. last' : r \notin Rows /\ r > last /\ r \in Nat /\ status'[r] = "pending"
         /\ \A r \in Rows : r \in Nat /\ r > 0 /\ r <= last
         /\ \A r \in Rows : status'[r] = "pending" =>
               status[r] = "pending" \/ (r = s /\ status[s] \in {"running", "completed"})
         /\ \A r \in Rows : status'[r] \in {"running", "completed"} =>
               status[r] \in {"running", "completed"} \/ (r = s /\ Claim(s))
         /\ ~Running => ~Running'
  <1>0. TypeOK
    BY DEF IInv
  <1>1. IInv' /\ TypeOK'
    <2>1. [Next]_vars
      BY DEF Next
    <2> QED
      BY <2>1, NextKeeps DEF IInv
  <1>2. last \in Nat /\ last' \in Nat /\ \A r \in Rows : r \in Nat /\ r > 0 /\ r \in Steps /\ r <= last
    BY <1>0, <1>1, CohortStepsAssumption DEF TypeOK, Rows, Steps
  <1>3. status \in [Steps -> StepStatuses] /\ s \in Steps
    BY <1>0, <1>2 DEF TypeOK
  <1>4. \/ UNCHANGED <<last, status>>
        \/ /\ UNCHANGED last
           /\ \E st \in StepStatuses : status' = [status EXCEPT ![s] = st]
           /\ status'[s] = "pending" => status[s] \in {"running", "completed"}
           /\ status'[s] \in {"running", "completed"} => status[s] \in {"running", "completed"} \/ Claim(s)
        \/ \E n \in Nat : \E lin, join, state : InsertSteps(n, lin, join, state)
    <2>1. CASE Claim(s)
      BY <1>3, <2>1 DEF Claim, rows, StepStatuses, LiveStep
    <2>2. CASE Complete(s)
      BY <1>3, <2>2 DEF Complete, rows, StepStatuses, TerminalFlow
    <2>3. CASE Rewind(s)
      BY <1>3, <2>3 DEF Rewind, Owing, rows, StepStatuses, LiveStep
    <2>4. CASE FailStep(s)
      BY <1>3, <2>4 DEF FailStep, PropagateCohortFailure, rows, StepStatuses, TerminalFlow
    <2>5. CASE Advance(s) \/ FireFanInDirect(s)
      BY <2>5 DEF Advance, FireFanInDirect
    <2>6. CASE FanOut(s)
      <3>1. PICK n \in 1 .. MaxWidth, direct \in 0 .. MaxDirect :
              /\ direct < n \/ (direct = n /\ n > 1)
              /\ IF direct < n THEN InsertSteps(n - direct, s, 0, Outcome(s))
                               ELSE InsertSteps(1, lineage[s], s, Outcome(s))
        BY <2>6 DEF FanOut
      <3>2. direct < n => n - direct \in Nat
        BY CohortWidthAssumption, CohortDirectAssumption
      <3> QED
        BY <3>1, <3>2
    <2>7. CASE ArriveFanIn(s)
      BY <2>7 DEF ArriveFanIn, PropagateCohortFailure, rows
    <2>8. CASE CompleteFlow(s) \/ TransitionNoOp(s)
      BY <2>8 DEF CompleteFlow, TransitionNoOp, rows
    <2> QED
      BY <2>1, <2>2, <2>3, <2>4, <2>5, <2>6, <2>7, <2>8 DEF Settle
  <1>5. ~Running => ~Running'
    BY DEF Claim, Settle, Complete, Rewind, FailStep, PropagateCohortFailure, Advance, FanOut,
       FireFanInDirect, ArriveFanIn, CompleteFlow, TransitionNoOp, FlowRowLocked, Running
  <1>6. CASE UNCHANGED last
    <2>1. Rows' = Rows /\ \A r : r \notin last + 1 .. last'
      BY <1>2, <1>6 DEF Rows
    <2>2. CASE UNCHANGED status
      BY <1>2, <1>5, <2>1, <2>2
    <2>3. CASE /\ \E st \in StepStatuses : status' = [status EXCEPT ![s] = st]
               /\ status'[s] = "pending" => status[s] \in {"running", "completed"}
               /\ status'[s] \in {"running", "completed"} => status[s] \in {"running", "completed"} \/ Claim(s)
      <3>1. \A r \in Rows : r # s => status'[r] = status[r]
        BY <1>2, <1>3, <2>3
      <3> QED
        BY <1>2, <1>5, <2>1, <2>3, <3>1
    <2>4. CASE \E n \in Nat : \E lin, join, state : InsertSteps(n, lin, join, state)
      <3>1. PICK n \in Nat : /\ last' = last + n
                             /\ status' = [r \in Steps |-> IF r \in last + 1 .. last + n THEN "pending" ELSE status[r]]
        BY <2>4 DEF InsertSteps
      <3>2. n = 0
        BY <1>2, <1>6, <3>1
      <3>3. \A r \in Rows : status'[r] = status[r]
        BY <1>2, <3>1, <3>2
      <3> QED
        BY <1>2, <1>5, <2>1, <3>3
    <2> QED
      BY <1>4, <2>2, <2>3, <2>4
  <1>7. CASE ~UNCHANGED last
    <2>1. PICK n \in Nat : /\ last' = last + n
                           /\ status' = [r \in Steps |-> IF r \in last + 1 .. last + n THEN "pending" ELSE status[r]]
      BY <1>4, <1>7 DEF InsertSteps
    <2>2. last' \in Steps /\ MaxSteps \in Nat
      BY <1>1, CohortStepsAssumption DEF TypeOK
    <2>3. ASSUME NEW r \in Int
          PROVE  /\ r \in 1 .. last' <=> r \in 1 .. last \/ r \in last + 1 .. last'
                 /\ r \in last + 1 .. last' => r \in Steps /\ r \notin 1 .. last /\ r \in Nat /\ r > last
      BY <1>2, <2>1, <2>2 DEF Steps
    <2>4. \A r : r \in 1 .. last' \/ r \in 1 .. last \/ r \in last + 1 .. last' => r \in Int
      BY <1>2
    <2>5. \A r : r \in Rows' <=> r \in Rows \/ r \in last + 1 .. last'
      BY <2>3, <2>4 DEF Rows
    <2>6. \A r \in last + 1 .. last' : r \notin Rows /\ r > last /\ r \in Nat /\ status'[r] = "pending"
      BY <2>1, <2>3, <2>4 DEF Rows
    <2>7. \A r \in Rows : status'[r] = status[r]
      <3>1. ASSUME NEW r \in Rows PROVE r \notin last + 1 .. last + n
        BY <1>2, <2>1
      <3> QED
        BY <1>2, <2>1, <3>1
    <2> QED
      BY <1>2, <1>5, <2>5, <2>6, <2>7
  <1> QED
    BY <1>6, <1>7

\* A step of the flow hands the cancellation on, once.
LEMMA RunsKeeps ==
  ASSUME CancelInv, NEW s \in Rows, Runs(s)
  PROVE  CancelInv'
  <1>0. IInv /\ CancelShape /\ CancelToldOnce
    BY DEF CancelInv
  <1>1. (Claim(s) \/ Settle(s) \/ Rewind(s)) /\ Handed(s) /\ UNCHANGED <<watermark, call>>
        /\ begun \subseteq begun' /\ (Claim(s) => s \in begun' \/ Settle(s) \/ Rewind(s))
    BY DEF Runs
  <1>2. IInv'
    <2>1. [Next]_vars
      BY <1>1 DEF Next
    <2> QED
      BY <1>0, <2>1, NextKeeps
  <1>3. /\ last \in Nat /\ last' \in Nat
        /\ \A r : r \in Rows' <=> r \in Rows \/ r \in last + 1 .. last'
        /\ \A r \in last + 1 .. last' : r \notin Rows /\ r > last /\ r \in Nat /\ status'[r] = "pending"
        /\ \A r \in Rows : r \in Nat /\ r > 0 /\ r <= last
        /\ \A r \in Rows : status'[r] = "pending" =>
              status[r] = "pending" \/ (r = s /\ status[s] \in {"running", "completed"})
        /\ \A r \in Rows : status'[r] \in {"running", "completed"} =>
              status[r] \in {"running", "completed"} \/ (r = s /\ Claim(s))
        /\ ~Running => ~Running'
    BY <1>0, <1>1, RowsUnder
  <1>4. PICK new : new = last + 1 .. last'
    OBVIOUS
  <1>5. /\ mark' = IF Inherits(s) THEN mark \cup new ELSE mark
        /\ told' = IF s \in mark \cup told THEN told \cup new ELSE told
    BY <1>1, <1>4 DEF Handed
  <1>6. /\ mark \subseteq Rows /\ told \subseteq Rows /\ watermark \in Nat
        /\ watermark = 0 => mark = {} /\ told = {}
        /\ \A r \in told : r > watermark
        /\ \A r \in Rows : status[r] \in {"running", "completed"} => r \in begun
        /\ \A k \in Calls : call[k] \in {"stamped", "marked"} => watermark # 0 \/ ~Running
    BY <1>0 DEF CancelShape
  <1>7. Inherits(s) <=> s <= watermark /\ s \notin mark
    BY DEF Inherits
  <1>8. Claim(s) => s \in begun'
    <2>1. ASSUME Claim(s) PROVE ~Settle(s) /\ ~Rewind(s)
      BY <2>1 DEF Claim, Settle, Rewind, Complete, FailStep, Failable, Advance, FanOut, FireFanInDirect,
         ArriveFanIn, CompleteFlow, TransitionNoOp, Owing
    <2> QED
      BY <1>1, <2>1
  <1>9. ~(s <= watermark /\ s \in told) /\ (watermark = 0 => ~(s <= watermark))
    BY <1>3, <1>6
  <1>10. CancelShape'
    <2>1. mark' \subseteq Rows' /\ told' \subseteq Rows'
      BY <1>3, <1>4, <1>5, <1>6
    <2>2. watermark' = 0 => mark' = {} /\ told' = {}
      BY <1>1, <1>5, <1>6, <1>7, <1>9
    <2>3. ASSUME NEW r \in told' PROVE r > watermark'
      <3>1. watermark <= last
        BY <1>0 DEF CancelShape
      <3> QED
        BY <1>1, <1>3, <1>4, <1>5, <1>6, <3>1
    <2>4. \A r \in Rows' : status'[r] \in {"running", "completed"} => r \in begun'
      BY <1>1, <1>3, <1>6, <1>8
    <2>5. \A k \in Calls : call'[k] \in {"stamped", "marked"} => watermark' # 0 \/ ~Running'
      BY <1>1, <1>3, <1>6
    <2>6. watermark' \in Nat /\ watermark' <= last'
      <3>1. last \in Rows'
        BY <1>3 DEF Rows
      <3>2. last <= last' /\ watermark <= last
        BY <1>0, <1>3, <3>1 DEF Rows, CancelShape
      <3> QED
        BY <1>1, <1>3, <1>6, <3>2
    <2>7. call' \in [Calls -> {"idle", "read", "stamped", "marked", "failed", "returned"}]
      BY <1>0, <1>1 DEF CancelShape
    <2> QED
      BY <2>1, <2>2, <2>3, <2>4, <2>5, <2>6, <2>7 DEF CancelShape
  <1>11. CancelToldOnce'
    <2>1. mark' \cap told' = {}
      <3>1. mark \cap told = {}
        BY <1>0 DEF CancelToldOnce
      <3> QED
        BY <1>3, <1>4, <1>5, <1>6, <1>7, <1>9, <3>1
    <2>2. ASSUME watermark' # 0, NEW r \in Rows', r > watermark' PROVE r \in mark' \cup told'
      <3>1. CASE r \in Rows
        BY <1>0, <1>1, <1>5, <2>2, <3>1 DEF CancelToldOnce
      <3>2. CASE r \in new
        <4>1. s \in mark \cup told \/ (s <= watermark /\ s \notin mark)
          BY <1>0, <1>1, <1>3, <1>6, <2>2 DEF CancelToldOnce
        <4> QED
          BY <1>5, <1>7, <3>2, <4>1
      <3> QED
        BY <1>3, <1>4, <2>2, <3>1, <3>2
    <2>3. ASSUME watermark' # 0, \E k \in Calls : call'[k] = "marked", NEW r \in Rows', status'[r] = "pending"
          PROVE  r \in begun' \cup mark' \cup told'
      <3>1. CASE r \in Rows
        <4>1. status[r] = "pending" => r \in begun \cup mark \cup told
          BY <1>0, <1>1, <2>3, <3>1 DEF CancelToldOnce
        <4> QED
          BY <1>1, <1>3, <1>5, <1>6, <2>3, <3>1, <4>1
      <3>2. CASE r \in new
        <4>1. watermark <= last
          BY <1>0 DEF CancelShape
        <4>2. r > watermark'
          BY <1>1, <1>3, <1>4, <1>6, <3>2, <4>1
        <4> QED
          BY <2>2, <2>3, <4>2
      <3> QED
        BY <1>3, <1>4, <2>3, <3>1, <3>2
    <2> QED
      BY <2>1, <2>2, <2>3 DEF CancelToldOnce
  <1> QED
    BY <1>2, <1>10, <1>11 DEF CancelInv

\* The statements of Cancel: the stamp covers nothing yet, the mark reaches the
\* live steps up to it and no row that was told.
LEMMA CallKeeps ==
  ASSUME CancelInv, NEW k \in Calls, ReadWatermark(k) \/ Stamp(k) \/ Mark(k) \/ MarkFails(k)
  PROVE  CancelInv'
  <1> USE DEF rows, counters, vars
  <1>0. IInv /\ CancelShape /\ CancelToldOnce /\ TypeOK
    BY DEF CancelInv, IInv
  <1>1. UNCHANGED vars /\ UNCHANGED <<told, begun>>
    BY DEF ReadWatermark, Stamp, Mark, MarkFails
  <1>2. IInv' /\ Rows' = Rows /\ (Running' <=> Running)
    BY <1>0, <1>1, NextKeeps DEF Rows, Running
  <1>3. last \in Nat /\ last > 0 /\ \A r \in Rows : r \in Nat /\ r > 0 /\ r <= last
    BY <1>0, RowsAreNumbers DEF Rows
  <1>4. /\ mark \subseteq Rows /\ told \subseteq Rows /\ watermark \in Nat /\ watermark <= last
        /\ watermark = 0 => mark = {} /\ told = {}
        /\ \A r \in told : r > watermark
        /\ \A r \in Rows : status[r] \in {"running", "completed"} => r \in begun
        /\ \A i \in Calls : call[i] \in {"stamped", "marked"} => watermark # 0 \/ ~Running
        /\ call \in [Calls -> {"idle", "read", "stamped", "marked", "failed", "returned"}]
    BY <1>0 DEF CancelShape
  <1>5. CASE ReadWatermark(k) \/ MarkFails(k)
    <2>1. /\ UNCHANGED <<watermark, mark>>
          /\ \E st \in {"read", "returned", "failed"} : call' = [call EXCEPT ![k] = st]
      BY <1>5 DEF ReadWatermark, MarkFails
    <2>2. \A i \in Calls : call'[i] \in {"stamped", "marked"} => call[i] = call'[i]
      BY <1>4, <2>1
    <2>3. CancelShape'
      BY <1>1, <1>2, <1>4, <2>1, <2>2 DEF CancelShape
    <2>4. CancelToldOnce'
      BY <1>0, <1>1, <1>2, <2>1, <2>2 DEF CancelToldOnce
    <2> QED
      BY <1>2, <2>3, <2>4 DEF CancelInv
  <1>6. CASE Stamp(k)
    <2>1. /\ call' = [call EXCEPT ![k] = "stamped"] /\ UNCHANGED mark
          /\ watermark' = IF Running /\ watermark = 0 THEN last ELSE watermark
      BY <1>6 DEF Stamp, Stamped, FlowRowLocked, Running
    <2>2. \A i \in Calls : i # k => call'[i] = call[i]
      BY <1>4, <2>1
    <2>3. call' \in [Calls -> {"idle", "read", "stamped", "marked", "failed", "returned"}] /\ call'[k] = "stamped"
      BY <1>4, <2>1
    <2>4. watermark' \in Nat /\ watermark' <= last' /\ (watermark' # 0 \/ ~Running)
      BY <1>1, <1>3, <1>4, <2>1
    <2>5. watermark' # 0 /\ watermark = 0 => watermark' = last /\ Running
      BY <2>1
    <2>6. CancelShape'
      <3>1. (watermark' = 0 => watermark = 0) /\ (watermark # 0 => watermark' = watermark)
        BY <1>3, <1>4, <2>1
      <3>2. \A r \in told : r > watermark'
        BY <1>4, <3>1, <2>5
      <3>3. \A i \in Calls : call'[i] \in {"stamped", "marked"} => watermark' # 0 \/ ~Running'
        BY <1>2, <1>4, <2>2, <2>4, <3>1
      <3>4. mark' \subseteq Rows' /\ told' \subseteq Rows' /\ (watermark' = 0 => mark' = {} /\ told' = {})
        BY <1>1, <1>2, <1>4, <2>1, <3>1
      <3>5. \A r \in Rows' : status'[r] \in {"running", "completed"} => r \in begun'
        BY <1>1, <1>2, <1>4
      <3> QED
        BY <1>1, <2>3, <2>4, <3>2, <3>3, <3>4, <3>5 DEF CancelShape
    <2>7. CancelToldOnce'
      <3>1. mark' \cap told' = {}
        BY <1>0, <1>1, <2>1 DEF CancelToldOnce
      <3>2. ASSUME watermark' # 0, NEW r \in Rows, r > watermark' PROVE r \in mark \cup told
        BY <1>0, <1>3, <2>1, <2>5, <3>2 DEF CancelToldOnce
      <3>3. ASSUME watermark' # 0, NEW i \in Calls, call'[i] = "marked" PROVE watermark # 0 /\ call[i] = "marked"
        BY <1>4, <2>2, <2>3, <2>5, <3>3
      <3>4. ASSUME watermark' # 0, NEW i \in Calls, call'[i] = "marked", NEW r \in Rows, status[r] = "pending"
            PROVE  r \in begun \cup mark \cup told
        BY <1>0, <3>3, <3>4 DEF CancelToldOnce
      <3> QED
        BY <1>1, <1>2, <2>1, <3>1, <3>2, <3>4 DEF CancelToldOnce
    <2> QED
      BY <1>2, <2>6, <2>7 DEF CancelInv
  <1>7. CASE Mark(k)
    <2>1. /\ call' = [call EXCEPT ![k] = "marked"] /\ UNCHANGED watermark /\ call[k] = "stamped"
          /\ mark' = mark \cup {r \in Rows : status[r] \in LiveStep /\ r <= watermark}
      BY <1>7 DEF Mark
    <2>2. \A i \in Calls : i # k => call'[i] = call[i]
      BY <1>4, <2>1
    <2>3. call' \in [Calls -> {"idle", "read", "stamped", "marked", "failed", "returned"}]
      BY <1>4, <2>1
    <2>4. CancelShape'
      <3>1. mark' \subseteq Rows' /\ (watermark = 0 => mark' = {})
        BY <1>2, <1>3, <1>4, <2>1
      <3>2. \A i \in Calls : call'[i] \in {"stamped", "marked"} => watermark' # 0 \/ ~Running'
        BY <1>2, <1>4, <2>1, <2>2
      <3> QED
        BY <1>1, <1>2, <1>4, <2>1, <2>3, <3>1, <3>2 DEF CancelShape
    <2>5. CancelToldOnce'
      <3>1. mark' \cap told' = {}
        <4>1. \A r \in told : r \notin mark /\ ~(r <= watermark)
          BY <1>0, <1>3, <1>4 DEF CancelToldOnce
        <4> QED
          BY <1>1, <2>1, <4>1
      <3>2. ASSUME watermark # 0, NEW r \in Rows, r > watermark PROVE r \in mark \cup told
        BY <1>0, <3>2 DEF CancelToldOnce
      <3>3. ASSUME watermark # 0, NEW r \in Rows, status[r] = "pending" PROVE r \in mark' \cup told
        <4>1. r <= watermark \/ r > watermark
          BY <1>3, <1>4
        <4> QED
          BY <2>1, <3>2, <3>3, <4>1 DEF LiveStep
      <3> QED
        BY <1>1, <1>2, <2>1, <3>1, <3>2, <3>3 DEF CancelToldOnce
    <2> QED
      BY <1>2, <2>4, <2>5 DEF CancelInv
  <1> QED
    BY <1>5, <1>6, <1>7

\* Terminate settles what was pending.
LEMMA TerminateTellsNone ==
  ASSUME CancelInv, Terminate, UNCHANGED <<watermark, mark, call, told, begun>>
  PROVE  CancelInv'
  <1>0. IInv /\ CancelShape /\ CancelToldOnce /\ TypeOK
    BY DEF CancelInv, IInv
  <1>1. IInv' /\ Rows' = Rows /\ ~Running' /\ last' = last
    BY <1>0, TerminateKeeps DEF Rows, Running, Terminate, rows, TerminalFlow
  <1>2. \A r \in Rows : /\ status'[r] = "pending" => status[r] = "pending"
                        /\ status'[r] \in {"running", "completed"} => status[r] \in {"running", "completed"}
    BY <1>0, RowsAreNumbers DEF Terminate, LiveStep
  <1>3. CancelShape'
    BY <1>0, <1>1, <1>2 DEF CancelShape
  <1>4. CancelToldOnce'
    BY <1>0, <1>1, <1>2 DEF CancelToldOnce
  <1> QED
    BY <1>1, <1>3, <1>4 DEF CancelInv

\* Every path of the flow is told of a Cancel once: whatever calls are repeated
\* or race, wherever the flow is between the stamp and the mark, and even if the
\* mark is lost.
THEOREM CancelIsToldOnce == CancelSpec => []CancelToldOnce
  <1>1. CancelInit => CancelInv
    <2> SUFFICES ASSUME CancelInit PROVE CancelInv
      OBVIOUS
    <2>1. IInv
      BY InitIInv DEF CancelInit
    <2>2. /\ watermark = 0 /\ mark = {} /\ told = {} /\ last \in Nat /\ last > 0
          /\ call = [k \in Calls |-> "idle"]
      BY <2>1, RowsAreNumbers DEF CancelInit, IInv
    <2>3. \A s \in Rows : status[s] = "pending"
      <3>1. last = 1 /\ 1 \in Steps /\ status[1] = "pending"
        BY CohortStepsAssumption DEF CancelInit, Init, Steps
      <3> QED
        BY <3>1 DEF Rows
    <2>4. CancelShape
      BY <2>2, <2>3 DEF CancelShape
    <2>5. CancelToldOnce
      BY <2>2 DEF CancelToldOnce
    <2> QED
      BY <2>1, <2>4, <2>5 DEF CancelInv
  <1>2. CancelInv /\ [CancelNext]_cancelVars => CancelInv'
    <2> SUFFICES ASSUME CancelInv, [CancelNext]_cancelVars PROVE CancelInv'
      OBVIOUS
    <2>1. CASE UNCHANGED cancelVars
      <3>1. IInv'
        BY <2>1, NextKeeps DEF CancelInv, cancelVars
      <3>2. CancelShape' /\ CancelToldOnce'
        BY <2>1 DEF CancelInv, CancelShape, CancelToldOnce, cancelVars, vars, rows, Rows, Running
      <3> QED
        BY <3>1, <3>2 DEF CancelInv
    <2> QED
      BY <2>1, CallKeeps, RunsKeeps, TerminateTellsNone DEF CancelNext
  <1>3. CancelInv => CancelToldOnce
    BY DEF CancelInv
  <1> QED
    BY <1>1, <1>2, <1>3, PTL DEF CancelSpec
=============================================================================
