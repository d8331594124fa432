---------------------------- MODULE PeersProofs ----------------------------
(***************************************************************************)
(* What TLAPS proves about Peers, for every fleet, ranking, cadence and    *)
(* budget. First: what a replica gave up stays given up, although its own  *)
(* Sonar, still alive while the drain goes on, beats and repairs its row,  *)
(* and the Sonars of others prune and read at the same time.               *)
(*                                                                         *)
(* Then: as long as the registry answers, the shares that the replicas     *)
(* work out fit the budget, and so do the pools of all that have been      *)
(* there long enough, however late each of them applies what it read. The  *)
(* replica that ranks last sees all the others before it, so the number of *)
(* shares it works out from its reading, and with it everybody's, is at    *)
(* least the number of replicas that hold one. That needs every reading to *)
(* count every replica that announced itself before it (ReadingsCount),    *)
(* which needs the rows of the replicas never to be stale, nor on a list   *)
(* of rows to prune (RowsAreFresh); and of the pools in use, that each was *)
(* sized from a reading no older than a pass and a lag (SlotsFit, Timers). *)
(***************************************************************************)
EXTENDS Peers, FiniteSetTheorems, WellFoundedInduction, TLAPS

\* The registry's rows have their shape: that of one kept by its replica, or none.
Row == [seen : Int, working : BOOLEAN]
RowsShape == row \in [Engines -> {NoRow} \cup Row]

\* What a step of the system may do to the row of a replica that gave it up.
Kept ==
    \A e \in Engines :
        /\ phase[e] = Withdrawn /\ row'[e] # NoRow =>
              (row'[e].working => row[e] # NoRow /\ row[e].working)
        /\ phase[e] = Gone /\ row'[e] # NoRow => row[e] # NoRow

USE DEF Down, Joining, Up, Draining, Withdrawn, Gone, Crashed

LEMMA NoRowIsNoRow == NoRow \notin Row
  BY DEF NoRow, Row

\* A step that leaves the registry alone.
LEMMA QuietKeeps ==
    ASSUME RowsShape, UNCHANGED row
    PROVE  RowsShape' /\ Kept
  BY DEF RowsShape, Kept

\* A registration carries the flag of the profile of now.
LEMMA RegisteredShape ==
    ASSUME NEW e \in Engines
    PROVE  Registered(e) \in Row /\ Registered(e).working = Working(e)
  BY DEF Registered, Row, Working

\* A beat refreshes a row that is there: it neither creates one nor flags one.
LEMMA BeatKeeps ==
    ASSUME RowsShape, NEW e \in Engines, Pass(e)
    PROVE  RowsShape' /\ Kept
  <1>1. CASE row' = row
    BY <1>1, QuietKeeps
  <1>2. CASE row[e] # NoRow /\ row' = [row EXCEPT ![e].seen = 0]
    <2>1. row[e] \in Row
      BY <1>2 DEF RowsShape
    <2>2. row'[e] \in Row /\ row'[e].working = row[e].working
      BY <1>2, <2>1 DEF RowsShape, Row
    <2>3. \A p \in Engines : p # e => row'[p] = row[p]
      BY <1>2 DEF RowsShape
    <2>4. RowsShape'
      BY <1>2, <2>2, <2>3 DEF RowsShape
    <2>5. QED
      BY <1>2, <2>2, <2>3, <2>4 DEF Kept
  <1>3. QED
    BY <1>1, <1>2 DEF Pass, Beaten

\* A repair writes the flag of now, and the process that repairs has not left; a
\* prune only takes rows away.
LEMMA MendKeeps ==
    ASSUME RowsShape, NEW e \in Engines, Mend(e)
    PROVE  RowsShape' /\ Kept
  <1>1. Alive(e) /\ Registered(e) \in Row /\ Registered(e).working = Working(e)
    BY RegisteredShape DEF Mend
  <1>2. /\ row' = [p \in Engines |-> row'[p]]
        /\ \A p \in Engines : row'[p] \in {row[p], NoRow} \/ (p = e /\ row'[p] = Registered(e))
    BY DEF Mend, RowsShape
  <1>3. RowsShape'
    BY <1>1, <1>2 DEF RowsShape
  <1>4. QED
    BY <1>1, <1>2, <1>3 DEF Kept, Alive, Working

\* A process registers once, before it could give anything up.
LEMMA StartupKeeps ==
    ASSUME RowsShape, NEW e \in Engines, Startup(e)
    PROVE  RowsShape' /\ Kept
  BY RegisteredShape DEF Startup, RowsShape, Kept

\* A drain clears the flag, and its end deletes the row.
LEMMA DrainKeeps ==
    ASSUME RowsShape, NEW e \in Engines, Withdraw(e) \/ Leave(e)
    PROVE  RowsShape' /\ Kept
  <1>1. CASE Withdraw(e)
    <2>1. CASE row' = row
      BY <2>1, QuietKeeps
    <2>2. CASE row[e] # NoRow /\ row' = [row EXCEPT ![e].working = FALSE]
      <3>1. row[e] \in Row /\ row'[e] \in Row
        BY <2>2 DEF RowsShape, Row
      <3>2. \A p \in Engines : p # e => row'[p] = row[p]
        BY <2>2 DEF RowsShape
      <3>3. phase[e] = Draining
        BY <1>1 DEF Withdraw
      <3>4. RowsShape'
        BY <2>2, <3>1, <3>2 DEF RowsShape
      <3>5. QED
        BY <3>2, <3>3, <3>4 DEF Kept
    <2>3. QED
      BY <1>1, <2>1, <2>2 DEF Withdraw
  <1>2. CASE Leave(e)
    BY <1>2 DEF Leave, RowsShape, Kept
  <1>3. QED
    BY <1>1, <1>2

\* A scan that goes by ages every row and changes nothing else of it.
LEMMA TickKeeps ==
    ASSUME RowsShape, Tick
    PROVE  RowsShape' /\ Kept
  <1>1. row' = [e \in Engines |-> IF row[e] = NoRow THEN NoRow
                                  ELSE [row[e] EXCEPT !.seen = Older(@, Straggler)]]
    BY Zenon DEF Tick
  <1>2. ASSUME NEW e \in Engines
        PROVE  \/ row[e] = NoRow /\ row'[e] = NoRow
               \/ row[e] # NoRow /\ row'[e] \in Row /\ row'[e].working = row[e].working
    <2>1. CASE row[e] = NoRow
      BY <1>1, <2>1
    <2>2. CASE row[e] # NoRow
      <3>1. row[e] \in Row
        BY <2>2 DEF RowsShape
      <3>2. Older(row[e].seen, Straggler) \in Int
        BY <3>1 DEF Older, Row
      <3>3. row'[e] = [row[e] EXCEPT !.seen = Older(row[e].seen, Straggler)]
        BY <1>1, <2>2
      <3>4. QED
        BY <2>2, <3>1, <3>2, <3>3 DEF Row
    <2>3. QED
      BY <2>1, <2>2
  <1>3. RowsShape'
    BY <1>1, <1>2 DEF RowsShape
  <1>4. QED
    BY <1>2, <1>3 DEF Kept

-----------------------------------------------------------------------------
LEMMA NextKeeps == RowsShape /\ [Next]_vars => RowsShape' /\ [Kept]_vars
  <1> SUFFICES ASSUME RowsShape, [Next]_vars PROVE RowsShape' /\ Kept
    OBVIOUS
  <1>1. ASSUME NEW e \in Engines,
               Startup(e) \/ Loops(e) \/ Shutdown(e) \/ Leave(e) \/ ClosePools(e) \/ Crash(e)
        PROVE  RowsShape' /\ Kept
    <2>1. CASE SizePools(e) \/ Reconcile(e) \/ Shutdown(e) \/ ClosePools(e) \/ Crash(e)
      BY <2>1, QuietKeeps DEF SizePools, Reconcile, Shutdown, ClosePools, Crash
    <2>2. QED
      BY <1>1, <2>1, StartupKeeps, BeatKeeps, MendKeeps, DrainKeeps DEF Loops
  <1>2. CASE Outage \/ Recover \/ UNCHANGED vars
    BY <1>2, QuietKeeps DEF Outage, Recover, vars
  <1>3. CASE Tick
    BY <1>3, TickKeeps
  <1>4. QED
    BY <1>1, <1>2, <1>3 DEF Next

LEMMA InitShape == Init => RowsShape
  <1> SUFFICES ASSUME Init PROVE RowsShape
    OBVIOUS
  <1>1. row = [e \in Engines |->
                 IF e \in Settled THEN [seen |-> 0, working |-> e \notin NoWorkers] ELSE NoRow]
    BY Zenon DEF Init
  <1>2. ASSUME NEW working \in BOOLEAN
        PROVE  [seen |-> 0, working |-> working] \in Row
    BY DEF Row
  <1>3. ASSUME NEW e \in Engines
        PROVE  [seen |-> 0, working |-> e \notin NoWorkers] \in Row
    <2>1. (e \notin NoWorkers) \in BOOLEAN
      OBVIOUS
    <2>2. QED
      BY <1>2, <2>1
  <1>4. QED
    BY <1>1, <1>3 DEF RowsShape

\* No step makes a row claim again what its replica gave up (Sonar.Withdraw,
\* Leave, register, publishBeat), for every fleet and every order of beats,
\* repairs, prunes and drains.
THEOREM GivenUpStaysGivenUp == Spec => GivenUpForGood
  BY InitShape, NextKeeps, PTL DEF Spec, GivenUpForGood, Kept

-----------------------------------------------------------------------------
(* Shares and sums *)

LEMMA Division ==
    ASSUME NEW a \in Nat, NEW b \in Nat \ {0}
    PROVE  a \div b \in Nat /\ b * (a \div b) <= a /\ a < b * (a \div b) + b
  OBVIOUS

\* A share times its divisor is the budget, up to the rounding.
LEMMA ShareTimesDivisor ==
    ASSUME NEW n \in Nat \ {0}
    PROVE  RoundDiv(Budget, n) \in Nat /\ n * RoundDiv(Budget, n) <= Budget + n \div 2
  <1> DEFINE q == (2 * Budget + n) \div (2 * n)
  <1>1. Budget \in Nat /\ 2 * Budget + n \in Nat /\ 2 * n \in Nat \ {0}
    BY WindowsAssumption
  <1>2. q \in Nat /\ (2 * n) * q <= 2 * Budget + n
    BY <1>1, Division
  <1>3. n * q \in Nat /\ 2 * (n * q) <= 2 * Budget + n
    <2> HIDE DEF q
    <2>1. QED
      BY <1>2
  <1>4. n \div 2 \in Nat /\ 2 * (n \div 2) <= n /\ n <= 2 * (n \div 2) + 1
    OBVIOUS
  <1>5. n * q <= Budget + n \div 2
    <2> HIDE DEF q
    <2>1. QED
      BY <1>1, <1>3, <1>4
  <1>6. QED
    BY <1>2, <1>5 DEF RoundDiv

\* The more replicas share the budget, the smaller the share.
LEMMA SharesShrink ==
    ASSUME NEW n \in Nat \ {0}, NEW k \in Nat \ {0}, k <= n
    PROVE  RoundDiv(Budget, n) <= RoundDiv(Budget, k)
  <1> DEFINE q == (2 * Budget + n) \div (2 * n)
             p == (2 * Budget + k) \div (2 * k)
  <1>1. Budget \in Nat /\ 2 * Budget + n \in Nat /\ 2 * n \in Nat \ {0}
        /\ 2 * Budget + k \in Nat /\ 2 * k \in Nat \ {0}
    BY WindowsAssumption
  <1>2. q \in Nat /\ (2 * n) * q <= 2 * Budget + n
    BY <1>1, Division
  <1>3. p \in Nat /\ 2 * Budget + k < (2 * k) * p + 2 * k
    BY <1>1, Division
  <1>4. q <= p
    <2> HIDE DEF q, p
    <2>1. SUFFICES ASSUME q >= p + 1 PROVE FALSE
      BY <1>2, <1>3
    <2>2. (2 * q - 1) * k <= (2 * q - 1) * n
      BY <1>2, <1>3, <2>1
    <2>3. (2 * q - 1) * n <= 2 * Budget
      BY <1>1, <1>2
    <2>4. k * q >= k * (p + 1)
      BY <1>2, <1>3, <2>1
    <2>5. (2 * q - 1) * k = 2 * (k * q) - k /\ k * (p + 1) = k * p + k /\ (2 * k) * p = 2 * (k * p)
      BY <1>2, <1>3
    <2>6. k * q \in Nat /\ k * p \in Nat /\ (2 * q - 1) * n \in Int
      BY <1>2, <1>3
    <2>7. QED
      BY <1>1, <1>3, <2>2, <2>3, <2>4, <2>5, <2>6
  <1>5. QED
    BY <1>4 DEF RoundDiv

LEMMA PoolShape ==
    ASSUME NEW n \in Nat
    PROVE  PoolOf(n) \in Nat
  <1>1. CASE n = 0
    BY <1>1 DEF PoolOf, ReaderConns
  <1>2. CASE n # 0
    BY <1>2, ShareTimesDivisor DEF PoolOf
  <1>3. QED
    BY <1>1, <1>2

LEMMA PoolsShrink ==
    ASSUME NEW n \in Nat \ {0}, NEW k \in Nat \ {0}, k <= n
    PROVE  PoolOf(n) <= PoolOf(k)
  BY SharesShrink, ShareTimesDivisor DEF PoolOf

LEMMA PoolTimesDivisor ==
    ASSUME NEW k \in Nat \ {0}
    PROVE  PoolOf(k) * k <= Max({Budget + k \div 2, 2 * k})
  <1>1. RoundDiv(Budget, k) \in Nat /\ k * RoundDiv(Budget, k) <= Budget + k \div 2
    BY ShareTimesDivisor
  <1>2. Budget + k \div 2 \in Int /\ 2 * k \in Int
    BY WindowsAssumption
  <1>3. \A a, b \in Int : Max({a, b}) >= a /\ Max({a, b}) >= b /\ Max({a, b}) \in Int
    BY DEF Max
  <1> DEFINE most == Max({Budget + k \div 2, 2 * k})
  <1>4. most \in Int /\ most >= Budget + k \div 2 /\ most >= 2 * k
    BY <1>2, <1>3
  <1>5. PoolOf(k) = RoundDiv(Budget, k) \/ PoolOf(k) = 2
    BY DEF PoolOf
  <1>6. QED
    <2>1. PoolOf(k) * k <= most
      <3> HIDE DEF most
      <3>1. QED
        BY <1>1, <1>2, <1>4, <1>5
    <2>2. QED
      BY <2>1

\* Every non-empty family of sets of engines has a smallest member.
LEMMA SmallestSet ==
    ASSUME NEW B, B \subseteq SUBSET Engines, B # {}
    PROVE  \E T \in B : \A U \in B : U \subseteq T => U = T
  <1>1. \A T \in SUBSET Engines : IsFiniteSet(T)
    BY EnginesAssumption, FS_Subset
  <1>2. B \subseteq FiniteSubsetsOf(Engines)
    BY <1>1 DEF FiniteSubsetsOf
  <1>3. PICK T \in B : \A U \in B : <<U, T>> \notin StrictSubsetOrdering(Engines)
    BY <1>2, FS_StrictSubsetOrderingWellFounded, WFMin
  <1>4. QED
    BY <1>3 DEF StrictSubsetOrdering

\* The sum of a function over the subsets of a set, as MapThenSumSet defines it.
IsSum(g, val, S) ==
    g = [s \in S |-> IF s = {} THEN 0
                     ELSE val[CHOOSE x \in s : TRUE] + g[s \ {CHOOSE x \in s : TRUE}]]

\* Every set has such a sum: the smallest set without one would have one, built
\* on those of the sets with an element less.
LEMMA SumExists ==
    ASSUME NEW E \in SUBSET Engines, NEW val
    PROVE  \E g : IsSum(g, val, SUBSET E)
  <1> DEFINE Upto(n) == {s \in SUBSET E : Cardinality(s) <= n}
             Bad == {n \in Nat : ~\E g : IsSum(g, val, Upto(n))}
  <1>1. \A s \in SUBSET E : IsFiniteSet(s) /\ Cardinality(s) \in Nat /\ Cardinality(s) <= Cardinality(E)
    BY EnginesAssumption, FS_Subset, FS_CardinalityType
  <1>2. \A s \in SUBSET E : s # {} =>
           /\ (CHOOSE x \in s : TRUE) \in s
           /\ s \ {CHOOSE x \in s : TRUE} \in SUBSET E
           /\ Cardinality(s \ {CHOOSE x \in s : TRUE}) = Cardinality(s) - 1
    BY <1>1, FS_RemoveElement
  <1>3. ASSUME NEW n \in Nat, NEW g, IsSum(g, val, Upto(n)) PROVE n + 1 \notin Bad
    <2> DEFINE c(s) == CHOOSE x \in s : TRUE
    <2>0. PICK h : h = [s \in Upto(n + 1) |-> IF s = {} THEN 0 ELSE val[c(s)] + g[s \ {c(s)}]]
      OBVIOUS
    <2>1. ASSUME NEW s \in Upto(n + 1), s # {} PROVE h[s \ {c(s)}] = g[s \ {c(s)}]
      <3> DEFINE t == s \ {c(s)}
      <3>1. t \in Upto(n) /\ t \in Upto(n + 1)
        BY <1>1, <1>2, <2>1
      <3>2. h[t] = IF t = {} THEN 0 ELSE val[c(t)] + g[t \ {c(t)}]
        BY <2>0, <3>1
      <3>3. g[t] = IF t = {} THEN 0 ELSE val[c(t)] + g[t \ {c(t)}]
        BY <1>3, <3>1 DEF IsSum
      <3>4. QED
        BY <3>2, <3>3
    <2>2. h = [s \in Upto(n + 1) |-> IF s = {} THEN 0 ELSE val[c(s)] + h[s \ {c(s)}]]
      <3>1. \A s \in Upto(n + 1) : h[s] = IF s = {} THEN 0 ELSE val[c(s)] + h[s \ {c(s)}]
        <4>1. \A s \in Upto(n + 1) : h[s] = IF s = {} THEN 0 ELSE val[c(s)] + g[s \ {c(s)}]
          <5> HIDE DEF Upto, c
          <5>1. QED
            BY <2>0
        <4>2. QED
          <5> HIDE DEF Upto, c
          <5>1. QED
            BY <2>1, <4>1
      <3>2. h = [s \in Upto(n + 1) |-> h[s]]
        <4> HIDE DEF Upto, c
        <4>1. QED
          BY <2>0
      <3>3. QED
        <4> HIDE DEF Upto, c
        <4>1. QED
          BY <3>1, <3>2
    <2>3. IsSum(h, val, Upto(n + 1))
      BY <2>2 DEF IsSum
    <2>4. QED
      BY <2>3
  <1>4. 0 \notin Bad
    <2> DEFINE h == [s \in Upto(0) |-> 0]
    <2>1. Upto(0) = {{}}
      BY <1>1, EnginesAssumption, FS_Subset, FS_EmptySet
    <2>2. h = [s \in Upto(0) |-> IF s = {} THEN 0
                                 ELSE val[CHOOSE x \in s : TRUE] + h[s \ {CHOOSE x \in s : TRUE}]]
      BY <2>1
    <2>3. IsSum(h, val, Upto(0))
      BY <2>2 DEF IsSum
    <2>4. QED
      BY <2>3
  <1>5. Cardinality(E) \notin Bad
    <2> SUFFICES ASSUME Cardinality(E) \in Bad PROVE FALSE
      OBVIOUS
    <2> DEFINE Lost == {s \in SUBSET E : Cardinality(s) \in Bad}
    <2>1. Lost \subseteq SUBSET Engines /\ E \in Lost
      BY <1>1
    <2>2. PICK T \in Lost : \A U \in Lost : U \subseteq T => U = T
      <3> HIDE DEF Lost
      <3>1. QED
        BY <2>1, SmallestSet
    <2>3. T # {}
      BY <1>4, <2>2, FS_EmptySet
    <2>4. PICK x : x \in T
      BY <2>3
    <2>5. Cardinality(T \ {x}) \in Nat /\ Cardinality(T) = Cardinality(T \ {x}) + 1
      BY <1>1, <2>2, <2>4, FS_RemoveElement
    <2>6. Cardinality(T \ {x}) \in Bad
      BY <1>3, <2>2, <2>5
    <2>7. T \ {x} \in Lost /\ T \ {x} \subseteq T /\ T \ {x} # T
      <3> HIDE DEF Bad
      <3>1. QED
        BY <2>2, <2>4, <2>6
    <2>8. QED
      <3> HIDE DEF Lost
      <3>1. QED
        BY <2>2, <2>7
  <1>6. Upto(Cardinality(E)) = SUBSET E
    BY <1>1
  <1>7. QED
    BY <1>1, <1>5, <1>6

\* The sum of a set of pools, each of them no larger than m.
LEMMA HeldIsBounded ==
    ASSUME NEW S \in SUBSET Engines, NEW n, NEW m \in Nat,
           \A e \in S : PoolOf(n[e]) \in Nat /\ PoolOf(n[e]) <= m
    PROVE  Held(S, n) \in Nat /\ Held(S, n) <= m * Cardinality(S)
  <1> DEFINE g == CHOOSE f : f = [s \in SUBSET S |->
                     IF s = {} THEN 0 ELSE PoolOf(n[CHOOSE x \in s : TRUE])
                                           + f[s \ {CHOOSE x \in s : TRUE}]]
             c(s) == CHOOSE x \in s : TRUE
  <1>1. Held(S, n) = g[S]
    BY DEF Held, MapThenSumSet, MapThenFoldSet
  <1>2. \A s \in SUBSET S : g[s] = IF s = {} THEN 0 ELSE PoolOf(n[c(s)]) + g[s \ {c(s)}]
    <2> DEFINE val == [e \in S |-> PoolOf(n[e])]
    <2>1. PICK f : IsSum(f, val, SUBSET S)
      <3> HIDE DEF val
      <3>1. QED
        BY SumExists
    <2>2. \A s \in SUBSET S : s # {} => val[c(s)] = PoolOf(n[c(s)])
      OBVIOUS
    <2>3. f = [s \in SUBSET S |-> IF s = {} THEN 0 ELSE PoolOf(n[c(s)]) + f[s \ {c(s)}]]
      <3> HIDE DEF val
      <3>1. f = [s \in SUBSET S |-> IF s = {} THEN 0 ELSE val[c(s)] + f[s \ {c(s)}]]
        BY <2>1 DEF IsSum
      <3>2. QED
        <4> HIDE DEF c
        <4>1. QED
          BY <2>2, <3>1
    <2>4. g = [s \in SUBSET S |-> IF s = {} THEN 0 ELSE PoolOf(n[c(s)]) + g[s \ {c(s)}]]
      BY <2>3
    <2>5. QED
      <3> HIDE DEF g, c
      <3>1. QED
        BY <2>4
  <1> HIDE DEF g
  <1>3. \A s \in SUBSET S : IsFiniteSet(s) /\ Cardinality(s) \in Nat
    BY EnginesAssumption, FS_Subset, FS_CardinalityType
  <1> DEFINE Bad == {s \in SUBSET S : ~(g[s] \in Nat /\ g[s] <= m * Cardinality(s))}
  <1>4. Bad = {}
    <2> SUFFICES ASSUME Bad # {} PROVE FALSE
      OBVIOUS
    <2>1. PICK T \in Bad : \A U \in Bad : U \subseteq T => U = T
      <3>1. Bad \subseteq SUBSET Engines
        OBVIOUS
      <3> HIDE DEF Bad
      <3>2. QED
        BY <3>1, SmallestSet
    <2>2. T # {}
      <3>1. g[{}] = 0 /\ m * Cardinality({}) = 0
        <4>1. g[{}] = 0
          BY <1>2
        <4>2. QED
          BY <4>1, FS_EmptySet
      <3>2. {} \notin Bad
        BY <3>1
      <3>3. QED
        BY <3>2
    <2> DEFINE U == T \ {c(T)}
    <2>3. c(T) \in T /\ U \in SUBSET S /\ U # T /\ U \subseteq T
      BY <2>2
    <2>4. Cardinality(T) = Cardinality(U) + 1 /\ Cardinality(U) \in Nat
      <3>1. IsFiniteSet(T) /\ Cardinality(T) \in Nat /\ Cardinality(U) \in Nat
        BY <1>3, <2>3
      <3>2. Cardinality(U) = Cardinality(T) - 1
        BY <2>3, <3>1, FS_RemoveElement
      <3>3. QED
        <4> HIDE DEF U
        <4>1. QED
          BY <3>1, <3>2
    <2>5. g[U] \in Nat /\ g[U] <= m * Cardinality(U)
      <3>1. U \notin Bad
        <4> HIDE DEF Bad, U
        <4>1. QED
          BY <2>1, <2>3
      <3>2. QED
        BY <2>3, <3>1
    <2>6. g[T] = PoolOf(n[c(T)]) + g[U]
      BY <1>2, <2>2
    <2>7. PoolOf(n[c(T)]) \in Nat /\ PoolOf(n[c(T)]) <= m
      BY <2>3
    <2>8. m * Cardinality(T) = m * Cardinality(U) + m
      <3> HIDE DEF U
      <3>1. QED
        BY <2>4
    <2>9. g[T] \in Nat /\ g[T] <= m * Cardinality(T)
      <3> HIDE DEF U, c
      <3>1. m * Cardinality(U) \in Nat
        BY <2>4
      <3>2. QED
        BY <2>5, <2>6, <2>7, <2>8, <3>1
    <2>10. QED
      BY <2>9
  <1>5. QED
    BY <1>1, <1>4

-----------------------------------------------------------------------------
(* The shared budget *)

\* A replica whose row the others see and count until it withdraws or leaves.
Member(e) == KeepsFresh(e) /\ phase[e] \in {Joining, Up, Draining} /\ e \notin NoWorkers

\* It has completed a reading: that of its join, or a later one.
HasRead(e) == phase[e] \in {Up, Draining} \/ (phase[e] = Joining /\ pass[e].at # "sleep")

\* The members that announced themselves more than d scans ago.
Known(d) == {f \in Engines : Member(f) /\ age[f] > d}

\* A standing misses none of these replicas, and none of them that goes first.
Counts(e, standing, W) ==
    /\ standing.candidates >= Cardinality(W)
    /\ standing.rank >= Cardinality({f \in W : Outranks(f, e)})

\* A number of slots worked out from such a standing.
Fit(e, n, W) ==
    \E standing \in [rank : Nat, candidates : Nat] :
        /\ Counts(e, standing, W)
        /\ n = DispatcherSlots(standing.candidates) /\ standing.rank < n

Shapes ==
    /\ RowsShape
    /\ phase \in [Engines -> {Down, Joining, Up, Draining, Withdrawn, Gone, Crashed}]
    /\ pass \in [Engines -> [at : {"sleep", "mend", "joined"}, repair : BOOLEAN, dead : SUBSET Engines]]
    /\ sonar \in [Engines -> [next : Int, beatIn : Nat, good : Nat, healthy : Int,
                              raw : [rank : Nat, candidates : Nat]]]
    /\ seen \in [Engines -> [rank : Nat, candidates : Nat]]
    /\ slots \in [Engines -> Nat]
    /\ late \in [Engines -> Nat]
    /\ age \in [Engines -> Nat]
    /\ pace \in [Engines -> Nat \ {0}]
    /\ outages \in Nat

\* The row of a member is there, says that it works, and is fresh: a beat comes
\* before it is stale, and the first reading of a join at least two scans after
\* its row.
FreshRow(e) ==
    /\ row[e] # NoRow /\ row[e].working
    /\ sonar[e].next <= 2 /\ sonar[e].next >= 1 - pace[e] /\ sonar[e].beatIn <= Beat
    /\ IF HasRead(e)
       THEN /\ sonar[e].next <= 1 /\ age[e] >= 2
            /\ row[e].seen + (IF sonar[e].beatIn > 0 THEN sonar[e].beatIn
                                                    ELSE sonar[e].next) <= Beat
       ELSE /\ row[e].seen + sonar[e].next <= 2 /\ sonar[e].beatIn = 0
            /\ age[e] >= 2 \/ age[e] + sonar[e].next >= 2

\* No pass under way is about to delete it.
Spared(e) == \A p \in Engines : e \notin pass[p].dead

\* A reading has counted all members that announced themselves before it, in an
\* earlier scan, and the reader.
Reading(e) == Counts(e, seen[e], Known(1 - sonar[e].next) \cup {e})

\* The scans since the reading that the pool of a dispatcher was sized from, at most.
Lag(e) == pace[e] + late[e] + (IF phase[e] = Draining THEN MaxLag ELSE 0)

RowsAreFresh == \A e \in Engines : Member(e) => FreshRow(e) /\ Spared(e)
ReadingsCount == \A e \in Engines : Member(e) /\ HasRead(e) => Reading(e)
SlotsFit ==
    \A e \in Counted : slots[e] > 0 =>
        e \notin NoWorkers /\ (KeepsFresh(e) => Fit(e, slots[e], Known(Lag(e)) \cup {e}))

\* A process that has not started left nothing behind.
Unborn ==
    \A e \in Engines : phase[e] = Down =>
        row[e] = NoRow /\ pass[e].at = "sleep" /\ Spared(e) /\ age[e] = 0

\* Nothing lags for more than it may.
Timers ==
    \A e \in Engines : /\ phase[e] \in {Down, Joining, Up} => late[e] <= MaxLag
                       /\ phase[e] = Draining => late[e] <= MaxLag + 1

BudgetInv ==
    /\ Shapes
    /\ Unborn
    /\ Timers
    /\ outages = 0 => cut = {} /\ RowsAreFresh /\ ReadingsCount /\ SlotsFit

\* The rendezvous order is strict and total.
LEMMA RanksAreOrdered ==
    /\ \A a \in Engines : ~Outranks(a, a)
    /\ \A a, b \in Engines : a # b => Outranks(a, b) \/ Outranks(b, a)
    /\ \A a, b, d \in Engines : Outranks(a, b) /\ Outranks(b, d) => Outranks(a, d)
  BY EnginesAssumption DEF Outranks

LEMMA EnginesAreFinite ==
    ASSUME NEW S \in SUBSET Engines
    PROVE  IsFiniteSet(S) /\ Cardinality(S) \in Nat
  BY EnginesAssumption, FS_Subset, FS_CardinalityType

LEMMA SubsetsAreSmaller ==
    ASSUME NEW S \in SUBSET Engines, NEW T \in SUBSET S
    PROVE  Cardinality(T) <= Cardinality(S)
  BY EnginesAreFinite, FS_Subset

\* Somebody comes last: the one with the fewest below it.
LEMMA SomebodyIsLast ==
    ASSUME NEW S \in SUBSET Engines, S # {}
    PROVE  \E e \in S : \A f \in S \ {e} : Outranks(f, e)
  <1> DEFINE Lower(e) == {f \in S : Outranks(e, f)}
             Sets == {Lower(e) : e \in S}
  <1>1. PICK T \in Sets : \A U \in Sets : U \subseteq T => U = T
    <2>1. Sets \subseteq SUBSET Engines /\ Sets # {}
      OBVIOUS
    <2> HIDE DEF Sets
    <2>2. QED
      BY <2>1, SmallestSet
  <1>2. PICK e \in S : T = Lower(e)
    OBVIOUS
  <1>3. ASSUME NEW f \in S, Outranks(e, f) PROVE FALSE
    <2>1. Lower(f) \subseteq Lower(e) /\ f \in Lower(e) /\ f \notin Lower(f)
      BY <1>3, RanksAreOrdered
    <2>2. Lower(f) \in Sets
      OBVIOUS
    <2> HIDE DEF Sets, Lower
    <2>3. QED
      BY <1>1, <1>2, <2>1, <2>2
  <1>4. QED
    BY <1>3, RanksAreOrdered

\* A standing that counts a set counts every part of it.
LEMMA CountsLess ==
    ASSUME NEW e \in Engines, NEW standing \in [rank : Nat, candidates : Nat],
           NEW W \in SUBSET Engines, NEW V \in SUBSET W, Counts(e, standing, W)
    PROVE  Counts(e, standing, V)
  <1>1. Cardinality(V) <= Cardinality(W)
    BY SubsetsAreSmaller
  <1>2. Cardinality({f \in V : Outranks(f, e)}) <= Cardinality({f \in W : Outranks(f, e)})
    <2> DEFINE A == {f \in W : Outranks(f, e)}
               B == {f \in V : Outranks(f, e)}
    <2>1. A \in SUBSET Engines /\ B \in SUBSET A
      OBVIOUS
    <2> HIDE DEF A, B
    <2>2. QED
      BY <2>1, SubsetsAreSmaller
  <1> DEFINE a == Cardinality({f \in W : Outranks(f, e)})
             b == Cardinality({f \in V : Outranks(f, e)})
  <1>3. a \in Nat /\ b \in Nat /\ Cardinality(V) \in Nat /\ Cardinality(W) \in Nat
    BY EnginesAreFinite
  <1>4. standing.candidates >= Cardinality(V) /\ standing.rank >= b
    <2>1. standing.candidates >= Cardinality(W) /\ standing.rank >= a
      BY DEF Counts
    <2> HIDE DEF a, b
    <2>2. QED
      BY <1>1, <1>2, <1>3, <2>1 DEF a, b
  <1>5. QED
    BY <1>4 DEF Counts

LEMMA FitLess ==
    ASSUME NEW e \in Engines, NEW n, NEW W \in SUBSET Engines, NEW V \in SUBSET W, Fit(e, n, W)
    PROVE  Fit(e, n, V)
  BY CountsLess DEF Fit

LEMMA SlotsOfCandidates ==
    ASSUME NEW n \in Nat
    PROVE  DispatcherSlots(n) \in Nat \ {0}
  BY WindowsAssumption DEF DispatcherSlots

\* More candidates never mean fewer slots.
LEMMA SlotsGrow ==
    ASSUME NEW k \in Nat, NEW a \in Nat, NEW b \in Nat, k <= a, k <= b, k <= DispatcherSlots(a)
    PROVE  k <= DispatcherSlots(b)
  BY WindowsAssumption DEF DispatcherSlots

\* The last of a set of dispatchers sees all the others before it, so the shard
\* has a slot for each of them; and so it has in the eyes of the others.
LEMMA EnoughSlots ==
    ASSUME NEW S \in SUBSET Engines, NEW n, \A e \in S : Fit(e, n[e], S)
    PROVE  \A e \in S : n[e] \in Nat /\ n[e] >= Cardinality(S)
  <1> SUFFICES ASSUME S # {} PROVE \A e \in S : n[e] \in Nat /\ n[e] >= Cardinality(S)
    OBVIOUS
  <1>1. PICK last \in S : \A f \in S \ {last} : Outranks(f, last)
    BY SomebodyIsLast
  <1>2. IsFiniteSet(S) /\ Cardinality(S) \in Nat
    BY EnginesAreFinite
  <1>3. PICK z \in [rank : Nat, candidates : Nat] :
           Counts(last, z, S) /\ n[last] = DispatcherSlots(z.candidates) /\ z.rank < n[last]
    BY DEF Fit
  <1>4. {f \in S : Outranks(f, last)} = S \ {last}
    BY <1>1, RanksAreOrdered
  <1>5. Cardinality(S \ {last}) = Cardinality(S) - 1
    BY <1>2, FS_RemoveElement
  <1>6. Cardinality(S) <= DispatcherSlots(z.candidates) /\ z.candidates >= Cardinality(S)
    <2>1. z.rank >= Cardinality(S) - 1 /\ z.candidates >= Cardinality(S)
      BY <1>3, <1>4, <1>5 DEF Counts
    <2>2. DispatcherSlots(z.candidates) \in Nat
      BY SlotsOfCandidates
    <2>3. QED
      BY <1>2, <1>3, <2>1, <2>2
  <1>7. ASSUME NEW e \in S PROVE n[e] \in Nat /\ n[e] >= Cardinality(S)
    <2>1. PICK y \in [rank : Nat, candidates : Nat] :
             Counts(e, y, S) /\ n[e] = DispatcherSlots(y.candidates)
      BY DEF Fit
    <2>2. y.candidates >= Cardinality(S)
      BY <2>1 DEF Counts
    <2>3. Cardinality(S) <= DispatcherSlots(y.candidates)
      BY <1>2, <1>6, <2>2, SlotsGrow
    <2>4. DispatcherSlots(y.candidates) \in Nat
      BY SlotsOfCandidates
    <2>5. QED
      BY <1>2, <2>1, <2>3, <2>4
  <1>8. QED
    BY <1>7

\* With enough slots in everybody's eyes the shares add up to the budget.
LEMMA EnoughBudget ==
    ASSUME NEW S \in SUBSET Engines, NEW n, \A e \in S : Fit(e, n[e], S)
    PROVE  Fits(S, n)
  <1>3. Cardinality(S) \in Nat /\ IsFiniteSet(S)
    BY EnginesAreFinite
  <1>4. \A e \in S : n[e] \in Nat /\ n[e] >= Cardinality(S)
    BY EnoughSlots
  <1>5. CASE S = {}
    <2>1. Cardinality(S) = 0 /\ 0 \in Nat
      BY <1>5, FS_EmptySet
    <2>2. Held(S, n) \in Nat /\ Held(S, n) <= 0 * Cardinality(S)
      BY <1>5, HeldIsBounded
    <2>3. Max({Budget + Cardinality(S) \div 2, 2 * Cardinality(S)}) >= 0
      <3>1. Budget + 0 \div 2 \in Nat /\ 2 * 0 = 0
        BY WindowsAssumption
      <3>2. \A a \in Nat : Max({a, 0}) >= 0
        BY DEF Max
      <3>3. QED
        BY <2>1, <3>1, <3>2
    <2>4. Held(S, n) <= Max({Budget + Cardinality(S) \div 2, 2 * Cardinality(S)})
      <3> DEFINE most == Max({Budget + Cardinality(S) \div 2, 2 * Cardinality(S)})
      <3>1. Held(S, n) = 0
        BY <2>1, <2>2
      <3>2. QED
        BY <2>3, <3>1
    <2>5. QED
      BY <2>4 DEF Fits
  <1>6. CASE S # {}
    <2> DEFINE k == Cardinality(S)
    <2>1. k \in Nat \ {0}
      BY <1>3, <1>6, FS_EmptySet
    <2>2. \A e \in S : PoolOf(n[e]) \in Nat /\ PoolOf(n[e]) <= PoolOf(k)
      <3> HIDE DEF k
      <3>1. \A e \in S : n[e] \in Nat \ {0} /\ k <= n[e]
        BY <1>4, <2>1 DEF k
      <3>2. QED
        BY <2>1, <3>1, PoolShape, PoolsShrink
    <2>3. Held(S, n) \in Nat /\ Held(S, n) <= PoolOf(k) * k
      BY <2>1, <2>2, PoolShape, HeldIsBounded
    <2>4. PoolOf(k) * k <= Max({Budget + k \div 2, 2 * k}) /\ PoolOf(k) * k \in Nat
      <3> HIDE DEF k
      <3>1. QED
        BY <2>1, PoolTimesDivisor, PoolShape
    <2>5. Max({Budget + k \div 2, 2 * k}) \in Int
      <3>1. Budget + k \div 2 \in Int /\ 2 * k \in Int
        BY <2>1, WindowsAssumption
      <3>2. \A a, b \in Int : Max({a, b}) \in Int
        BY DEF Max
      <3>3. QED
        BY <3>1, <3>2
    <2>6. Held(S, n) <= Max({Budget + k \div 2, 2 * k})
      <3> DEFINE most == Max({Budget + k \div 2, 2 * k})
      <3> HIDE DEF most, k
      <3>1. QED
        BY <2>3, <2>4, <2>5 DEF most
    <2>7. QED
      BY <2>6 DEF Fits
  <1>7. QED
    BY <1>5, <1>6

\* A standing is a pair of counts.
LEMMA StandingShape ==
    ASSUME NEW rows, NEW e \in Engines
    PROVE  Standing(rows, e) \in [rank : Nat, candidates : Nat]
  <1>1. Ranked(rows) \in SUBSET Engines
    BY DEF Ranked
  <1>2. Cardinality({p \in Ranked(rows) \ {e} : Outranks(p, e)}) \in Nat
    <2>1. {p \in Ranked(rows) \ {e} : Outranks(p, e)} \in SUBSET Engines
      BY <1>1
    <2>2. QED
      BY <2>1, EnginesAreFinite
  <1>3. Cardinality(Ranked(rows)) \in Nat
    BY <1>1, EnginesAreFinite
  <1>4. QED
    BY <1>2, <1>3 DEF Standing

\* What a reading publishes is never less than what it found.
LEMMA PublishedShape ==
    ASSUME Shapes, NEW e \in Engines, NEW raw \in [rank : Nat, candidates : Nat]
    PROVE  /\ Published(e, raw) \in [rank : Nat, candidates : Nat]
           /\ Published(e, raw).rank >= raw.rank
           /\ Published(e, raw).candidates >= raw.candidates
  <1>1. sonar[e].raw \in [rank : Nat, candidates : Nat]
    BY DEF Shapes
  <1>2. \A a, b \in Nat : Max({a, b}) \in Nat /\ Max({a, b}) >= a
    BY DEF Max
  <1> DEFINE r == Max({raw.rank, sonar[e].raw.rank})
             n == Max({raw.candidates, sonar[e].raw.candidates})
  <1>3. r \in Nat /\ n \in Nat /\ r >= raw.rank /\ n >= raw.candidates
    BY <1>1, <1>2
  <1>4. Published(e, raw) = raw \/ Published(e, raw) = [rank |-> r, candidates |-> n]
    BY DEF Published
  <1> HIDE DEF r, n
  <1>5. QED
    BY <1>3, <1>4

LEMMA SlotsOnShape ==
    ASSUME Shapes, NEW e \in Engines
    PROVE  SlotsOn(e) \in Nat
  BY SlotsOfCandidates DEF SlotsOn, Shapes

Ears == [next : Int, beatIn : Nat, good : Nat, healthy : Int, raw : [rank : Nat, candidates : Nat]]

LEMMA FreshSonarShape == FreshSonar \in Ears /\ FreshSeen \in [rank : Nat, candidates : Nat]
  BY DEF FreshSonar, FreshSeen, Ears

Stands == [rank : Nat, candidates : Nat]
Loop == [at : {"sleep", "mend", "joined"}, repair : BOOLEAN, dead : SUBSET Engines]

\* The clocks of a Sonar that passes.
Clocked(s, b) == [s EXCEPT !.next = 1, !.beatIn = b]
LEMMA EarsClocked ==
    ASSUME NEW s \in Ears, NEW b \in Nat
    PROVE  Clocked(s, b) \in Ears /\ Clocked(s, b).next = 1 /\ Clocked(s, b).beatIn = b
  <1> DEFINE w == [s EXCEPT !.next = 1]
             y == [w EXCEPT !.beatIn = b]
  <1>1. w \in Ears /\ w.next = 1
    BY DEF Ears
  <1> HIDE DEF w
  <1>2. y \in Ears /\ y.next = 1 /\ y.beatIn = b
    BY <1>1 DEF Ears
  <1>3. Clocked(s, b) = y
    BY Zenon DEF Clocked, w
  <1> HIDE DEF y
  <1>4. QED
    BY <1>2, <1>3

\* The clocks of a Sonar that has read.
Heard(s, b, h, r) == [s EXCEPT !.next = 1, !.beatIn = b, !.good = 0, !.healthy = h, !.raw = r]
LEMMA EarsHeard ==
    ASSUME NEW s \in Ears, NEW b \in Nat, NEW h \in Int, NEW r \in Stands
    PROVE  /\ Heard(s, b, h, r) \in Ears
           /\ Heard(s, b, h, r).next = 1 /\ Heard(s, b, h, r).beatIn = b
  <1> DEFINE y == Clocked(s, b)
             z == [y EXCEPT !.good = 0, !.healthy = h]
             x == [z EXCEPT !.raw = r]
  <1>1. y \in Ears /\ y.next = 1 /\ y.beatIn = b
    BY EarsClocked
  <1> HIDE DEF y
  <1>2. z \in Ears /\ z.next = 1 /\ z.beatIn = b
    BY <1>1 DEF Ears
  <1> HIDE DEF z
  <1>3. x \in Ears /\ x.next = 1 /\ x.beatIn = b
    BY <1>2 DEF Ears, Stands
  <1>4. Heard(s, b, h, r) = x
    BY Zenon DEF Heard, Clocked, x, y, z
  <1> HIDE DEF x
  <1>5. QED
    BY <1>3, <1>4

\* What a pass of e changes: its own Sonar's clocks, standing and errands.
LEMMA PassFacts ==
    ASSUME Shapes, NEW e \in Engines, Pass(e)
    PROVE  /\ sonar' \in [Engines -> Ears] /\ seen' \in [Engines -> Stands] /\ pass' \in [Engines -> Loop]
           /\ \A p \in Engines : p # e => sonar'[p] = sonar[p] /\ seen'[p] = seen[p] /\ pass'[p] = pass[p]
           /\ sonar'[e].next = 1
           /\ sonar'[e].beatIn = IF sonar[e].beatIn > 0 THEN sonar[e].beatIn ELSE Beat
           /\ IF e \in cut
              THEN pass'[e].dead = pass[e].dead /\ seen' = seen /\ pass'[e].at = Rest(e)
              ELSE /\ seen'[e] = Published(e, Standing(Beaten(e), e))
                   /\ pass'[e].at \in {Rest(e), "mend"} /\ pass'[e].dead \subseteq Dead(row, e)
  <1> DEFINE beatIn == IF sonar[e].beatIn > 0 THEN sonar[e].beatIn ELSE Beat
             raw == Standing(Beaten(e), e)
             healthy == IF Blind(e) \/ sonar[e].healthy < 0 THEN 0 ELSE sonar[e].healthy
  <1>1. sonar \in [Engines -> Ears] /\ seen \in [Engines -> Stands] /\ pass \in [Engines -> Loop]
    BY DEF Shapes, Ears, Stands, Loop
  <1>2. beatIn \in Nat /\ healthy \in Int /\ raw \in Stands
    BY <1>1, StandingShape, WindowsAssumption DEF Shapes, Ears, Stands
  <1>3. Published(e, raw) \in Stands
    BY <1>2, PublishedShape DEF Stands
  <1>4. Found(e, healthy) \in Loop /\ Found(e, healthy).at \in {Rest(e), "mend"}
        /\ Found(e, healthy).dead \subseteq Dead(row, e)
    <2>1. Dead(row, e) \in SUBSET Engines
      BY DEF Dead
    <2>2. QED
      BY <2>1 DEF Found, Rest, Loop
  <1>5. CASE /\ e \in cut
             /\ sonar' = [sonar EXCEPT ![e] = [@ EXCEPT !.next = 1, !.beatIn = beatIn]]
             /\ pass' = [pass EXCEPT ![e].at = Rest(e)] /\ seen' = seen
    <2> HIDE DEF beatIn
    <2>1. /\ sonar' \in [Engines -> Ears] /\ sonar'[e].next = 1 /\ sonar'[e].beatIn = beatIn
          /\ \A p \in Engines : p # e => sonar'[p] = sonar[p]
      <3> DEFINE x == [sonar[e] EXCEPT !.next = 1, !.beatIn = beatIn]
      <3>1. x \in Ears /\ x.next = 1 /\ x.beatIn = beatIn
        <4>1. sonar[e] \in Ears
          BY <1>1
        <4>2. x = Clocked(sonar[e], beatIn)
          BY Zenon DEF Clocked
        <4> HIDE DEF Ears, x
        <4>3. QED
          BY <1>2, <4>1, <4>2, EarsClocked
      <3>2. sonar' = [sonar EXCEPT ![e] = x]
        BY <1>5
      <3> HIDE DEF x
      <3>3. QED
        BY <1>1, <3>1, <3>2
    <2>2. pass' \in [Engines -> Loop] /\ pass'[e].dead = pass[e].dead /\ pass'[e].at = Rest(e)
          /\ \A p \in Engines : p # e => pass'[p] = pass[p]
      BY <1>1, <1>5 DEF Loop, Rest
    <2>3. QED
      BY <1>1, <1>5, <2>1, <2>2 DEF beatIn
  <1>6. CASE /\ e \notin cut
             /\ sonar' = [sonar EXCEPT ![e] = [@ EXCEPT !.next = 1, !.beatIn = beatIn,
                                                     !.good = 0, !.healthy = healthy, !.raw = raw]]
             /\ pass' = [pass EXCEPT ![e] = Found(e, healthy)]
             /\ seen' = [seen EXCEPT ![e] = Published(e, raw)]
    <2> HIDE DEF beatIn, healthy, raw
    <2>1. /\ sonar' \in [Engines -> Ears] /\ sonar'[e].next = 1 /\ sonar'[e].beatIn = beatIn
          /\ \A p \in Engines : p # e => sonar'[p] = sonar[p]
      <3> DEFINE x == [sonar[e] EXCEPT !.next = 1, !.beatIn = beatIn, !.good = 0,
                                                !.healthy = healthy, !.raw = raw]
      <3>1. x \in Ears /\ x.next = 1 /\ x.beatIn = beatIn
        <4>1. sonar[e] \in Ears
          BY <1>1
        <4>2. x = Heard(sonar[e], beatIn, healthy, raw)
          BY Zenon DEF Heard
        <4> HIDE DEF Ears, Stands, x
        <4>3. QED
          BY <1>2, <4>1, <4>2, EarsHeard
      <3>2. sonar' = [sonar EXCEPT ![e] = x]
        BY <1>6
      <3> HIDE DEF x
      <3>3. QED
        BY <1>1, <3>1, <3>2
    <2>2. pass' \in [Engines -> Loop] /\ pass'[e] = Found(e, healthy)
          /\ \A p \in Engines : p # e => pass'[p] = pass[p]
      BY <1>1, <1>4, <1>6
    <2>3. seen' \in [Engines -> Stands] /\ seen'[e] = Published(e, raw)
          /\ \A p \in Engines : p # e => seen'[p] = seen[p]
      BY <1>1, <1>3, <1>6
    <2>4. QED
      BY <1>4, <1>6, <2>1, <2>2, <2>3 DEF beatIn, raw
  <1>7. QED
    BY <1>5, <1>6 DEF Pass

\* What a scan that goes by does to the clocks.
LEMMA TickFacts ==
    ASSUME Shapes, Tick
    PROVE  /\ sonar' \in [Engines -> Ears]
           /\ \A e \in Engines :
                IF Alive(e) THEN /\ sonar'[e].next = sonar[e].next - 1
                                 /\ sonar'[e].beatIn = IF sonar[e].beatIn > 0 THEN sonar[e].beatIn - 1 ELSE 0
                ELSE sonar'[e] = sonar[e]
           /\ \A e \in Engines : row[e] # NoRow =>
                row'[e] # NoRow /\ row'[e].working = row[e].working /\ row'[e].seen <= row[e].seen + 1
           /\ \A e \in Engines : row[e] = NoRow => row'[e] = NoRow
           /\ late' \in [Engines -> Nat] /\ age' \in [Engines -> Nat]
           /\ \A e \in Engines :
                /\ late'[e] = IF Owing(e) THEN late[e] + 1 ELSE 0
                /\ age'[e] <= age[e] + 1
                /\ IF Alive(e) THEN age'[e] = age[e] + 1 \/ age'[e] = Settling ELSE age'[e] = 0
  <1>1. \A a \in Int : Max({0, a}) = IF a > 0 THEN a ELSE 0
    BY DEF Max
  <1>2. \A a \in Int : Min({PruneAfter, a}) \in Int
    BY WindowsAssumption DEF Min
  <1>3. ASSUME NEW e \in Engines, Alive(e)
        PROVE  /\ sonar'[e] \in Ears /\ sonar'[e].next = sonar[e].next - 1
               /\ sonar'[e].beatIn = IF sonar[e].beatIn > 0 THEN sonar[e].beatIn - 1 ELSE 0
    <2> DEFINE n == sonar[e].next - 1
               b == Max({0, sonar[e].beatIn - 1})
               g == Older(sonar[e].good, 2)
               h == IF sonar[e].healthy < 0 THEN sonar[e].healthy
                    ELSE Min({PruneAfter, sonar[e].healthy + 1})
    <2>1. sonar[e] \in Ears
      BY DEF Shapes, Ears
    <2>2. n \in Int /\ b = (IF sonar[e].beatIn > 0 THEN sonar[e].beatIn - 1 ELSE 0) /\ b \in Nat
          /\ g \in Nat /\ h \in Int
      BY <1>1, <1>2, <2>1 DEF Older, Ears
    <2>3. sonar'[e] = [sonar[e] EXCEPT !.next = n, !.beatIn = b, !.good = g, !.healthy = h]
      BY <1>3, Zenon DEF Tick
    <2> HIDE DEF n, b, g, h
    <2>4. sonar'[e] \in Ears /\ sonar'[e].next = n /\ sonar'[e].beatIn = b
      BY <2>1, <2>2, <2>3 DEF Ears
    <2>5. QED
      BY <2>2, <2>4 DEF n
  <1> DEFINE Aged(c) == [c EXCEPT !.next = @ - 1, !.beatIn = Max({0, @ - 1}), !.good = Older(@, 2),
                                  !.healthy = IF @ < 0 THEN @ ELSE Min({PruneAfter, @ + 1})]
             AgedRow(r) == [r EXCEPT !.seen = Older(@, Straggler)]
  <1>4. /\ sonar' = [e \in Engines |-> IF ~Alive(e) THEN sonar[e] ELSE Aged(sonar[e])]
        /\ row' = [e \in Engines |-> IF row[e] = NoRow THEN NoRow ELSE AgedRow(row[e])]
    BY Zenon DEF Tick
  <1> HIDE DEF Aged, AgedRow
  <1>5. /\ sonar' \in [Engines -> Ears]
        /\ \A e \in Engines : ~Alive(e) => sonar'[e] = sonar[e]
    <2>1. sonar \in [Engines -> Ears]
      BY DEF Shapes, Ears
    <2>2. QED
      BY <1>3, <1>4, <2>1
  <1>6. ASSUME NEW e \in Engines, row[e] # NoRow
        PROVE  row'[e] # NoRow /\ row'[e].working = row[e].working /\ row'[e].seen <= row[e].seen + 1
    <2>1. row[e] \in Row
      BY <1>6 DEF Shapes, RowsShape
    <2> DEFINE a == Older(row[e].seen, Straggler)
    <2>2. a \in Int /\ a <= row[e].seen + 1
      BY <2>1 DEF Older, Row
    <2>3. row'[e] = [row[e] EXCEPT !.seen = a]
      BY <1>6, Zenon DEF Tick
    <2> HIDE DEF a
    <2>4. row'[e] \in Row /\ row'[e].seen = a /\ row'[e].working = row[e].working
      BY <2>1, <2>2, <2>3 DEF Row
    <2>5. QED
      BY <2>2, <2>4, NoRowIsNoRow
  <1>7. ASSUME NEW e \in Engines, row[e] = NoRow PROVE row'[e] = NoRow
    BY <1>4, <1>7
  <1>9. /\ late' \in [Engines -> Nat]
        /\ \A e \in Engines : late'[e] = IF Owing(e) THEN late[e] + 1 ELSE 0
    <2>1. late' = [e \in Engines |-> IF Owing(e) THEN late[e] + 1 ELSE 0]
      BY Zenon DEF Tick
    <2>2. QED
      BY <2>1 DEF Shapes
  <1>10. /\ age' \in [Engines -> Nat]
         /\ \A e \in Engines :
              /\ age'[e] <= age[e] + 1
              /\ IF Alive(e) THEN age'[e] = age[e] + 1 \/ age'[e] = Settling ELSE age'[e] = 0
    <2>1. age' = [e \in Engines |-> IF Alive(e) THEN Min({Settling, age[e] + 1}) ELSE 0]
      BY Zenon DEF Tick
    <2>2. Settling \in Nat
      BY WindowsAssumption DEF Settling
    <2>3. \A a, b \in Nat : Min({a, b}) \in {a, b} /\ Min({a, b}) <= b
      BY DEF Min
    <2>4. ASSUME NEW e \in Engines
          PROVE  /\ Min({Settling, age[e] + 1}) \in {Settling, age[e] + 1}
                 /\ Min({Settling, age[e] + 1}) <= age[e] + 1 /\ age[e] \in Nat
      <3>1. age[e] \in Nat /\ age[e] + 1 \in Nat
        BY DEF Shapes
      <3>2. QED
        BY <2>2, <2>3, <3>1
    <2> DEFINE m(e) == Min({Settling, age[e] + 1})
    <2>5. age' = [e \in Engines |-> IF Alive(e) THEN m(e) ELSE 0]
      BY <2>1
    <2>6. \A e \in Engines : m(e) \in {Settling, age[e] + 1} /\ m(e) <= age[e] + 1 /\ age[e] \in Nat
      BY <2>4
    <2> HIDE DEF m
    <2>7. QED
      BY <2>2, <2>5, <2>6
  <1>8. QED
    BY <1>3, <1>5, <1>6, <1>7, <1>9, <1>10

\* What a mend of a leaves: its own row as of now, no row of those it prunes.
LEMMA MendFacts ==
    ASSUME Shapes, NEW a \in Engines, Mend(a)
    PROVE  /\ Alive(a) /\ pass[a].at = "mend" /\ pass' \in [Engines -> Loop]
           /\ \A p \in Engines : p # a => pass'[p] = pass[p]
           /\ pass'[a].at = Rest(a) /\ pass'[a].dead = {}
           /\ \A p \in Engines :
                \/ row'[p] = row[p]
                \/ row'[p] = NoRow /\ p \in pass[a].dead /\ a \notin cut
                \/ row'[p] = Registered(a) /\ p = a
  <1>1. pass \in [Engines -> Loop]
    BY DEF Shapes, Loop
  <1>2. [at |-> Rest(a), repair |-> FALSE, dead |-> {}] \in Loop
    BY DEF Rest, Loop
  <1>3. QED
    BY <1>1, <1>2 DEF Mend

\* Every step keeps the shapes.
LEMMA ShapesKept ==
    ASSUME Shapes, [Next]_vars
    PROVE  Shapes'
  <1>1. RowsShape'
    BY NextKeeps DEF Shapes
  <1>2. CASE UNCHANGED vars
    BY <1>2 DEF vars, Shapes, RowsShape
  <1>3. CASE Outage \/ Recover
    BY <1>1, <1>3 DEF Outage, Recover, Shapes
  <1>4. CASE Tick
    BY <1>1, <1>4, TickFacts DEF Tick, Shapes, Ears
  <1>5. ASSUME NEW a \in Engines, Pass(a) \/ Mend(a) PROVE Shapes'
    <2>1. CASE Pass(a)
      BY <1>1, <2>1, PassFacts DEF Pass, Shapes, Ears, Stands, Loop
    <2>2. CASE Mend(a)
      BY <1>1, <2>2, MendFacts DEF Mend, Shapes, Loop
    <2>3. QED
      BY <1>5, <2>1, <2>2
  <1>6. ASSUME NEW a \in Engines, Startup(a) \/ SizePools(a) \/ Reconcile(a) \/ ClosePools(a)
        PROVE  Shapes'
    <2>1. SlotsOn(a) \in Nat
      BY SlotsOnShape
    <2>2. CASE Startup(a)
      BY <1>1, <2>2, FreshSonarShape DEF Startup, Shapes, Ears
    <2>3. CASE SizePools(a)
      BY <1>1, <2>1, <2>3 DEF SizePools, Shapes
    <2>4. CASE Reconcile(a)
      BY <1>1, <2>1, <2>4 DEF Reconcile, Shapes
    <2>5. CASE ClosePools(a)
      BY <1>1, <2>5 DEF ClosePools, Shapes
    <2>6. QED
      BY <1>6, <2>2, <2>3, <2>4, <2>5
  <1>7. ASSUME NEW a \in Engines, Shutdown(a) \/ Withdraw(a) \/ Leave(a) \/ Crash(a) PROVE Shapes'
    <2>1. CASE Shutdown(a)
      BY <1>1, <2>1 DEF Shutdown, Shapes
    <2>0. CASE Withdraw(a)
      BY <1>1, <2>0 DEF Withdraw, Shapes
    <2>2. CASE Leave(a) \/ Crash(a)
      <3>1. AtRest \in Loop /\ FreshSonar \in Ears /\ FreshSeen \in Stands /\ 0 \in Nat
        BY FreshSonarShape DEF AtRest, Loop, Stands
      <3> HIDE DEF Loop, Ears, Stands
      <3>2. Forget(a)
        BY <2>2 DEF Leave, Crash
      <3>3. pass \in [Engines -> Loop] /\ sonar \in [Engines -> Ears]
            /\ seen \in [Engines -> Stands] /\ slots \in [Engines -> Nat]
            /\ late \in [Engines -> Nat] /\ age \in [Engines -> Nat]
        BY DEF Shapes, Loop, Ears, Stands
      <3>4. pass' \in [Engines -> Loop] /\ sonar' \in [Engines -> Ears]
            /\ seen' \in [Engines -> Stands]
            /\ late' \in [Engines -> Nat] /\ age' \in [Engines -> Nat]
        BY <3>1, <3>2, <3>3 DEF Forget
      <3>7. slots' \in [Engines -> Nat]
        BY <2>2, <3>3 DEF Leave, Crash
      <3>5. phase' \in [Engines -> {Down, Joining, Up, Draining, Withdrawn, Gone, Crashed}]
            /\ pace' = pace /\ outages' = outages
        BY <2>2 DEF Leave, Crash, Shapes
      <3>6. QED
        BY <1>1, <3>4, <3>5, <3>7 DEF Shapes, Loop, Ears, Stands
    <2>3. QED
      BY <1>7, <2>1, <2>2, <2>0
  <1>8. QED
    BY <1>2, <1>3, <1>4, <1>5, <1>6, <1>7 DEF Next, Loops

\* No step but its own touches a process that has not started.
LEMMA UnbornKept ==
    ASSUME Shapes, Unborn, [Next]_vars
    PROVE  Unborn'
  <1> SUFFICES ASSUME NEW e \in Engines, phase'[e] = Down
               PROVE  row'[e] = NoRow /\ pass'[e].at = "sleep" /\ Spared(e)' /\ age'[e] = 0
    BY DEF Unborn
  <1>1. CASE UNCHANGED <<row, phase, pass, age>>
    BY <1>1 DEF Unborn, Spared
  <1>2. CASE Tick
    BY <1>2, TickFacts DEF Tick, Unborn, Spared, Alive
  <1>3. ASSUME NEW a \in Engines, Pass(a) \/ Mend(a)
        PROVE  row'[e] = NoRow /\ pass'[e].at = "sleep" /\ Spared(e)' /\ age'[e] = 0
    <2>1. phase'[e] = phase[e] /\ a # e /\ age' = age
      BY <1>3 DEF Pass, Mend, Alive
    <2>2. row[e] = NoRow /\ pass[e].at = "sleep" /\ Spared(e) /\ age[e] = 0
      BY <2>1 DEF Unborn
    <2>3. CASE Pass(a)
      <3>1. row'[e] = row[e]
        BY <2>1, <2>3 DEF Pass, Beaten, Shapes, RowsShape
      <3>2. e \notin Dead(row, a)
        BY <2>2 DEF Dead
      <3>3. QED
        BY <2>1, <2>2, <2>3, <3>1, <3>2, PassFacts DEF Spared
    <2>4. CASE Mend(a)
      BY <2>1, <2>2, <2>4, MendFacts DEF Spared
    <2>5. QED
      BY <1>3, <2>3, <2>4
  <1>4. ASSUME NEW a \in Engines,
               \/ Startup(a) \/ SizePools(a) \/ Reconcile(a)
               \/ Shutdown(a) \/ Withdraw(a) \/ Leave(a) \/ ClosePools(a) \/ Crash(a)
        PROVE  row'[e] = NoRow /\ pass'[e].at = "sleep" /\ Spared(e)' /\ age'[e] = 0
    <2>1. CASE Reconcile(a) \/ ClosePools(a)
      BY <1>1, <2>1 DEF Reconcile, ClosePools
    <2>2. CASE Startup(a) \/ SizePools(a) \/ Shutdown(a) \/ Withdraw(a) \/ Leave(a) \/ Crash(a)
      <3>1. a # e /\ phase[e] = Down
        BY <2>2 DEF Startup, SizePools, Shutdown, Withdraw, Leave, Crash, Shapes
      <3>2. row'[e] = row[e] /\ pass'[e] = pass[e] /\ age'[e] = age[e]
            /\ \A p \in Engines : pass'[p].dead \subseteq pass[p].dead
        <4>1. CASE Startup(a)
          BY <3>1, <4>1 DEF Startup, Shapes, RowsShape
        <4>2. CASE SizePools(a)
          BY <3>1, <4>2 DEF SizePools, Shapes, RowsShape
        <4>3. CASE Shutdown(a)
          BY <3>1, <4>3 DEF Shutdown, Shapes, RowsShape
        <4>4. CASE Withdraw(a)
          BY <3>1, <4>4 DEF Withdraw, Shapes, RowsShape
        <4>5. CASE Leave(a) \/ Crash(a)
          <5>1. pass' = [pass EXCEPT ![a] = AtRest]
            BY <4>5 DEF Leave, Crash, Forget
          <5>2. row'[e] = row[e] /\ age'[e] = age[e]
            BY <3>1, <4>5 DEF Leave, Crash, Forget, Shapes, RowsShape
          <5>3. QED
            BY <3>1, <5>1, <5>2 DEF AtRest, Shapes
        <4>6. QED
          BY <2>2, <4>1, <4>2, <4>3, <4>4, <4>5
      <3>3. QED
        BY <3>1, <3>2 DEF Unborn, Spared
    <2>3. QED
      BY <1>4, <2>1, <2>2
  <1>5. QED
    BY <1>1, <1>2, <1>3, <1>4 DEF Next, Loops, Outage, Recover, vars

\* No step lets a timer run for longer than it may.
LEMMA TimersKept ==
    ASSUME Shapes, Timers, [Next]_vars
    PROVE  Timers'
  <1> SUFFICES ASSUME NEW e \in Engines
               PROVE  /\ phase'[e] \in {Down, Joining, Up} => late'[e] <= MaxLag
                      /\ phase'[e] = Draining => late'[e] <= MaxLag + 1
    BY DEF Timers
  <1>0. MaxLag \in Nat /\ late[e] \in Nat
    BY WindowsAssumption DEF Shapes
  <1>1. CASE UNCHANGED <<phase, late>>
    BY <1>1 DEF Timers
  <1>2. CASE Tick
    <2>1. phase' = phase /\ ~Busy(e)
      BY <1>2 DEF Tick
    <2>2. late'[e] = IF Owing(e) THEN late[e] + 1 ELSE 0
      BY <1>2, TickFacts
    <2>3. QED
      BY <1>0, <2>1, <2>2 DEF Busy, Owing
  <1>3. ASSUME NEW a \in Engines,
               \/ Startup(a) \/ Loops(a)
               \/ Shutdown(a) \/ Leave(a) \/ ClosePools(a) \/ Crash(a)
        PROVE  /\ phase'[e] \in {Down, Joining, Up} => late'[e] <= MaxLag
               /\ phase'[e] = Draining => late'[e] <= MaxLag + 1
    <2>1. CASE Pass(a) \/ Mend(a) \/ ClosePools(a)
      BY <1>1, <2>1 DEF Pass, Mend, ClosePools
    <2>2. CASE Startup(a) \/ SizePools(a) \/ Withdraw(a)
      BY <2>2 DEF Startup, SizePools, Withdraw, Timers, Shapes
    <2>3. CASE Reconcile(a) \/ Shutdown(a)
      <3>1. late' = [late EXCEPT ![a] = 0] /\ (e # a => phase'[e] = phase[e])
        BY <2>3 DEF Reconcile, Shutdown, Shapes
      <3>2. late'[e] = IF e = a THEN 0 ELSE late[e]
        BY <3>1 DEF Shapes
      <3>3. QED
        BY <1>0, <3>1, <3>2 DEF Timers
    <2>4. CASE Leave(a) \/ Crash(a)
      BY <1>0, <2>4 DEF Leave, Crash, Forget, Timers, Shapes
    <2>5. QED
      BY <1>3, <2>1, <2>2, <2>3, <2>4 DEF Loops
  <1>4. QED
    BY <1>1, <1>2, <1>3 DEF Next, Outage, Recover, vars

\* What holds of a fleet whose registry answers.
Answered == RowsAreFresh /\ ReadingsCount /\ SlotsFit

\* What a number of slots taken from a reading rests on.
LEMMA SlotsOnFit ==
    ASSUME Shapes, NEW e \in Engines, NEW W \in SUBSET Engines, SlotsOn(e) > 0
    PROVE  e \notin NoWorkers /\ (Counts(e, seen[e], W) => Fit(e, SlotsOn(e), W))
  <1>1. seen[e] \in [rank : Nat, candidates : Nat]
    BY DEF Shapes
  <1>2. e \notin NoWorkers
    BY DEF SlotsOn
  <1>3. DispatcherSlots(seen[e].candidates) \in Nat
    BY <1>1, SlotsOfCandidates
  <1>4. SlotsOn(e) = DispatcherSlots(seen[e].candidates) /\ seen[e].rank < SlotsOn(e)
    BY <1>1, <1>2, <1>3 DEF SlotsOn
  <1>5. QED
    BY <1>1, <1>2, <1>4 DEF Fit

\* Who was known by a smaller age is known by a greater one no more, and whoever
\* is known is an engine.
LEMMA KnownLess ==
    ASSUME Shapes, NEW c \in Int, NEW d \in Int, c <= d
    PROVE  Known(d) \subseteq Known(c) /\ Known(c) \in SUBSET Engines
  BY DEF Known, Shapes

\* A step of one engine that adds no member to those that are known, and spares
\* the rows of the other members, can only go wrong at home.
LEMMA OthersKeep ==
    ASSUME Shapes, Shapes', Answered, NEW a \in Engines, pace' = pace,
           \A e \in Engines \ {a} :
              /\ phase'[e] = phase[e] /\ pass'[e] = pass[e] /\ sonar'[e] = sonar[e]
              /\ seen'[e] = seen[e] /\ slots'[e] = slots[e]
              /\ late'[e] = late[e] /\ age'[e] = age[e]
              /\ Member(e) => row'[e] = row[e],
           \A e \in Engines \ {a} : Member(e) => e \notin pass'[a].dead,
           Member(a)' => FreshRow(a)' /\ Spared(a)',
           Member(a)' => age'[a] = 0 \/ (Member(a) /\ age'[a] = age[a]),
           Member(a)' /\ HasRead(a)' => Reading(a)',
           a \in Counted' /\ slots'[a] > 0 =>
              a \notin NoWorkers /\ (KeepsFresh(a) => Fit(a, slots'[a], Known(Lag(a))' \cup {a}))
    PROVE  Answered'
  <1>1. /\ \A e \in Engines \ {a} : Member(e)' = Member(e) /\ HasRead(e)' = HasRead(e)
        /\ \A e \in Engines : KeepsFresh(e)' = KeepsFresh(e)
    BY DEF Member, HasRead, KeepsFresh
  <1>2. RowsAreFresh'
    <2> SUFFICES ASSUME NEW e \in Engines, Member(e)' PROVE FreshRow(e)' /\ Spared(e)'
      BY DEF RowsAreFresh
    <2>1. CASE e = a
      BY <2>1
    <2>2. CASE e # a
      <3>1. Member(e) /\ FreshRow(e) /\ Spared(e)
        BY <1>1, <2>2 DEF Answered, RowsAreFresh
      <3>2. FreshRow(e)'
        BY <1>1, <2>2, <3>1 DEF FreshRow
      <3>3. Spared(e)'
        BY <2>2, <3>1 DEF Spared
      <3>4. QED
        BY <3>2, <3>3
    <2>3. QED
      BY <2>1, <2>2
  <1>3. ASSUME NEW d \in Nat PROVE Known(d)' \subseteq Known(d) /\ Known(d) \in SUBSET Engines
    BY <1>1 DEF Known
  <1>4. ReadingsCount'
    <2> SUFFICES ASSUME NEW e \in Engines, Member(e)', HasRead(e)' PROVE Reading(e)'
      BY DEF ReadingsCount
    <2>1. CASE e = a
      BY <2>1
    <2>2. CASE e # a
      <3>1. Reading(e) /\ seen'[e] = seen[e] /\ sonar'[e] = sonar[e]
            /\ seen[e] \in [rank : Nat, candidates : Nat]
        BY <1>1, <2>2 DEF Answered, ReadingsCount, Shapes
      <3>2. PICK d \in Nat : d = 1 - sonar[e].next
        <4>1. FreshRow(e) /\ sonar[e].next \in Int
          BY <1>1, <2>2 DEF Answered, RowsAreFresh, Shapes
        <4>2. QED
          BY <1>1, <2>2, <4>1 DEF FreshRow
      <3>3. Known(d)' \cup {e} \in SUBSET (Known(d) \cup {e}) /\ Known(d) \cup {e} \in SUBSET Engines
        BY <1>3, <3>2
      <3>4. Counts(e, seen[e], Known(d) \cup {e})
        BY <3>1, <3>2 DEF Reading
      <3>5. Counts(e, seen[e], Known(d)' \cup {e})
        BY <3>1, <3>3, <3>4, CountsLess
      <3>6. Known(1 - sonar[e].next)' = Known(d)'
        BY <3>1, <3>2 DEF Known
      <3>7. QED
        BY <3>1, <3>5, <3>6 DEF Reading, Counts
    <2>3. QED
      BY <2>1, <2>2
  <1>5. SlotsFit'
    <2> SUFFICES ASSUME NEW e \in Engines, e \in Counted', slots'[e] > 0
                 PROVE  /\ e \notin NoWorkers
                        /\ KeepsFresh(e) => Fit(e, slots'[e], Known(Lag(e))' \cup {e})
      BY <1>1 DEF SlotsFit, Counted
    <2>1. CASE e = a
      BY <2>1
    <2>2. CASE e # a
      <3>1. /\ e \notin NoWorkers /\ slots'[e] = slots[e]
            /\ KeepsFresh(e) => Fit(e, slots[e], Known(Lag(e)) \cup {e})
        BY <2>2 DEF Answered, SlotsFit, Counted
      <3>2. Lag(e)' = Lag(e) /\ Lag(e) \in Nat
        BY <2>2, WindowsAssumption DEF Lag, Shapes
      <3>3. Known(Lag(e))' \cup {e} \in SUBSET (Known(Lag(e)) \cup {e})
            /\ Known(Lag(e)) \cup {e} \in SUBSET Engines
        <4>1. PICK l \in Nat : l = Lag(e)
          BY <3>2
        <4>2. Known(Lag(e))' = Known(l)' /\ Known(Lag(e)) = Known(l)
          BY <3>2, <4>1 DEF Known
        <4>3. QED
          BY <1>3, <4>1, <4>2
      <3>4. QED
        BY <3>1, <3>3, FitLess
    <2>3. QED
      BY <2>1, <2>2
  <1>6. QED
    BY <1>2, <1>4, <1>5 DEF Answered

\* Who gives up its slot, or dies, is a member no more.
LEMMA LeaversKeep ==
    ASSUME Shapes, Shapes', Answered, NEW a \in Engines,
           Withdraw(a) \/ Leave(a) \/ ClosePools(a) \/ Crash(a)
    PROVE  Answered'
  <1>1. /\ phase'[a] \in {Withdrawn, Gone, Crashed} /\ pace' = pace
        /\ \A e \in Engines \ {a} : phase'[e] = phase[e]
    BY DEF Withdraw, Leave, ClosePools, Crash, Shapes
  <1>2. \A e \in Engines \ {a} : row'[e] = row[e]
    BY DEF Withdraw, Leave, ClosePools, Crash, Shapes, RowsShape
  <1>3. /\ \A e \in Engines \ {a} : pass'[e] = pass[e] /\ sonar'[e] = sonar[e]
                                    /\ seen'[e] = seen[e] /\ slots'[e] = slots[e]
                                    /\ late'[e] = late[e] /\ age'[e] = age[e]
        /\ pass'[a].dead \subseteq pass[a].dead
    <2>1. CASE Withdraw(a) \/ ClosePools(a)
      BY <2>1 DEF Withdraw, ClosePools, Shapes
    <2>2. CASE Leave(a) \/ Crash(a)
      <3>1. Forget(a)
        BY <2>2 DEF Leave, Crash
      <3>2. AtRest.dead = {}
        BY DEF AtRest
      <3>3. \A e \in Engines \ {a} : slots'[e] = slots[e]
        BY <2>2 DEF Leave, Crash, Shapes
      <3>4. QED
        BY <3>1, <3>2, <3>3 DEF Forget, Shapes
    <2>3. QED
      BY <2>1, <2>2
  <1>4. ~Member(a)' /\ a \notin Counted'
    BY <1>1 DEF Member, Counted
  <1>5. \A e \in Engines \ {a} : Member(e) => e \notin pass'[a].dead
    BY <1>3 DEF Answered, RowsAreFresh, Spared
  <1>6. QED
    BY <1>1, <1>2, <1>3, <1>4, <1>5, OthersKeep

\* Who starts to drain keeps its pool as it is, and its row claims the slot on.
LEMMA ShutdownKeeps ==
    ASSUME Shapes, Shapes', Timers, Answered, NEW a \in Engines, Shutdown(a)
    PROVE  Answered'
  <1>1. /\ row' = row /\ pass' = pass /\ sonar' = sonar /\ seen' = seen /\ slots' = slots
        /\ age' = age /\ pace' = pace
        /\ phase[a] = Up /\ phase'[a] = Draining /\ late'[a] = 0
        /\ \A e \in Engines \ {a} : phase'[e] = phase[e] /\ late'[e] = late[e]
    BY DEF Shutdown, Shapes
  <1>2. \A e \in Engines : Member(e)' = Member(e) /\ HasRead(e)' = HasRead(e)
    BY <1>1 DEF Member, HasRead, KeepsFresh
  <1>3. \A d : Known(d)' = Known(d)
    BY <1>1, <1>2 DEF Known
  <1>4. Member(a) => FreshRow(a)' /\ Spared(a)'
    BY <1>1, <1>2 DEF Answered, RowsAreFresh, FreshRow, Spared
  <1>5. Member(a) => Reading(a)'
    <2>1. Member(a) => Reading(a)
      BY <1>1 DEF Answered, ReadingsCount, HasRead
    <2>2. QED
      BY <1>1, <1>3, <2>1 DEF Reading
  <1>6. slots[a] > 0 => a \notin NoWorkers
                        /\ (KeepsFresh(a) => Fit(a, slots[a], Known(Lag(a))' \cup {a}))
    <2> SUFFICES ASSUME slots[a] > 0
                 PROVE  a \notin NoWorkers
                        /\ (KeepsFresh(a) => Fit(a, slots[a], Known(Lag(a))' \cup {a}))
      OBVIOUS
    <2>1. a \notin NoWorkers /\ (KeepsFresh(a) => Fit(a, slots[a], Known(Lag(a)) \cup {a}))
      BY <1>1 DEF Answered, SlotsFit, Counted
    <2>2. Lag(a) \in Int /\ Lag(a)' \in Int /\ Lag(a) <= Lag(a)'
      BY <1>1, WindowsAssumption DEF Lag, Timers, Shapes
    <2>3. Known(Lag(a))' \subseteq Known(Lag(a)) /\ Known(Lag(a)) \in SUBSET Engines
      <3>1. Known(Lag(a)') \subseteq Known(Lag(a)) /\ Known(Lag(a)) \in SUBSET Engines
        BY <2>2, KnownLess
      <3>2. QED
        BY <1>1, <1>2, <3>1 DEF Known
    <2>4. Known(Lag(a))' \cup {a} \in SUBSET (Known(Lag(a)) \cup {a})
          /\ Known(Lag(a)) \cup {a} \in SUBSET Engines
      BY <2>3
    <2>5. QED
      BY <2>1, <2>4, FitLess
  <1>7. \A e \in Engines \ {a} : Member(e) => e \notin pass'[a].dead
    BY <1>1 DEF Answered, RowsAreFresh, Spared
  <1>8. QED
    BY <1>1, <1>2, <1>4, <1>5, <1>6, <1>7, OthersKeep

\* Who starts announces itself, and reads two scans later.
LEMMA StartupKeepsBudget ==
    ASSUME Shapes, Shapes', Unborn, cut = {}, Answered, NEW a \in Engines, Startup(a)
    PROVE  Answered'
  <1>1. /\ phase[a] = Down /\ phase'[a] = Joining /\ pace' = pace /\ pass' = pass /\ seen' = seen
        /\ slots' = slots /\ late' = late /\ age' = age
        /\ \A e \in Engines \ {a} : phase'[e] = phase[e]
    BY DEF Startup, Shapes
  <1>2. sonar'[a] = FreshSonar /\ \A e \in Engines \ {a} : sonar'[e] = sonar[e]
    BY DEF Startup, Shapes
  <1>3. row'[a] = Registered(a) /\ \A e \in Engines \ {a} : row'[e] = row[e]
    BY DEF Startup, Shapes, RowsShape
  <1>4. pass[a].at = "sleep" /\ Spared(a) /\ age[a] = 0
    BY <1>1 DEF Unborn
  <1>5. ~HasRead(a)' /\ a \notin Counted'
    BY <1>1, <1>4 DEF HasRead, Counted
  <1>6. Member(a)' => FreshRow(a)'
    <2>1. Registered(a) # NoRow /\ Registered(a).seen = 0 /\ Registered(a).working = Working(a)
      BY RegisteredShape, NoRowIsNoRow DEF Registered
    <2>2. Member(a)' => Working(a)
      BY <1>1 DEF Member, Working
    <2>3. sonar'[a].next = 2 /\ sonar'[a].beatIn = 0
      BY <1>2 DEF FreshSonar
    <2>4. 0 <= Beat /\ 2 >= 1 - pace'[a]
      BY <1>1, WindowsAssumption DEF Shapes
    <2>5. QED
      BY <1>1, <1>3, <1>4, <1>5, <2>1, <2>2, <2>3, <2>4 DEF FreshRow
  <1>7. Spared(a)'
    BY <1>1, <1>4 DEF Spared
  <1>8. \A e \in Engines \ {a} : Member(e) => e \notin pass'[a].dead
    BY <1>1 DEF Answered, RowsAreFresh, Spared
  <1>9. QED
    BY <1>1, <1>2, <1>3, <1>4, <1>5, <1>6, <1>7, <1>8, OthersKeep

\* What a replica applies is the standing it has read.
LEMMA SizingKeeps ==
    ASSUME Shapes, Shapes', Answered, NEW a \in Engines, SizePools(a) \/ Reconcile(a)
    PROVE  Answered'
  <1>1. /\ row' = row /\ sonar' = sonar /\ seen' = seen /\ pace' = pace /\ age' = age
        /\ phase'[a] = Up /\ slots'[a] = SlotsOn(a)
        /\ \A e \in Engines \ {a} : slots'[e] = slots[e] /\ phase'[e] = phase[e] /\ late'[e] = late[e]
    BY DEF SizePools, Reconcile, Shapes
  <1>2. /\ \A e \in Engines \ {a} : pass'[e] = pass[e]
        /\ pass'[a].dead = pass[a].dead
    BY DEF SizePools, Reconcile, Shapes
  <1>3. HasRead(a) /\ HasRead(a)' /\ Member(a)' = Member(a)
    BY <1>1 DEF SizePools, Reconcile, HasRead, Member, KeepsFresh
  <1>4. \A e \in Engines \ {a} : Member(e)' = Member(e) /\ HasRead(e)' = HasRead(e)
    BY <1>1, <1>2 DEF Member, HasRead, KeepsFresh
  <1>5. \A d : Known(d)' = Known(d)
    BY <1>1, <1>3, <1>4 DEF Known
  <1>6. Member(a)' => FreshRow(a)' /\ Spared(a)'
    <2>1. Member(a) => FreshRow(a) /\ Spared(a)
      BY DEF Answered, RowsAreFresh
    <2>2. FreshRow(a) => FreshRow(a)'
      BY <1>1, <1>3 DEF FreshRow
    <2>3. Spared(a) => Spared(a)'
      BY <1>2 DEF Spared
    <2>4. QED
      BY <1>3, <2>1, <2>2, <2>3
  <1>7. Member(a) => Reading(a) /\ Reading(a)'
    <2>1. Member(a) => Reading(a)
      BY <1>3 DEF Answered, ReadingsCount
    <2>2. QED
      BY <1>1, <1>5, <2>1 DEF Reading
  <1>8. slots'[a] > 0 => a \notin NoWorkers
                         /\ (KeepsFresh(a) => Fit(a, slots'[a], Known(Lag(a))' \cup {a}))
    <2> SUFFICES ASSUME slots'[a] > 0
                 PROVE  a \notin NoWorkers
                        /\ (KeepsFresh(a) => Fit(a, slots'[a], Known(Lag(a))' \cup {a}))
      OBVIOUS
    <2>1. a \notin NoWorkers
      BY <1>1 DEF SlotsOn
    <2>2. ASSUME KeepsFresh(a) PROVE Fit(a, slots'[a], Known(Lag(a))' \cup {a})
      <3>1. Member(a)
        BY <1>1, <1>3, <2>1, <2>2 DEF Member, KeepsFresh
      <3>2. FreshRow(a) /\ Counts(a, seen[a], Known(1 - sonar[a].next) \cup {a})
        BY <1>7, <3>1 DEF Answered, RowsAreFresh, Reading
      <3>3. 1 - sonar[a].next \in Int /\ Lag(a)' \in Int /\ 1 - sonar[a].next <= Lag(a)'
        <4>1. Lag(a)' = pace[a] + late'[a] + 0 /\ late'[a] \in Nat /\ pace[a] \in Nat
          BY <1>1 DEF Lag, Shapes
        <4>2. sonar[a].next \in Int /\ sonar[a].next >= 1 - pace[a]
          BY <3>2 DEF Shapes, FreshRow
        <4>3. QED
          BY <4>1, <4>2
      <3>4. Known(Lag(a)') \subseteq Known(1 - sonar[a].next) /\ Known(1 - sonar[a].next) \in SUBSET Engines
        BY <3>3, KnownLess
      <3>5. Known(Lag(a))' = Known(Lag(a)')
        BY <1>1, <1>3, <1>4 DEF Known
      <3>6. Known(Lag(a))' \cup {a} \in SUBSET (Known(1 - sonar[a].next) \cup {a})
            /\ Known(1 - sonar[a].next) \cup {a} \in SUBSET Engines
        BY <3>4, <3>5
      <3>7. Fit(a, SlotsOn(a), Known(1 - sonar[a].next) \cup {a})
        BY <1>1, <3>2, <3>6, SlotsOnFit
      <3>8. QED
        BY <1>1, <3>6, <3>7, FitLess
    <2>3. QED
      BY <2>1, <2>2
  <1>9. \A e \in Engines \ {a} : Member(e) => e \notin pass'[a].dead
    BY <1>2 DEF Answered, RowsAreFresh, Spared
  <1>10. QED
    BY <1>1, <1>2, <1>3, <1>6, <1>7, <1>8, <1>9, OthersKeep

\* A member with a fresh row is no straggler, and is one of those a reading ranks.
LEMMA FreshRowsAreRanked ==
    ASSUME Shapes, NEW e \in Engines, Member(e), FreshRow(e)
    PROVE  row[e].seen <= Fresh /\ row[e].seen \in Int /\ \A p \in Engines : e \notin Dead(row, p)
  <1>1. row[e] \in Row /\ sonar[e].next \in Int /\ sonar[e].beatIn \in Nat /\ pace[e] \in Nat
    BY DEF Shapes, RowsShape, FreshRow
  <1>2. row[e].seen \in Int /\ sonar[e].next >= 1 - pace[e]
    BY <1>1 DEF Row, FreshRow
  <1>3. {Beat, Fresh, Straggler} \subseteq Nat /\ Beat < Fresh /\ Fresh < Straggler
        /\ pace[e] + Beat <= Fresh + 1 /\ pace[e] < Fresh
    BY WindowsAssumption DEF Member, KeepsFresh
  <1>4. row[e].seen <= Fresh
    <2>1. \/ row[e].seen + sonar[e].beatIn <= Beat
          \/ row[e].seen + sonar[e].next <= Beat
          \/ row[e].seen + sonar[e].next <= 2
      BY DEF FreshRow
    <2>2. QED
      BY <1>1, <1>2, <1>3, <2>1
  <1>5. QED
    BY <1>2, <1>3, <1>4 DEF Dead

\* A reading counts every ranked row, and every one that goes before the reader.
LEMMA ReadingCounts ==
    ASSUME NEW rows, NEW e \in Engines, NEW W \in SUBSET Ranked(rows)
    PROVE  Counts(e, Standing(rows, e), W)
  <1> DEFINE R == Ranked(rows)
             A == {p \in R \ {e} : Outranks(p, e)}
             B == {f \in W : Outranks(f, e)}
  <1>1. R \in SUBSET Engines /\ A \in SUBSET Engines /\ W \in SUBSET R /\ B \in SUBSET A
    BY RanksAreOrdered DEF Ranked
  <1>2. Cardinality(W) <= Cardinality(R) /\ Cardinality(B) <= Cardinality(A) /\ Cardinality(R) \in Nat
        /\ Cardinality(W) \in Nat
    <2> HIDE DEF R, A, B
    <2>1. QED
      BY <1>1, SubsetsAreSmaller, EnginesAreFinite
  <1>3. Standing(rows, e).rank = Cardinality(A) /\ Standing(rows, e).candidates >= Cardinality(R)
    <2>1. Cardinality(R) \in Int
      BY <1>2
    <2>2. QED
      BY <2>1 DEF Standing
  <1>4. Standing(rows, e).candidates \in Int
    BY StandingShape
  <1>5. QED
    <2> DEFINE n == Standing(rows, e).candidates
    <2>1. n >= Cardinality(W)
      <3> HIDE DEF R, A, B, n
      <3>1. QED
        BY <1>2, <1>3, <1>4 DEF n
    <2>2. QED
      BY <1>2, <1>3, <2>1 DEF Counts


\* A pass beats when a beat is due, and counts every member there is to count.
LEMMA PassKeepsBudget ==
    ASSUME Shapes, Shapes', cut = {}, Answered, NEW a \in Engines, Pass(a)
    PROVE  Answered'
  <1>1. /\ phase' = phase /\ slots' = slots /\ late' = late /\ age' = age /\ pace' = pace
        /\ row' = Beaten(a) /\ Alive(a) /\ pass[a].at = "sleep" /\ sonar[a].next <= 0
    BY DEF Pass
  <1>2. /\ \A p \in Engines : p # a => sonar'[p] = sonar[p] /\ seen'[p] = seen[p] /\ pass'[p] = pass[p]
        /\ sonar'[a].next = 1
        /\ sonar'[a].beatIn = IF sonar[a].beatIn > 0 THEN sonar[a].beatIn ELSE Beat
        /\ seen'[a] = Published(a, Standing(row', a))
        /\ pass'[a].at \in {Rest(a), "mend"} /\ pass'[a].dead \subseteq Dead(row, a)
    BY <1>1, PassFacts
  <1>3. \A e \in Engines : e # a => row'[e] = row[e]
    BY <1>1 DEF Beaten, Shapes, RowsShape
  <1>4. \A e \in Engines : Member(e)' = Member(e)
    BY <1>1 DEF Member, KeepsFresh
  <1>5. \A d : Known(d)' = Known(d)
    BY <1>1, <1>4 DEF Known
  <1>6. Member(a) => HasRead(a)'
    BY <1>1, <1>2 DEF Member, HasRead, Rest
  <1>8. \A e \in Engines : Member(e) => FreshRow(e) /\ Spared(e) /\ e \notin Dead(row, a)
    BY FreshRowsAreRanked DEF Answered, RowsAreFresh
  <1>9. \A e \in Engines : Member(e) => e \notin pass'[a].dead
    BY <1>2, <1>8
  <1>10. ASSUME Member(a)
         PROVE  FreshRow(a)' /\ row'[a] # NoRow /\ row'[a].working /\ row'[a].seen <= Fresh
    <2>1. FreshRow(a) /\ row[a] \in Row /\ row[a] # NoRow
      BY <1>8, <1>10 DEF FreshRow, Shapes, RowsShape
    <2>2. /\ row[a].seen \in Int /\ sonar[a].beatIn \in Nat /\ Beat \in Nat \ {0}
          /\ Beat < Fresh /\ Fresh \in Nat /\ pace[a] \in Nat \ {0} /\ age[a] \in Nat
          /\ sonar[a].next \in Int
      BY <2>1, WindowsAssumption DEF Row, Shapes
    <2>3. age[a] >= 2
      <3>1. age[a] >= 2 \/ age[a] + sonar[a].next >= 2
        BY <2>1 DEF FreshRow
      <3>2. QED
        BY <1>1, <2>2, <3>1
    <2>4. CASE sonar[a].beatIn > 0
      <3>1. row' = row /\ HasRead(a)
        BY <1>1, <2>1, <2>2, <2>4 DEF Beaten, FreshRow
      <3>2. row[a].seen + sonar[a].beatIn <= Beat
        BY <2>1, <2>4, <3>1 DEF FreshRow
      <3>3. sonar'[a].next = 1 /\ sonar'[a].beatIn = sonar[a].beatIn /\ sonar'[a].beatIn <= Beat
        BY <1>2, <2>1, <2>2, <2>4 DEF FreshRow
      <3>4. FreshRow(a)'
        BY <1>1, <1>6, <1>10, <2>1, <2>2, <2>3, <2>4, <3>1, <3>2, <3>3 DEF FreshRow
      <3>5. QED
        BY <2>1, <2>2, <3>1, <3>2, <3>4 DEF FreshRow
    <2>5. CASE sonar[a].beatIn = 0
      <3>1. row' = [row EXCEPT ![a].seen = 0]
        BY <1>1, <2>1, <2>5 DEF Beaten
      <3>2. row'[a] \in Row /\ row'[a].seen = 0 /\ row'[a].working = row[a].working
        <4>1. row'[a] = [row[a] EXCEPT !.seen = 0]
          BY <3>1 DEF Shapes, RowsShape
        <4>2. QED
          BY <2>1, <4>1 DEF Row
      <3>3. sonar'[a].next = 1 /\ sonar'[a].beatIn = Beat
        BY <1>2, <2>1, <2>5
      <3>4. row'[a] # NoRow /\ row'[a].working
        BY <2>1, <3>2, NoRowIsNoRow DEF FreshRow
      <3>5. FreshRow(a)'
        BY <1>1, <1>6, <1>10, <2>2, <2>3, <3>2, <3>3, <3>4 DEF FreshRow
      <3>6. QED
        BY <2>2, <3>2, <3>4, <3>5
    <2>6. QED
      BY <2>2, <2>4, <2>5
  <1>11. Member(a) => Spared(a)'
    BY <1>2, <1>8, <1>9 DEF Spared
  <1>12. ASSUME Member(a) PROVE Reading(a)'
    <2> DEFINE W == Known(0) \cup {a}
    <2>1. \A e \in W : e \in Engines /\ row'[e] # NoRow /\ row'[e].seen <= Fresh /\ row'[e].working
      <3>1. ASSUME NEW e \in W
            PROVE  e \in Engines /\ row'[e] # NoRow /\ row'[e].seen <= Fresh /\ row'[e].working
        <4>1. e \in Engines /\ Member(e)
          BY <1>12 DEF Known
        <4>2. CASE e = a
          BY <1>10, <4>1, <4>2
        <4>3. CASE e # a
          BY <1>3, <1>8, <4>1, <4>3, FreshRowsAreRanked DEF FreshRow
        <4>4. QED
          BY <4>1, <4>2, <4>3
      <3>2. QED
        BY <3>1
    <2>2. W \in SUBSET Ranked(row') /\ W \in SUBSET Engines
      BY <2>1 DEF Ranked, IsFresh
    <2> HIDE DEF W
    <2>3. Counts(a, Standing(row', a), W)
      BY <2>2, ReadingCounts
    <2>4. Counts(a, seen'[a], W)
      <3>1. Standing(row', a) \in [rank : Nat, candidates : Nat]
        BY StandingShape
      <3>2. /\ seen'[a] \in [rank : Nat, candidates : Nat]
            /\ seen'[a].rank >= Standing(row', a).rank
            /\ seen'[a].candidates >= Standing(row', a).candidates
        BY <1>2, <3>1, PublishedShape
      <3> DEFINE A == {f \in W : Outranks(f, a)}
      <3>3. Cardinality(A) \in Nat /\ Cardinality(W) \in Nat
        <4>1. A \in SUBSET Engines
          BY <2>2
        <4>2. QED
          BY <2>2, <4>1, EnginesAreFinite
      <3>4. QED
        <4> DEFINE x == Standing(row', a)
        <4>1. x.candidates >= Cardinality(W) /\ x.rank >= Cardinality(A)
          BY <2>3 DEF Counts
        <4> HIDE DEF A, x
        <4>2. seen'[a].candidates >= Cardinality(W) /\ seen'[a].rank >= Cardinality(A)
          BY <3>1, <3>2, <3>3, <4>1 DEF x
        <4>3. QED
          BY <4>2 DEF Counts, A
    <2>5. 1 - sonar'[a].next = 0
      BY <1>2
    <2>6. Known(1 - sonar[a].next)' = Known(0)
      BY <1>1, <1>4, <2>5 DEF Known
    <2>7. QED
      BY <2>4, <2>6 DEF W, Reading, Counts
  <1>13. a \in Counted' /\ slots'[a] > 0 =>
           a \notin NoWorkers /\ (KeepsFresh(a) => Fit(a, slots'[a], Known(Lag(a))' \cup {a}))
    <2>1. Lag(a)' = Lag(a) /\ Counted' = Counted
      BY <1>1 DEF Lag, Counted
    <2>2. Known(Lag(a))' = Known(Lag(a))
      BY <1>1, <1>4, <2>1 DEF Known
    <2>3. QED
      BY <1>1, <2>1, <2>2 DEF Answered, SlotsFit
  <1>14. QED
    BY <1>1, <1>2, <1>3, <1>4, <1>9, <1>10, <1>11, <1>12, <1>13, OthersKeep

\* A repair brings back the repairer's own row, and no member is pruned.
LEMMA MendKeepsBudget ==
    ASSUME Shapes, Shapes', Answered, NEW a \in Engines, Mend(a)
    PROVE  Answered'
  <1>1. /\ phase' = phase /\ slots' = slots /\ pace' = pace /\ sonar' = sonar /\ seen' = seen
        /\ late' = late /\ age' = age
        /\ \A p \in Engines : p # a => pass'[p] = pass[p]
        /\ pass[a].at = "mend" /\ pass'[a].at = Rest(a) /\ pass'[a].dead = {}
    BY MendFacts DEF Mend
  <1>2. \A e \in Engines : Member(e)' = Member(e) /\ HasRead(e)' = HasRead(e)
    BY <1>1 DEF Member, HasRead, Rest, KeepsFresh
  <1>3. \A d : Known(d)' = Known(d)
    BY <1>1, <1>2 DEF Known
  <1>4. \A e \in Engines : Member(e) => FreshRow(e) /\ Spared(e)
    BY DEF Answered, RowsAreFresh
  <1>5. \A e \in Engines : Member(e) => row'[e] = row[e] \/ (row'[e] = Registered(a) /\ e = a)
    BY <1>4, MendFacts DEF Spared
  <1>6. Member(a) => FreshRow(a)' /\ Spared(a)'
    <2>1. CASE row'[a] = row[a]
      BY <1>1, <1>2, <1>4, <2>1 DEF FreshRow, Spared
    <2>2. CASE Member(a) /\ row'[a] = Registered(a)
      <3>1. Registered(a) # NoRow /\ Registered(a).seen = 0 /\ Registered(a).working
        BY <2>2, RegisteredShape, NoRowIsNoRow DEF Registered, Working, Member
      <3>2. FreshRow(a) /\ Spared(a) /\ HasRead(a)
        BY <1>1, <1>4, <2>2 DEF Member, HasRead
      <3>3. sonar[a].beatIn \in Nat /\ Beat \in Nat \ {0} /\ sonar[a].next \in Int
        BY WindowsAssumption DEF Shapes
      <3>4. 0 + sonar[a].beatIn <= Beat /\ 0 + sonar[a].next <= Beat
        BY <3>2, <3>3 DEF FreshRow
      <3>5. FreshRow(a)'
        BY <1>1, <1>2, <2>2, <3>1, <3>2, <3>4 DEF FreshRow
      <3>6. QED
        BY <1>1, <3>2, <3>5 DEF Spared
    <2>3. QED
      BY <1>5, <2>1, <2>2
  <1>7. Member(a) /\ HasRead(a) => Reading(a)'
    <2>1. Member(a) /\ HasRead(a) => Reading(a)
      BY DEF Answered, ReadingsCount
    <2>2. QED
      BY <1>1, <1>3, <2>1 DEF Reading
  <1>8. a \in Counted' /\ slots'[a] > 0 =>
          a \notin NoWorkers /\ (KeepsFresh(a) => Fit(a, slots'[a], Known(Lag(a))' \cup {a}))
    <2>1. Lag(a)' = Lag(a) /\ Counted' = Counted
      BY <1>1 DEF Lag, Counted
    <2>2. Known(Lag(a))' = Known(Lag(a))
      BY <1>1, <1>2, <2>1 DEF Known
    <2>3. QED
      BY <1>1, <2>1, <2>2 DEF Answered, SlotsFit
  <1>9. \A e \in Engines \ {a} : Member(e) => row'[e] = row[e]
    BY <1>5
  <1>10. QED
    BY <1>1, <1>2, <1>6, <1>7, <1>8, <1>9, OthersKeep

\* When a scan goes by, rows and readings grow older by one, and so do the members
\* that a reading may have missed; who has nothing left to apply holds the share
\* of its last reading.
LEMMA TickKeepsBudget ==
    ASSUME Shapes, Shapes', Answered, Tick
    PROVE  Answered'
  <1>1. phase' = phase /\ pass' = pass /\ seen' = seen /\ slots' = slots /\ pace' = pace
    BY DEF Tick
  <1>2. \A e \in Engines : /\ Member(e)' = Member(e) /\ HasRead(e)' = HasRead(e)
                           /\ KeepsFresh(e)' = KeepsFresh(e)
    BY <1>1 DEF Member, HasRead, KeepsFresh
  <1>3. \A e \in Engines : Member(e) =>
           Alive(e) /\ FreshRow(e) /\ Spared(e) /\ sonar[e].next > 1 - pace[e]
    <2> SUFFICES ASSUME NEW e \in Engines, Member(e)
                 PROVE  Alive(e) /\ FreshRow(e) /\ Spared(e) /\ sonar[e].next > 1 - pace[e]
      OBVIOUS
    <2>1. Alive(e) /\ FreshRow(e) /\ Spared(e)
      BY DEF Member, Alive, Answered, RowsAreFresh
    <2>2. ~Busy(e)
      BY DEF Tick
    <2>3. sonar[e].next \in Int /\ pace[e] \in Int
      BY DEF Shapes
    <2>4. QED
      BY <2>1, <2>2, <2>3 DEF Busy
  <1>4. \A e \in Engines : Member(e) =>
           /\ sonar'[e].next = sonar[e].next - 1
           /\ sonar'[e].beatIn = IF sonar[e].beatIn > 0 THEN sonar[e].beatIn - 1 ELSE 0
           /\ row'[e] # NoRow /\ row'[e].working /\ row'[e].seen <= row[e].seen + 1
           /\ age'[e] = age[e] + 1 \/ age'[e] = Settling
    BY <1>3, TickFacts DEF FreshRow
  <1>5. RowsAreFresh'
    <2> SUFFICES ASSUME NEW e \in Engines, Member(e) PROVE FreshRow(e)' /\ Spared(e)'
      BY <1>2 DEF RowsAreFresh
    <2>1. /\ row[e] \in Row /\ row'[e] \in Row /\ sonar[e].beatIn \in Nat /\ Beat \in Nat
          /\ sonar[e].next \in Int /\ pace[e] \in Nat /\ age[e] \in Nat
      BY <1>3, <1>4, WindowsAssumption DEF FreshRow, Shapes, RowsShape
    <2>2. row[e].seen \in Int /\ row'[e].seen \in Int
      BY <2>1 DEF Row
    <2>3. Spared(e)'
      BY <1>1, <1>3 DEF Spared
    <2>4. age'[e] = age[e] + 1 \/ age'[e] >= 2
      <3>1. Settling >= 2
        BY WindowsAssumption DEF Settling
      <3>2. QED
        BY <1>4, <3>1
    <2>5. /\ sonar'[e].next = sonar[e].next - 1 /\ sonar'[e].next <= 2 /\ sonar'[e].next >= 1 - pace[e]
          /\ sonar'[e].beatIn <= Beat
          /\ sonar'[e].beatIn = IF sonar[e].beatIn > 0 THEN sonar[e].beatIn - 1 ELSE 0
      BY <1>3, <1>4, <2>1 DEF FreshRow
    <2>6. CASE HasRead(e)
      <3>1. /\ sonar[e].next <= 1 /\ age[e] >= 2
            /\ row[e].seen + (IF sonar[e].beatIn > 0 THEN sonar[e].beatIn ELSE sonar[e].next) <= Beat
        BY <1>3, <2>6 DEF FreshRow
      <3>2. row'[e].seen <= row[e].seen + 1
        BY <1>4
      <3>3. row'[e].seen + (IF sonar'[e].beatIn > 0 THEN sonar'[e].beatIn ELSE sonar'[e].next) <= Beat
        BY <2>1, <2>2, <2>5, <3>1, <3>2
      <3>4. sonar'[e].next <= 1 /\ age'[e] >= 2
        BY <2>1, <2>4, <2>5, <3>1
      <3>5. QED
        BY <1>1, <1>2, <1>4, <2>3, <2>5, <2>6, <3>3, <3>4 DEF FreshRow
    <2>7. CASE ~HasRead(e)
      <3>1. /\ row[e].seen + sonar[e].next <= 2 /\ sonar[e].beatIn = 0
            /\ age[e] >= 2 \/ age[e] + sonar[e].next >= 2
        BY <1>3, <2>7 DEF FreshRow
      <3>2. row'[e].seen + sonar'[e].next <= 2 /\ sonar'[e].beatIn = 0
        BY <1>4, <2>1, <2>2, <2>5, <3>1
      <3>3. age'[e] >= 2 \/ age'[e] + sonar'[e].next >= 2
        BY <2>1, <2>4, <2>5, <3>1
      <3>4. QED
        BY <1>1, <1>2, <1>4, <2>3, <2>5, <2>7, <3>2, <3>3 DEF FreshRow
    <2>8. QED
      BY <2>6, <2>7
  <1>6. ASSUME NEW d \in Int PROVE Known(d + 1)' \subseteq Known(d) /\ Known(d) \in SUBSET Engines
    <2>1. \A f \in Engines : age[f] \in Nat /\ age'[f] \in Nat /\ age'[f] <= age[f] + 1
      BY TickFacts DEF Shapes
    <2>2. QED
      BY <1>2, <2>1 DEF Known
  <1>7. ReadingsCount'
    <2> SUFFICES ASSUME NEW e \in Engines, Member(e), HasRead(e) PROVE Reading(e)'
      BY <1>2 DEF ReadingsCount
    <2>0. PICK d \in Int : d = 1 - sonar[e].next
      BY DEF Shapes
    <2>1. Counts(e, seen[e], Known(d) \cup {e}) /\ seen[e] \in [rank : Nat, candidates : Nat]
      BY <2>0 DEF Answered, ReadingsCount, Reading, Shapes
    <2>2. d \in Int /\ 1 - sonar'[e].next = d + 1
      BY <1>4, <2>0 DEF Shapes
    <2>3. Known(d + 1)' \cup {e} \in SUBSET (Known(d) \cup {e}) /\ Known(d) \cup {e} \in SUBSET Engines
      BY <1>6, <2>2
    <2>4. Counts(e, seen[e], Known(d + 1)' \cup {e})
      BY <2>1, <2>3, CountsLess
    <2>5. Known(1 - sonar[e].next)' = Known(d + 1)'
      BY <2>2 DEF Known
    <2>6. QED
      BY <1>1, <2>4, <2>5 DEF Reading, Counts
  <1>8. SlotsFit'
    <2> SUFFICES ASSUME NEW e \in Counted, slots[e] > 0
                 PROVE  /\ e \notin NoWorkers
                        /\ KeepsFresh(e) => Fit(e, slots[e], Known(Lag(e))' \cup {e})
      BY <1>1, <1>2 DEF SlotsFit, Counted
    <2>1. e \in Engines /\ e \notin NoWorkers
      BY DEF Answered, SlotsFit, Counted
    <2>2. ASSUME KeepsFresh(e) PROVE Fit(e, slots[e], Known(Lag(e))' \cup {e})
      <3>1. Member(e) /\ HasRead(e)
        BY <2>1, <2>2 DEF Member, HasRead, Counted
      <3>2. late'[e] = IF Owing(e) THEN late[e] + 1 ELSE 0
        BY <2>1, TickFacts
      <3>3. Lag(e) \in Nat /\ Lag(e)' \in Nat
        BY <2>1, WindowsAssumption DEF Lag, Shapes
      <3>5. CASE Owing(e)
        <4>1. Lag(e)' = Lag(e) + 1
          BY <1>1, <2>1, <3>2, <3>5, WindowsAssumption DEF Lag, Shapes
        <4>2. Fit(e, slots[e], Known(Lag(e)) \cup {e})
          BY <2>2 DEF Answered, SlotsFit
        <4>3. Known(Lag(e))' \cup {e} \in SUBSET (Known(Lag(e)) \cup {e})
              /\ Known(Lag(e)) \cup {e} \in SUBSET Engines
          <5>1. PICK l \in Nat : l = Lag(e)
            BY <3>3
          <5>2. Known(l + 1)' \subseteq Known(l) /\ Known(l) \in SUBSET Engines
            BY <1>6
          <5>3. Known(Lag(e))' = Known(l + 1)' /\ Known(Lag(e)) = Known(l)
            BY <4>1, <5>1 DEF Known
          <5>4. QED
            BY <2>1, <5>2, <5>3
        <4>4. QED
          BY <2>1, <4>2, <4>3, FitLess
      <3>6. CASE ~Owing(e)
        <4>0. PICK d \in Int : d = 1 - sonar[e].next
          BY <2>1 DEF Shapes
        <4>1. phase[e] = Up /\ slots[e] = SlotsOn(e)
          BY <3>6 DEF Owing, Counted
        <4>2. d \in Int /\ d + 1 <= pace[e] /\ pace[e] \in Int /\ Lag(e)' = pace[e]
          <5>1. sonar[e].next \in Int /\ sonar[e].next > 1 - pace[e] /\ pace[e] \in Nat
            BY <1>3, <2>1, <3>1 DEF Shapes
          <5>2. Lag(e)' = pace[e]
            BY <1>1, <3>2, <3>6, <4>1, <5>1 DEF Lag
          <5>3. QED
            BY <4>0, <5>1, <5>2
        <4>3. Counts(e, seen[e], Known(d) \cup {e})
          BY <2>1, <3>1, <4>0 DEF Answered, ReadingsCount, Reading
        <4>4. Known(Lag(e))' \cup {e} \in SUBSET (Known(d) \cup {e}) /\ Known(d) \cup {e} \in SUBSET Engines
          <5>1. Known(d + 1)' \subseteq Known(d) /\ Known(d) \in SUBSET Engines
            BY <1>6, <4>2
          <5>2. Known(Lag(e))' \subseteq Known(d + 1)'
            BY <4>2 DEF Known, Shapes
          <5>3. QED
            BY <2>1, <5>1, <5>2
        <4>5. Fit(e, SlotsOn(e), Known(d) \cup {e})
          BY <2>1, <4>1, <4>3, <4>4, SlotsOnFit
        <4>6. QED
          BY <2>1, <4>1, <4>4, <4>5, FitLess
      <3>7. QED
        BY <3>5, <3>6
    <2>3. QED
      BY <2>1, <2>2
  <1>9. QED
    BY <1>5, <1>7, <1>8 DEF Answered

\* The clocks and the reading of a Sonar that has just passed.
JustPassed(p, b, r) == [FreshSonar EXCEPT !.next = p, !.beatIn = b, !.healthy = 0, !.raw = r]
LEMMA SettledEars ==
    ASSUME NEW p \in Int, NEW b \in Nat, NEW r \in Stands
    PROVE  /\ JustPassed(p, b, r) \in Ears
           /\ JustPassed(p, b, r).next = p /\ JustPassed(p, b, r).beatIn = b
  <1> DEFINE s == FreshSonar
             y == [s EXCEPT !.next = p, !.beatIn = b]
             z == [y EXCEPT !.healthy = 0]
             x == [z EXCEPT !.raw = r]
  <1>1. s \in Ears
    BY FreshSonarShape
  <1> HIDE DEF s
  <1>2. y \in Ears /\ y.next = p /\ y.beatIn = b
    BY <1>1 DEF Ears
  <1> HIDE DEF y
  <1>3. z \in Ears /\ z.next = p /\ z.beatIn = b
    BY <1>2 DEF Ears
  <1> HIDE DEF z
  <1>4. x \in Ears /\ x.next = p /\ x.beatIn = b
    BY <1>3 DEF Ears, Stands
  <1>5. JustPassed(p, b, r) = x
    BY Zenon DEF JustPassed, s, y, z
  <1>6. QED
    BY <1>4, <1>5


\* The initial fleet is settled: every row is new, and everybody has counted them.
LEMMA InitBudget == Init => BudgetInv
  <1> SUFFICES ASSUME Init PROVE BudgetInv
    OBVIOUS
  <1>1. /\ row = [e \in Engines |-> IF e \in Settled THEN [seen |-> 0, working |-> e \notin NoWorkers]
                                    ELSE NoRow]
        /\ phase = [e \in Engines |-> IF e \in Settled THEN Up ELSE Down]
        /\ pass = [e \in Engines |-> AtRest]
        /\ seen = [e \in Engines |-> IF e \in Settled THEN Standing(row, e) ELSE FreshSeen]
        /\ slots = [e \in Engines |-> IF e \in Settled THEN SlotsOn(e) ELSE 0]
        /\ late = [e \in Engines |-> 0]
        /\ age = [e \in Engines |-> IF e \in Settled THEN Settling ELSE 0]
        /\ cut = {} /\ outages = 0
    BY DEF Init
  <1>2. pace \in [Engines -> Nat \ {0}] /\ Settling \in Nat /\ Settling >= 2 /\ MaxLag \in Nat
    <2>1. pace \in [Engines -> Nat \ {0}]
      BY EnginesAssumption DEF Init
    <2>2. Settling \in Nat /\ Settling >= 2 /\ MaxLag \in Nat
      BY WindowsAssumption DEF Settling
    <2>3. QED
      BY <2>1, <2>2
  <1>3. seen \in [Engines -> Stands]
    BY <1>1, StandingShape, FreshSonarShape DEF Stands
  <1>4. AtRest \in Loop /\ AtRest.at = "sleep" /\ AtRest.dead = {}
    BY DEF AtRest, Loop
  <1>5. ASSUME NEW e \in Engines
        PROVE  /\ sonar[e] \in Ears
               /\ e \in Settled => sonar[e].next = 1 /\ sonar[e].beatIn = Beat
    <2> DEFINE x == JustPassed(1, Beat, seen[e])
    <2>1. x \in Ears /\ x.next = 1 /\ x.beatIn = Beat
      <3>1. 1 \in Int /\ Beat \in Nat /\ seen[e] \in Stands
        BY <1>3, WindowsAssumption
      <3>2. QED
        BY <3>1, SettledEars
    <2>2. sonar[e] = IF e \in Settled THEN x ELSE FreshSonar
      BY Zenon DEF Init, JustPassed
    <2> HIDE DEF x
    <2>3. QED
      BY <2>1, <2>2, FreshSonarShape
  <1>6. sonar \in [Engines -> Ears]
    <2>1. DOMAIN sonar = Engines /\ sonar = [e \in Engines |-> sonar[e]]
      BY Zenon DEF Init
    <2>2. QED
      BY <1>5, <2>1
  <1>7. \A e \in Engines : SlotsOn(e) \in Nat
    BY <1>3, SlotsOfCandidates DEF SlotsOn, Stands
  <1>8. Shapes
    <2>1. slots \in [Engines -> Nat] /\ late \in [Engines -> Nat] /\ age \in [Engines -> Nat]
      BY <1>1, <1>2, <1>7
    <2>2. phase \in [Engines -> {Down, Joining, Up, Draining, Withdrawn, Gone, Crashed}]
      BY <1>1
    <2>3. pass \in [Engines -> Loop]
      BY <1>1, <1>4
    <2>4. QED
      BY <1>1, <1>2, <1>3, <1>6, <2>1, <2>2, <2>3, InitShape DEF Shapes, Loop, Ears, Stands
  <1>9. Unborn /\ Timers
    BY <1>1, <1>2, <1>4 DEF Unborn, Spared, Timers
  <1>10. \A e \in Engines : Member(e) => e \in Settled /\ HasRead(e) /\ sonar[e].next = 1
    BY <1>1, <1>5 DEF Member, HasRead
  <1>11. \A e \in Engines : Member(e) => row[e] = [seen |-> 0, working |-> TRUE] /\ row[e] # NoRow
    <2>1. ASSUME NEW e \in Engines, Member(e) PROVE row[e] = [seen |-> 0, working |-> TRUE]
      BY <1>1, <1>10, <2>1 DEF Member
    <2>2. [seen |-> 0, working |-> TRUE] # NoRow
      <3>1. [seen |-> 0, working |-> TRUE] \in Row
        BY DEF Row
      <3>2. QED
        BY <3>1, NoRowIsNoRow
    <2>3. QED
      BY <2>1, <2>2
  <1>12. RowsAreFresh
    <2> SUFFICES ASSUME NEW e \in Engines, Member(e) PROVE FreshRow(e) /\ Spared(e)
      BY DEF RowsAreFresh
    <2>1. /\ sonar[e].next = 1 /\ sonar[e].beatIn = Beat /\ HasRead(e) /\ Beat \in Nat \ {0}
          /\ age[e] >= 2 /\ 1 >= 1 - pace[e]
      BY <1>1, <1>2, <1>5, <1>10, WindowsAssumption
    <2>2. row[e].seen = 0 /\ row[e].working /\ row[e] # NoRow
      BY <1>11
    <2>3. FreshRow(e)
      BY <2>1, <2>2 DEF FreshRow
    <2>4. Spared(e)
      BY <1>1, <1>4 DEF Spared
    <2>5. QED
      BY <2>3, <2>4
  <1>13. \A e \in Engines : Member(e) => Counts(e, seen[e], Known(0) \cup {e})
    <2> SUFFICES ASSUME NEW e \in Engines, Member(e) PROVE Counts(e, seen[e], Known(0) \cup {e})
      OBVIOUS
    <2>1. ASSUME NEW f \in Known(0) \cup {e} PROVE f \in Ranked(row)
      <3>1. f \in Engines /\ row[f] # NoRow /\ row[f].seen = 0 /\ row[f].working
        BY <1>11 DEF Known
      <3>2. QED
        BY <3>1, WindowsAssumption DEF Ranked, IsFresh
    <2>2. Known(0) \cup {e} \in SUBSET Ranked(row)
      BY <2>1
    <2>3. seen[e] = Standing(row, e)
      BY <1>1, <1>10
    <2>4. QED
      BY <2>2, <2>3, ReadingCounts
  <1>14. ReadingsCount
    BY <1>10, <1>13 DEF ReadingsCount, Reading
  <1>15. SlotsFit
    <2> SUFFICES ASSUME NEW e \in Counted, slots[e] > 0
                 PROVE  e \notin NoWorkers
                        /\ (KeepsFresh(e) => Fit(e, slots[e], Known(Lag(e)) \cup {e}))
      BY DEF SlotsFit
    <2>1. e \in Engines /\ slots[e] = SlotsOn(e) /\ e \notin NoWorkers
      BY <1>1 DEF Counted, SlotsOn
    <2>2. ASSUME KeepsFresh(e) PROVE Fit(e, slots[e], Known(Lag(e)) \cup {e})
      <3>1. Member(e)
        BY <2>1, <2>2 DEF Member, Counted
      <3>2. Lag(e) \in Nat
        BY <1>2, <1>8, <2>1 DEF Lag, Shapes
      <3>3. Known(Lag(e)) \cup {e} \in SUBSET (Known(0) \cup {e}) /\ Known(0) \cup {e} \in SUBSET Engines
        BY <1>8, <2>1, <3>2, KnownLess
      <3>4. Fit(e, SlotsOn(e), Known(0) \cup {e})
        BY <1>8, <1>13, <2>1, <3>1, <3>3, SlotsOnFit
      <3>5. QED
        BY <2>1, <3>3, <3>4, FitLess
    <2>3. QED
      BY <2>1, <2>2
  <1>16. QED
    BY <1>1, <1>8, <1>9, <1>12, <1>14, <1>15 DEF BudgetInv

\* Every step keeps the budget's invariant.
LEMMA BudgetKept == BudgetInv /\ [Next]_vars => BudgetInv'
  <1> SUFFICES ASSUME BudgetInv, [Next]_vars PROVE BudgetInv'
    OBVIOUS
  <1>1. Shapes /\ Shapes' /\ Unborn /\ Unborn' /\ Timers /\ Timers'
    BY ShapesKept, UnbornKept, TimersKept DEF BudgetInv
  <1> SUFFICES ASSUME outages' = 0 PROVE cut' = {} /\ Answered'
    BY <1>1 DEF BudgetInv, Answered
  <1>2. CASE UNCHANGED vars
    <2>1. outages = 0 /\ cut' = cut /\ Answered
      BY <1>2 DEF vars, BudgetInv, Answered
    <2>2. Answered' = Answered
      BY <1>2 DEF vars, Answered, RowsAreFresh, ReadingsCount, SlotsFit, Counted, Member, HasRead,
                  KeepsFresh, FreshRow, Spared, Reading, Known, Lag
    <2>3. QED
      BY <2>1, <2>2 DEF BudgetInv
  <1>3. CASE Outage
    BY <1>1, <1>3 DEF Outage, Shapes
  <1>4. CASE Recover
    BY <1>4 DEF Recover, BudgetInv
  <1>5. CASE Tick
    <2>1. cut' = {} /\ Answered
      BY <1>5 DEF Tick, BudgetInv, Answered
    <2>2. QED
      BY <1>1, <1>5, <2>1, TickKeepsBudget
  <1>6. ASSUME NEW a \in Engines,
               \/ Startup(a) \/ Loops(a)
               \/ Shutdown(a) \/ Leave(a) \/ ClosePools(a) \/ Crash(a)
        PROVE  cut' = {} /\ Answered'
    <2>1. outages' = outages /\ cut' = cut
      BY <1>6 DEF Loops, Startup, Pass, Mend, SizePools, Reconcile, Withdraw, Shutdown, Leave,
                  ClosePools, Crash
    <2>2. cut = {} /\ Answered
      BY <2>1 DEF BudgetInv, Answered
    <2>3. CASE Startup(a)
      BY <1>1, <2>1, <2>2, <2>3, StartupKeepsBudget
    <2>4. CASE Pass(a)
      BY <1>1, <2>1, <2>2, <2>4, PassKeepsBudget
    <2>5. CASE Mend(a)
      BY <1>1, <2>1, <2>2, <2>5, MendKeepsBudget
    <2>6. CASE SizePools(a) \/ Reconcile(a)
      BY <1>1, <2>1, <2>2, <2>6, SizingKeeps
    <2>7. CASE Withdraw(a) \/ Leave(a) \/ ClosePools(a) \/ Crash(a)
      BY <1>1, <2>1, <2>2, <2>7, LeaversKeep
    <2>8. CASE Shutdown(a)
      BY <1>1, <2>1, <2>2, <2>8, ShutdownKeeps
    <2>9. QED
      BY <1>6, <2>3, <2>4, <2>5, <2>6, <2>7, <2>8 DEF Loops
  <1>7. QED
    BY <1>2, <1>3, <1>4, <1>5, <1>6 DEF Next

-----------------------------------------------------------------------------
(* What the invariant gives *)

\* Replicas that read every scan have all counted each other: one that shows up
\* has been announced for two scans.
LEMMA SharesHold ==
    ASSUME BudgetInv, outages = 0
    PROVE  SharesFit
  <1> SUFFICES Fits({e \in Counted : pace[e] = 1 /\ Shares[e] > 0}, Shares)
    BY DEF SharesFit
  <1> DEFINE S == {e \in Counted : pace[e] = 1 /\ Shares[e] > 0}
  <1>1. Shapes /\ Answered
    BY DEF BudgetInv, Answered
  <1>2. \A e \in Engines : Shares[e] = SlotsOn(e)
    BY DEF Shares
  <1>3. ASSUME NEW e \in S
        PROVE  e \in Engines /\ Member(e) /\ HasRead(e) /\ age[e] >= 2 /\ SlotsOn(e) > 0
    <2>1. e \in Engines /\ SlotsOn(e) > 0 /\ pace[e] = 1 /\ phase[e] \in {Up, Draining}
      BY <1>2 DEF Counted
    <2>2. e \notin NoWorkers
      BY <2>1 DEF SlotsOn
    <2>3. KeepsFresh(e)
      BY <2>1, WindowsAssumption DEF KeepsFresh
    <2>4. Member(e) /\ HasRead(e)
      BY <2>1, <2>2, <2>3 DEF Member, HasRead
    <2>5. QED
      BY <1>1, <2>1, <2>4 DEF Answered, RowsAreFresh, FreshRow
  <1>4. ASSUME NEW e \in S PROVE Fit(e, Shares[e], S)
    <2> DEFINE d == 1 - sonar[e].next
    <2>1. e \in Engines /\ FreshRow(e) /\ Counts(e, seen[e], Known(d) \cup {e}) /\ SlotsOn(e) > 0
      BY <1>1, <1>3 DEF Answered, RowsAreFresh, ReadingsCount, Reading
    <2>2. d \in Int /\ d <= 1
      <3>1. sonar[e].next \in Int /\ pace[e] = 1
        BY <1>1, <2>1 DEF Shapes
      <3>2. QED
        BY <2>1, <3>1 DEF FreshRow
    <2>3. \A f \in S : f \in Engines /\ Member(f) /\ age[f] \in Nat /\ age[f] >= 2
      BY <1>1, <1>3 DEF Shapes
    <2> HIDE DEF d, S
    <2>4. S \in SUBSET (Known(d) \cup {e}) /\ Known(d) \cup {e} \in SUBSET Engines
      BY <2>1, <2>2, <2>3 DEF Known
    <2>5. Fit(e, SlotsOn(e), Known(d) \cup {e})
      BY <1>1, <2>1, <2>4, SlotsOnFit
    <2>6. QED
      BY <1>2, <2>1, <2>4, <2>5, FitLess
  <1>5. S \in SUBSET Engines
    BY <1>3
  <1> HIDE DEF S
  <1>6. Fits(S, Shares)
    BY <1>4, <1>5, EnoughBudget
  <1>7. QED
    BY <1>6 DEF S

\* More candidates never mean fewer slots.
LEMMA SlotsNeverShrink ==
    ASSUME NEW a \in Nat, NEW b \in Nat, a <= b
    PROVE  DispatcherSlots(a) <= DispatcherSlots(b)
  <1>1. DispatcherSlots(a) \in Nat \ {0} /\ DispatcherSlots(b) \in Nat \ {0}
    BY SlotsOfCandidates
  <1>2. DispatcherSlots(a) <= IF a < 1 THEN 1 ELSE a
    <2> DEFINE r == IF a < 1 THEN 1 ELSE a
               two == IF r < 2 THEN r ELSE 2
               most == IF Want > two THEN Want ELSE two
    <2>1. r \in Nat /\ two \in Nat
      OBVIOUS
    <2>2. DispatcherSlots(a) = IF r < most THEN r ELSE most
      BY DEF DispatcherSlots
    <2> HIDE DEF r, two
    <2>3. most \in Nat
      BY <2>1, WindowsAssumption
    <2> HIDE DEF most
    <2>4. DispatcherSlots(a) <= r
      BY <2>1, <2>2, <2>3
    <2>5. QED
      BY <2>4 DEF r
  <1>3. CASE a < 1
    BY <1>1, <1>2, <1>3
  <1>4. CASE a >= 1
    <2>1. DispatcherSlots(a) \in Nat /\ DispatcherSlots(a) <= a /\ DispatcherSlots(a) <= b
      BY <1>1, <1>2, <1>4
    <2>2. QED
      BY <1>1, <2>1, SlotsGrow
  <1>5. QED
    BY <1>3, <1>4

\* Everybody has counted, and applied, the established dispatchers.
LEMMA PoolsHold ==
    ASSUME BudgetInv, outages = 0
    PROVE  PoolsFit
  <1> SUFFICES /\ Fits(Established, slots)
               /\ \A e \in Dispatchers \ Established : PoolOf(slots[e]) <= PoolOf(PostJoinShare)
    BY DEF PoolsFit
  <1>1. Shapes /\ Timers /\ Answered
    BY DEF BudgetInv, Answered
  <1>2. Established \in SUBSET Engines
    BY DEF Established, Dispatchers, Counted
  <1>3. ASSUME NEW e \in Dispatchers
        PROVE  e \in Engines /\ slots[e] \in Nat \ {0} /\ Fit(e, slots[e], Established \cup {e})
    <2>1. e \in Counted /\ e \in Engines /\ KeepsFresh(e) /\ slots[e] \in Nat \ {0}
      BY <1>1 DEF Dispatchers, Counted, Shapes
    <2>2. Fit(e, slots[e], Known(Lag(e)) \cup {e})
      BY <1>1, <2>1 DEF Answered, SlotsFit
    <2>3. Lag(e) \in Nat /\ Lag(e) < Settling
      <3>1. /\ pace[e] \in Nat /\ late[e] \in Nat /\ {MaxLag, Fresh} \subseteq Nat /\ pace[e] < Fresh
            /\ late[e] <= MaxLag + (IF phase[e] = Draining THEN 1 ELSE 0)
        BY <1>1, <2>1, WindowsAssumption DEF Shapes, KeepsFresh, Timers, Counted
      <3>2. QED
        BY <3>1 DEF Lag, Settling
    <2>4. ASSUME NEW f \in Established PROVE f \in Known(Lag(e))
      <3>1. f \in Engines /\ f \in Counted /\ slots[f] > 0 /\ KeepsFresh(f) /\ age[f] >= Settling
        BY DEF Established, Dispatchers, Counted
      <3>2. Member(f) /\ age[f] \in Nat /\ Settling \in Nat
        <4>1. f \notin NoWorkers
          BY <1>1, <3>1 DEF Answered, SlotsFit
        <4>2. Member(f)
          BY <3>1, <4>1 DEF Member, Counted
        <4>3. age[f] \in Nat /\ Settling \in Nat
          BY <1>1, <3>1, WindowsAssumption DEF Shapes, Settling
        <4>4. QED
          BY <4>2, <4>3
      <3>3. QED
        BY <2>3, <3>1, <3>2 DEF Known
    <2>5. Established \cup {e} \in SUBSET (Known(Lag(e)) \cup {e})
          /\ Known(Lag(e)) \cup {e} \in SUBSET Engines
      BY <2>1, <2>4 DEF Known
    <2>6. QED
      BY <2>1, <2>2, <2>5, FitLess
  <1>4. Fits(Established, slots)
    <2>1. ASSUME NEW e \in Established PROVE Fit(e, slots[e], Established)
      <3>1. e \in Dispatchers /\ Established \cup {e} = Established
        BY DEF Established
      <3>2. QED
        BY <1>3, <3>1
    <2>2. QED
      BY <1>2, <2>1, EnoughBudget
  <1>5. ASSUME NEW e \in Dispatchers \ Established PROVE PoolOf(slots[e]) <= PoolOf(PostJoinShare)
    <2> DEFINE k == Cardinality(Established) + 1
    <2>1. Cardinality(Established \cup {e}) = k /\ k \in Nat
      BY <1>2, EnginesAreFinite, FS_AddElement
    <2>2. PICK z \in [rank : Nat, candidates : Nat] :
             Counts(e, z, Established \cup {e}) /\ slots[e] = DispatcherSlots(z.candidates)
      BY <1>3 DEF Fit
    <2>3. z.candidates \in Nat /\ k <= z.candidates
      BY <2>1, <2>2 DEF Counts
    <2>4. PostJoinShare = DispatcherSlots(k)
      BY DEF PostJoinShare
    <2> HIDE DEF k
    <2>5. PostJoinShare \in Nat \ {0} /\ PostJoinShare <= slots[e]
      BY <2>1, <2>2, <2>3, <2>4, SlotsOfCandidates, SlotsNeverShrink
    <2>6. slots[e] \in Nat \ {0}
      BY <1>3
    <2>7. QED
      BY <2>5, <2>6, PoolsShrink
  <1>6. QED
    BY <1>4, <1>5

\* While the registry answers, the shares that the replicas which read it every
\* scan work out never add up to more than the shard's budget and the rounding of
\* the shares, whoever joins, drains or crashes: a join announces itself and waits
\* two scans before it reads (sonar.go Join, poolsize.go slotsOn and shardPool).
\* The pools of the established dispatchers, draining ones among them, fit the
\* budget too, and a replica that joined lately holds no more than a post-join
\* share, however many readings, applies and withdrawals are late, up to the
\* bounds Paces and MaxLag (engine/peers.go joinFleet, engine.go drainRuntime).
THEOREM PoolsStayWithinBudget == Spec => []WithinBudget
  <1>1. Init => BudgetInv
    BY InitBudget
  <1>2. BudgetInv /\ [Next]_vars => BudgetInv'
    BY BudgetKept
  <1>3. BudgetInv => WithinBudget
    BY SharesHold, PoolsHold DEF WithinBudget
  <1>4. QED
    BY <1>1, <1>2, <1>3, PTL DEF Spec
=============================================================================
