----------------------------- MODULE CrewProofs -----------------------------
(***************************************************************************)
(* What TLAPS proves about Crew, for every number of goroutines, shards    *)
(* and bands and every order of their steps: the two counters the crew     *)
(* grows and shrinks by are exact, and the crew stays within its bounds.   *)
(*                                                                         *)
(* Neither invariant is inductive alone.  A wake moves a goroutine from    *)
(* the condition variable's list back into its loop without counting, so   *)
(* the list must hold sleeping goroutines only, each of them once; and a   *)
(* goroutine goes home, whatever the floor, only once Close has begun.     *)
(***************************************************************************)
EXTENDS Crew, Integers, FiniteSetTheorems, TLAPS

\* Where a goroutine does not count as idle, and where it is no member.
Busy == {"none", "task"} \cup (Committed \ {"taken"})
Gone == {"none", "retiring"}
Outside(at, places) == {w \in Workers : at[w] \notin places}

\* What a move from one place to another does to the count outside of some.
Change(from, to, places) ==
    IF from \in places /\ to \notin places THEN 1
    ELSE IF from \notin places /\ to \in places THEN -1 ELSE 0

Shape ==
    /\ pc \in [Workers -> Places]
    /\ idle \in Nat /\ resident \in Nat
    /\ stage \in {"up", "closed", "told", "gated", "draining", "drained"}

\* Who waits on the condition variable is asleep, and waits there once.
SleepersSleep ==
    /\ sleepers \in Seq(Workers)
    /\ \A i \in 1..Len(sleepers) : pc[sleepers[i]] = "asleep"
    /\ \A i, j \in 1..Len(sleepers) : sleepers[i] = sleepers[j] => i = j

\* Only a closed cache, or a closed gate, sends a goroutine home.
LeavingIsClosing == \A w \in Workers : pc[w] = "leaving" => Closed

IInv ==
    /\ Shape /\ SleepersSleep /\ LeavingIsClosing
    /\ CountersExact /\ CrewWithinBounds

-----------------------------------------------------------------------------
(* Goroutines that move *)

\* The counters, said of Outside.
LEMMA Counts ==
    /\ CountersExact <=> /\ idle = Cardinality(Outside(pc, Busy))
                         /\ resident = Cardinality(Outside(pc, Gone))
    /\ CountersExact' <=> /\ idle' = Cardinality(Outside(pc', Busy))
                          /\ resident' = Cardinality(Outside(pc', Gone))
  BY DEF CountersExact, Outside, Busy, Gone

LEMMA OutsideIsFinite ==
    ASSUME NEW at, NEW places
    PROVE  IsFiniteSet(Outside(at, places)) /\ Cardinality(Outside(at, places)) \in Nat
  <1>1. Outside(at, places) \subseteq Workers
    BY DEF Outside
  <1>2. QED
    BY <1>1, CrewAssumption, FS_Subset, FS_CardinalityType

\* One goroutine's move changes a count by one, or not at all.
LEMMA OneMoves ==
    ASSUME NEW at \in [Workers -> Places], NEW places, NEW w \in Workers, NEW q,
           NEW to, to = [at EXCEPT ![w] = q]
    PROVE  Cardinality(Outside(to, places)) =
               Cardinality(Outside(at, places)) + Change(at[w], q, places)
  <1>1. IsFiniteSet(Outside(at, places)) /\ Cardinality(Outside(at, places)) \in Nat
    BY OutsideIsFinite
  <1>2. CASE at[w] \in places <=> q \in places
    <2>1. Outside(to, places) = Outside(at, places)
      BY <1>2 DEF Outside
    <2>2. QED
      BY <1>1, <1>2, <2>1 DEF Change
  <1>3. CASE at[w] \in places /\ q \notin places
    <2>1. w \notin Outside(at, places) /\ Outside(to, places) = Outside(at, places) \cup {w}
      BY <1>3 DEF Outside
    <2>2. QED
      BY <1>1, <1>3, <2>1, FS_AddElement DEF Change
  <1>4. CASE at[w] \notin places /\ q \in places
    <2>1. w \in Outside(at, places) /\ Outside(to, places) = Outside(at, places) \ {w}
      BY <1>4 DEF Outside
    <2>2. QED
      BY <1>1, <1>4, <2>1, FS_RemoveElement DEF Change
  <1>5. QED
    BY <1>2, <1>3, <1>4

\* What becomes of the two counts when the goroutine w moves to q.
Shifts(w, q) ==
    /\ Cardinality(Outside(pc', Busy)) = idle + Change(pc[w], q, Busy)
    /\ Cardinality(Outside(pc', Gone)) = resident + Change(pc[w], q, Gone)

LEMMA PcMoves ==
    ASSUME IInv, NEW w \in Workers, NEW q, pc' = [pc EXCEPT ![w] = q]
    PROVE  Shifts(w, q)
  <1>1. pc \in [Workers -> Places]
    BY DEF IInv, Shape
  <1>2. ASSUME NEW places
        PROVE  Cardinality(Outside(pc', places)) =
                   Cardinality(Outside(pc, places)) + Change(pc[w], q, places)
    BY <1>1, OneMoves
  <1>3. idle = Cardinality(Outside(pc, Busy)) /\ resident = Cardinality(Outside(pc, Gone))
    BY Counts DEF IInv
  <1>4. QED
    BY <1>2, <1>3 DEF Shifts

\* A goroutine that is not asleep moves on its own: the list of the sleeping is
\* untouched.
LEMMA MovesOn ==
    ASSUME IInv, NEW w \in Workers, NEW q \in Places, pc[w] # "asleep",
           pc' = [pc EXCEPT ![w] = q], sleepers' = sleepers, stage' = stage,
           q = "leaving" => Closed
    PROVE  /\ pc' \in [Workers -> Places] /\ pc[w] \in Places
           /\ stage' \in {"up", "closed", "told", "gated", "draining", "drained"}
           /\ SleepersSleep' /\ LeavingIsClosing'
  <1>1. pc' \in [Workers -> Places] /\ pc[w] \in Places
    BY DEF IInv, Shape
  <1>2. SleepersSleep'
    BY DEF IInv, Shape, SleepersSleep
  <1>3. LeavingIsClosing'
    BY DEF IInv, Shape, LeavingIsClosing, Closed
  <1>4. QED
    BY <1>1, <1>2, <1>3 DEF IInv, Shape
\* A wake takes the one who waits longest off the list and back into its loop.
LEMMA WakeTakesOldest ==
    ASSUME IInv, pc' = WakeOldest(sleepers, pc), sleepers' = Rest(sleepers), stage' = stage
    PROVE  /\ pc' \in [Workers -> Places]
           /\ SleepersSleep' /\ LeavingIsClosing'
           /\ Cardinality(Outside(pc', Busy)) = idle
           /\ Cardinality(Outside(pc', Gone)) = resident
  <1>1. CASE sleepers = <<>>
    BY <1>1, Counts DEF WakeOldest, Rest, IInv, Shape, SleepersSleep, LeavingIsClosing, Closed
  <1>2. CASE sleepers # <<>>
    <2> DEFINE h == Head(sleepers)
    <2>1. /\ h \in Workers /\ h = sleepers[1] /\ pc[h] = "asleep"
          /\ Tail(sleepers) \in Seq(Workers) /\ Len(Tail(sleepers)) = Len(sleepers) - 1
          /\ \A i \in 1..Len(sleepers) - 1 : Tail(sleepers)[i] = sleepers[i + 1]
      BY <1>2 DEF IInv, SleepersSleep
    <2>2. pc' = [pc EXCEPT ![h] = "woken"] /\ sleepers' = Tail(sleepers)
      BY <1>2 DEF WakeOldest, Rest
    <2> HIDE DEF h
    <2>3. pc' \in [Workers -> Places]
      BY <2>1, <2>2 DEF IInv, Shape, Places
    <2>4. SleepersSleep'
      <3>1. \A i \in 1..Len(sleepers') : sleepers'[i] # h /\ pc[sleepers'[i]] = "asleep"
        BY <2>1, <2>2 DEF IInv, SleepersSleep
      <3>2. \A i \in 1..Len(sleepers') : pc'[sleepers'[i]] = "asleep"
        BY <2>1, <2>2, <3>1 DEF IInv, Shape
      <3>3. \A i, j \in 1..Len(sleepers') : sleepers'[i] = sleepers'[j] => i = j
        BY <2>1, <2>2 DEF IInv, SleepersSleep
      <3>4. QED
        BY <2>1, <2>2, <3>2, <3>3 DEF SleepersSleep
    <2>5. LeavingIsClosing'
      BY <2>1, <2>2 DEF IInv, Shape, LeavingIsClosing, Closed
    <2>6. "asleep" \notin Busy \cup Gone /\ "woken" \notin Busy \cup Gone
      BY DEF Busy, Gone, Committed
    <2>7. Shifts(h, "woken")
      BY <2>1, <2>2, PcMoves
    <2>8. QED
      BY <2>1, <2>3, <2>4, <2>5, <2>6, <2>7 DEF IInv, Shape, Shifts, Change
  <1>3. QED
    BY <1>1, <1>2

-----------------------------------------------------------------------------
(* The actions *)

LEMMA InitEstablishes == Init => IInv
  <1> SUFFICES ASSUME Init PROVE IInv
    OBVIOUS
  <1>1. MinCrew \in Nat
    BY CrewAssumption, FS_Subset, FS_CardinalityType DEF MinCrew
  <1>2. Outside(pc, Busy) = Residents /\ Outside(pc, Gone) = Residents
    BY CrewAssumption DEF Init, Outside, Busy, Gone, Committed
  <1>3. CountersExact
    BY <1>2, Counts DEF Init, MinCrew
  <1>4. CrewWithinBounds
    BY <1>1, CrewAssumption, FS_CardinalityType DEF Init, CrewWithinBounds, MinCrew
  <1>5. Shape /\ SleepersSleep /\ LeavingIsClosing
    BY <1>1 DEF Init, Shape, Places, SleepersSleep, LeavingIsClosing
  <1>6. QED
    BY <1>3, <1>4, <1>5 DEF IInv

\* The supply, the peers and the pool policy move no goroutine.
LEMMA QuietPreserves ==
    ASSUME IInv, UNCHANGED <<sleepers, pc, idle, resident, stage>>
    PROVE  IInv'
  BY DEF IInv, Shape, SleepersSleep, LeavingIsClosing, Closed, CountersExact, CrewWithinBounds

\* Refill's wakes and the doorbell.
LEMMA WakePreserves ==
    ASSUME IInv, pc' = WakeOldest(sleepers, pc), sleepers' = Rest(sleepers),
           UNCHANGED <<idle, resident, stage>>
    PROVE  IInv'
  <1>1. CountersExact'
    BY WakeTakesOldest, Counts DEF IInv
  <1>2. QED
    BY <1>1, WakeTakesOldest DEF IInv, Shape, Closed, CrewWithinBounds

\* Close wakes everybody who waits.
LEMMA BroadcastPreserves ==
    ASSUME IInv, Broadcast
    PROVE  IInv'
  <1>1. pc' \in [Workers -> Places] /\ \A w \in Workers : pc'[w] = pc[w] \/ (pc[w] = "asleep" /\ pc'[w] = "woken")
    BY DEF Broadcast, Told, IInv, Shape, SleepersSleep, Places
  <1>2. sleepers' = <<>>
    BY DEF Broadcast, Told, IInv, SleepersSleep
  <1>3. Outside(pc', Busy) = Outside(pc, Busy) /\ Outside(pc', Gone) = Outside(pc, Gone)
    BY <1>1 DEF Outside, Busy, Gone, Committed
  <1>4. CountersExact'
    BY <1>3, Counts DEF IInv, Broadcast
  <1>5. SleepersSleep'
    BY <1>2 DEF SleepersSleep
  <1>6. Shape' /\ LeavingIsClosing' /\ CrewWithinBounds'
    BY <1>1 DEF Broadcast, IInv, Shape, LeavingIsClosing, Closed, CrewWithinBounds
  <1>7. QED
    BY <1>4, <1>5, <1>6 DEF IInv

\* The rest of Shutdown.
LEMMA ClosingPreserves ==
    ASSUME IInv, CloseCache \/ CloseGate \/ Drain \/ Drained
    PROVE  IInv'
  BY DEF CloseCache, CloseGate, Drain, Drained, IInv, Shape, SleepersSleep, LeavingIsClosing,
         Closed, CountersExact, CrewWithinBounds

\* A goroutine that goes to sleep joins the end of the list.
LEMMA SleepPreserves ==
    ASSUME IInv, NEW w \in Workers, pc[w] \in {"top", "woken"}, At(w, "asleep"),
           sleepers' = Append(sleepers, w), UNCHANGED <<idle, resident, stage>>
    PROVE  IInv'
  <1>1. /\ pc \in [Workers -> Places] /\ pc' = [pc EXCEPT ![w] = "asleep"]
        /\ pc' \in [Workers -> Places]
    BY DEF At, IInv, Shape, Places
  <1>2. SleepersSleep'
    BY <1>1 DEF IInv, SleepersSleep
  <1>3. "asleep" \notin Busy \cup Gone /\ pc[w] \notin Busy \cup Gone
    BY DEF Busy, Gone, Committed
  <1>4. Shifts(w, "asleep")
    BY <1>1, PcMoves
  <1>5. CountersExact'
    BY <1>3, <1>4, Counts DEF IInv, Shape, Shifts, Change
  <1>6. QED
    BY <1>1, <1>2, <1>5 DEF IInv, Shape, LeavingIsClosing, Closed, CrewWithinBounds
\* A goroutine that moves on and keeps its own account of the two counters.
LEMMA LoopPreserves ==
    ASSUME IInv, NEW w \in Workers, NEW q \in Places, pc[w] # "asleep", At(w, q),
           sleepers' = sleepers, stage' = stage, q = "leaving" => Closed,
           idle' = idle + Change(pc[w], q, Busy), resident' = resident + Change(pc[w], q, Gone),
           CrewWithinBounds'
    PROVE  IInv'
  <1>1. pc' = [pc EXCEPT ![w] = q]
    BY DEF At
  <1>2. Shifts(w, q)
    BY <1>1, PcMoves
  <1>3. CountersExact'
    BY <1>2, Counts DEF Shifts
  <1>4. idle' \in Nat /\ resident' \in Nat
    BY <1>3, Counts, OutsideIsFinite
  <1>5. QED
    BY <1>1, <1>3, <1>4, MovesOn DEF IInv, Shape

\* The places, as the two counters see them.
LEMMA PlacesCount ==
    /\ \A p \in {"top", "asleep", "woken", "gate", "popping", "taken"} : p \notin Busy /\ p \notin Gone
    /\ \A p \in {"growing", "spawning", "claiming", "task"} : p \in Busy /\ p \notin Gone
    /\ "leaving" \notin Busy /\ "leaving" \notin Gone
    /\ "retiring" \notin Busy /\ "retiring" \in Gone
    /\ "none" \in Busy /\ "none" \in Gone
  BY DEF Busy, Gone, Committed

\* Retirement stops at the floor, and an exit below it is Shutdown's.
LEMMA RetirePreserves ==
    ASSUME IInv, NEW w \in Workers, Retire(w) \/ Exit(w)
    PROVE  IInv'
  <1>1. MinCrew \in Nat /\ MaxCrew \in Nat /\ idle \in Nat /\ resident \in Nat
    BY CrewAssumption, FS_Subset, FS_CardinalityType DEF MinCrew, IInv, Shape
  <1>2. CASE Retire(w)
    <2>1. CrewWithinBounds'
      BY <1>1, <1>2 DEF Retire, MayRetire, IInv, CrewWithinBounds, Closed
    <2>2. "retiring" \in Places
      BY DEF Places
    <2>3. QED
      BY <1>1, <1>2, <2>1, <2>2, PlacesCount, LoopPreserves DEF Retire, Change
  <1>3. CASE Exit(w)
    <2>1. pc[w] = "leaving" => Closed
      BY DEF IInv, LeavingIsClosing
    <2>2. CrewWithinBounds'
      BY <1>1, <1>3, <2>1 DEF Exit, IInv, CrewWithinBounds, Closed
    <2>3. "none" \in Places
      BY DEF Places
    <2>4. QED
      BY <1>1, <1>3, <2>2, <2>3, PlacesCount, LoopPreserves DEF Exit, Change
  <1>4. QED
    BY <1>2, <1>3

\* Waking, sleeping, the gate and the pop count nobody in or out.
LEMMA SearchPreserves ==
    ASSUME IInv, NEW w \in Workers, WaitForWork(w) \/ Acquire(w) \/ TryPopFrom(w)
    PROVE  IInv'
  <1>1. idle \in Nat /\ resident \in Nat /\ (UNCHANGED <<resident, stage>> => CrewWithinBounds')
    BY DEF IInv, Shape, CrewWithinBounds, Closed
  <1>2. {"leaving", "gate", "popping", "top", "taken"} \subseteq Places
    BY DEF Places, Committed
  <1>3. CASE WaitForWork(w)
    <2>1. CASE At(w, "asleep") /\ sleepers' = Append(sleepers, w)
      BY <1>3, <2>1, SleepPreserves DEF WaitForWork
    <2>2. CASE ~(At(w, "asleep") /\ sleepers' = Append(sleepers, w))
      <3>1. \E q \in {"leaving", "gate"} : At(w, q) /\ (q = "leaving" => Closed)
        BY <1>3, <2>2 DEF WaitForWork
      <3>2. /\ pc[w] \in {"top", "woken"}
            /\ sleepers' = sleepers /\ UNCHANGED <<idle, resident, stage>>
        BY <1>3, <2>2 DEF WaitForWork
      <3>3. QED
        BY <1>1, <1>2, <3>1, <3>2, PlacesCount, LoopPreserves DEF Change
    <2>3. QED
      BY <2>1, <2>2
  <1>4. CASE Acquire(w)
    <2>1. \E q \in {"leaving", "popping"} : At(w, q) /\ (q = "leaving" => Closed)
      BY <1>4 DEF Acquire, GateClosed, Closed
    <2>2. pc[w] = "gate" /\ sleepers' = sleepers /\ UNCHANGED <<idle, resident, stage>>
      BY <1>4 DEF Acquire
    <2>3. QED
      BY <1>1, <1>2, <2>1, <2>2, PlacesCount, LoopPreserves DEF Change
  <1>5. CASE TryPopFrom(w)
    <2>1. \E q \in {"top", "taken"} : At(w, q)
      BY <1>5 DEF TryPopFrom
    <2>2. pc[w] = "popping" /\ sleepers' = sleepers /\ UNCHANGED <<idle, resident, stage>>
      BY <1>5 DEF TryPopFrom
    <2>3. QED
      BY <1>1, <1>2, <2>1, <2>2, PlacesCount, LoopPreserves DEF Change
  <1>6. QED
    BY <1>3, <1>4, <1>5

\* From the candidate to the end of its task.
LEMMA WorkPreserves ==
    ASSUME IInv, NEW w \in Workers, Commit(w) \/ ConsiderGrowth(w) \/ Claim(w) \/ Finish(w)
    PROVE  IInv'
  <1>1. idle \in Nat /\ resident \in Nat /\ (UNCHANGED <<resident, stage>> => CrewWithinBounds')
    BY DEF IInv, Shape, CrewWithinBounds, Closed
  <1>2. {"growing", "spawning", "claiming", "task", "top"} \subseteq Places
    BY DEF Places, Committed
  <1>3. CASE Commit(w)
    BY <1>1, <1>2, <1>3, PlacesCount, LoopPreserves DEF Commit, Change
  <1>4. CASE ConsiderGrowth(w)
    <2>1. \E q \in {"spawning", "claiming"} : At(w, q)
      BY <1>4 DEF ConsiderGrowth
    <2>2. QED
      BY <1>1, <1>2, <1>4, <2>1, PlacesCount, LoopPreserves DEF ConsiderGrowth, Change
  <1>5. CASE Claim(w)
    BY <1>1, <1>2, <1>5, PlacesCount, LoopPreserves DEF Claim, Change
  <1>6. CASE Finish(w)
    BY <1>1, <1>2, <1>6, PlacesCount, LoopPreserves DEF Finish, Change
  <1>7. QED
    BY <1>3, <1>4, <1>5, <1>6
\* A spawned goroutine counts at once, on both counters, and below the ceiling.
LEMMA SpawnPreserves ==
    ASSUME IInv, NEW w \in Workers, Spawn(w)
    PROVE  IInv'
  <1>1. /\ idle \in Nat /\ resident \in Nat /\ MinCrew \in Nat /\ MaxCrew \in Nat
        /\ pc \in [Workers -> Places]
    BY CrewAssumption, FS_Subset, FS_CardinalityType DEF MinCrew, IInv, Shape
  <1>2. {"claiming", "top"} \subseteq Places
    BY DEF Places, Committed
  <1>3. CASE ~MaySpawn
    BY <1>1, <1>2, <1>3, PlacesCount, LoopPreserves
    DEF Spawn, Change, IInv, CrewWithinBounds, Closed
  <1>4. CASE MaySpawn
    <2>1. PICK v \in Workers : pc[v] = "none" /\ pc' = [pc EXCEPT ![w] = "claiming", ![v] = "top"]
      BY <1>4 DEF Spawn
    <2>2. /\ pc[w] = "spawning" /\ w # v
          /\ resident' = resident + 1 /\ idle' = idle + 1 /\ resident < MaxCrew
          /\ sleepers' = sleepers /\ stage' = stage
      BY <1>4, <2>1 DEF Spawn, SpawnedIdle, MaySpawn
    <2> DEFINE mid == [pc EXCEPT ![w] = "claiming"]
    <2>3. /\ mid \in [Workers -> Places] /\ mid[v] = "none"
          /\ pc' = [mid EXCEPT ![v] = "top"]
      BY <1>1, <1>2, <2>1, <2>2
    <2>4. ASSUME NEW places
          PROVE  Cardinality(Outside(mid, places)) =
                     Cardinality(Outside(pc, places)) + Change(pc[w], "claiming", places)
      BY <1>1, OneMoves
    <2> HIDE DEF mid
    <2>5. ASSUME NEW places
          PROVE  Cardinality(Outside(pc', places)) =
                     Cardinality(Outside(mid, places)) + Change(mid[v], "top", places)
      BY <2>3, OneMoves
    <2>6. /\ Cardinality(Outside(mid, Busy)) = Cardinality(Outside(pc, Busy))
          /\ Cardinality(Outside(mid, Gone)) = Cardinality(Outside(pc, Gone))
      BY <1>1, <2>2, <2>4, PlacesCount, Counts DEF Change, IInv
    <2>7. /\ Cardinality(Outside(pc', Busy)) = idle + 1
          /\ Cardinality(Outside(pc', Gone)) = resident + 1
      BY <1>1, <2>3, <2>5, <2>6, PlacesCount, Counts DEF Change, IInv
    <2>8. CountersExact' /\ CrewWithinBounds'
      BY <1>1, <2>2, <2>7, Counts DEF IInv, CrewWithinBounds, Closed
    <2>9. pc' \in [Workers -> Places]
      BY <1>2, <2>3
    <2>10. SleepersSleep' /\ LeavingIsClosing'
      BY <1>1, <2>1, <2>2 DEF IInv, SleepersSleep, LeavingIsClosing, Closed
    <2>11. QED
      BY <1>1, <2>2, <2>8, <2>9, <2>10 DEF IInv, Shape
  <1>5. QED
    BY <1>3, <1>4

-----------------------------------------------------------------------------
\* Whatever the crew, the cache, the supply and Shutdown do, in whatever order,
\* the strengthened invariant stays.
LEMMA NextPreserves == IInv /\ [Next]_vars => IInv'
  <1> SUFFICES ASSUME IInv, [Next]_vars PROVE IInv'
    OBVIOUS
  <1>1. CASE \E w \in Workers : Loop(w) \/ Retire(w)
    BY <1>1, RetirePreserves, SearchPreserves, WorkPreserves, SpawnPreserves DEF Loop
  <1>2. ASSUME NEW s \in Shards, Supply(s) \/ SupplyNothing(s) \/ Signal(s) PROVE IInv'
    BY <1>2, QuietPreserves, WakePreserves DEF Supply, SupplyNothing, Signal
  <1>3. ASSUME NEW s \in Shards, NEW b \in Bands, Arrive(s, b) \/ Offer(s, b) \/ PeerClaims(s, b)
        PROVE  IInv'
    BY <1>3, QuietPreserves, WakePreserves DEF Arrive, Offer, PeerClaims
  <1>4. ASSUME NEW n \in Sizes, Resize(n) PROVE IInv'
    BY <1>4, QuietPreserves DEF Resize
  <1>5. CASE CloseCache \/ Shutdown
    BY <1>5, BroadcastPreserves, ClosingPreserves DEF Shutdown
  <1>6. CASE UNCHANGED vars
    BY <1>6, QuietPreserves DEF vars
  <1>7. QED
    BY <1>1, <1>2, <1>3, <1>4, <1>5, <1>6 DEF Next

\* The inductive invariant of the crew's loop.
THEOREM InductiveInvariant == Spec => []IInv
  BY InitEstablishes, NextPreserves, PTL DEF Spec

\* idle and resident count exactly the goroutines without a candidate and those
\* that have not given up their place (commitJob, considerGrowth, spawn,
\* maybeRetire and every exit), for every crew and every interleaving.
THEOREM CrewCountsExactly == Spec => []CountersExact
  <1>1. IInv => CountersExact
    BY DEF IInv
  <1>2. QED
    BY <1>1, InductiveInvariant, PTL

\* The crew neither falls below its floor, until Shutdown, nor grows beyond its
\* ceiling (spawn, maybeRetire), for every floor and every ceiling.
THEOREM CrewStaysWithinBounds == Spec => []CrewWithinBounds
  <1>1. IInv => CrewWithinBounds
    BY DEF IInv
  <1>2. QED
    BY <1>1, InductiveInvariant, PTL
=============================================================================
