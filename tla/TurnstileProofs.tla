-------------------------- MODULE TurnstileProofs --------------------------
(***************************************************************************)
(* The turnstile for any set of jobs, any claims and any ceilings: it      *)
(* conserves its passes, never leaves one idle, admits in order, and       *)
(* implements a semaphore.                                                 *)
(***************************************************************************)
EXTENDS Turnstile, FiniteSetTheorems, TLAPS

\* Where a job may be for what the turnstile has of it: a granted pass is not
\* yet taken, a taken one is the caller's, an entry on the heap is a waiter's.
Shape ==
    \A j \in Jobs :
        /\ granted[j] => pass[j] = "none" /\ j \notin queue /\ pc[j] \in {"waiting", "leaving"}
        /\ pass[j] = "issued" => pc[j] = "in"
        /\ j \in queue => pc[j] \in {"waiting", "leaving"}

IInv == TypeOK /\ PassesConserved /\ NoIdlePass /\ PlaceLostByCloseOnly /\ Shape

\* The jobs that hold a pass, taken or granted.
Holders(p, g) == {j \in Jobs : p[j] = "issued" \/ g[j]}

-----------------------------------------------------------------------------
(* Sets of holders *)

\* What a set of holders counts, and what one job more or less makes of it.
LEMMA HoldersCount ==
    ASSUME NEW p, NEW g
    PROVE  /\ IsFiniteSet(Holders(p, g))
           /\ Cardinality(Holders(p, g)) \in Nat
<1>1. Holders(p, g) \in SUBSET Jobs
  BY DEF Holders
<1> QED
  BY <1>1, JobsAssumption, FS_Subset, FS_CardinalityType

\* A grant, grantLocked: passes move from the pool to the waiters popped, one
\* each, and none is left over while a waiter remains.
LEMMA GrantMoves ==
    ASSUME TypeOK,
           NEW free \in Int, NEW grants \in [Jobs -> BOOLEAN],
           NEW p \in [Jobs -> {"none", "issued"}],
           \A j \in queue : ~grants[j] /\ p[j] = "none",
           Grant(free, grants)
    PROVE  /\ avail' \in Int
           /\ avail' + Cardinality(Holders(p, granted')) = free + Cardinality(Holders(p, grants))
           /\ queue' # {} => avail' <= 0
           /\ queue' \in SUBSET queue
           /\ granted' \in [Jobs -> BOOLEAN]
           /\ \A j \in Jobs : granted'[j] <=> grants[j] \/ j \in queue \ queue'
           /\ \A a \in queue \ queue', b \in queue' : Before(a, b)
           /\ queue' # queue => avail' >= 0
<1>1. PICK best \in SUBSET queue :
          /\ Cardinality(best) = Served(free, Cardinality(queue))
          /\ \A a \in best, b \in queue \ best : Before(a, b)
          /\ avail' = free - Cardinality(best)
          /\ queue' = queue \ best
          /\ granted' = [j \in Jobs |-> grants[j] \/ j \in best]
  BY DEF Grant
<1>2. queue \in SUBSET Jobs
  BY DEF TypeOK
<1>3. IsFiniteSet(queue) /\ Cardinality(queue) \in Nat
  BY <1>2, JobsAssumption, FS_Subset, FS_CardinalityType
<1>4. /\ IsFiniteSet(best)
      /\ Cardinality(best) \in Nat
      /\ Cardinality(best) = Cardinality(queue) => best = queue
  BY <1>3, FS_Subset, FS_CardinalityType
<1>5. queue' # {} => avail' <= 0
  <2>1. CASE free <= 0
    BY <2>1, <1>1, <1>4
  <2>2. CASE free > 0 /\ free < Cardinality(queue)
    BY <2>2, <1>1, <1>3, <1>4 DEF Served
  <2>3. CASE free > 0 /\ ~(free < Cardinality(queue))
    BY <2>3, <1>1, <1>3, <1>4 DEF Served
  <2> QED
    BY <2>1, <2>2, <2>3, <1>3
<1>6. queue' # queue => avail' >= 0
  <2>1. CASE free <= 0
    <3>1. Cardinality(best) = 0
      BY <2>1, <1>1 DEF Served
    <3>2. best = {}
      BY <3>1, <1>4, FS_EmptySet
    <3> QED
      BY <3>2, <1>1
  <2>2. CASE free > 0
    BY <2>2, <1>1, <1>3, <1>4 DEF Served
  <2> QED
    BY <2>1, <2>2
<1>7. Holders(p, granted') = Holders(p, grants) \cup best
  BY <1>1, <1>2 DEF Holders
<1>8. Holders(p, grants) \cap best = {}
  BY <1>1, <1>2 DEF Holders
<1>9. Cardinality(Holders(p, granted')) = Cardinality(Holders(p, grants)) + Cardinality(best)
  <2>1. IsFiniteSet(Holders(p, grants)) /\ Cardinality(Holders(p, grants)) \in Nat
    BY HoldersCount
  <2>2. Cardinality(Holders(p, grants) \cup best)
          = Cardinality(Holders(p, grants)) + Cardinality(best) - Cardinality(Holders(p, grants) \cap best)
    BY <2>1, <1>4, FS_Union
  <2>3. Cardinality(Holders(p, grants) \cap best) = 0
    BY <1>8, FS_EmptySet
  <2> QED
    BY <2>1, <2>2, <2>3, <1>4, <1>7
<1>10. Cardinality(Holders(p, grants)) \in Nat
  BY HoldersCount
<1>11. avail' \in Int /\ avail' + Cardinality(Holders(p, granted')) = free + Cardinality(Holders(p, grants))
  BY <1>1, <1>4, <1>9, <1>10
<1>12. queue \ queue' = best
  BY <1>1
<1>13. granted' \in [Jobs -> BOOLEAN] /\ \A j \in Jobs : granted'[j] <=> grants[j] \/ j \in queue \ queue'
  BY <1>1, <1>12
<1> QED
  BY <1>1, <1>5, <1>6, <1>11, <1>12, <1>13

-----------------------------------------------------------------------------
(* The inductive invariant *)

\* The invariant, with the holders under their names.
LEMMA HoldingIsHolders ==
    /\ Holding = Holders(pass, granted)
    /\ Holding' = Holders(pass', granted')
BY DEF Holding, Holders

\* One job leaving or joining the holders.
LEMMA HoldersLess ==
    ASSUME NEW p \in [Jobs -> {"none", "issued"}], NEW g \in [Jobs -> BOOLEAN],
           NEW q \in [Jobs -> {"none", "issued"}], NEW h \in [Jobs -> BOOLEAN],
           NEW j \in Jobs, p[j] = "issued" \/ g[j],
           q[j] = "none", ~h[j],
           \A k \in Jobs \ {j} : (p[k] = "issued" \/ g[k]) <=> (q[k] = "issued" \/ h[k])
    PROVE  Cardinality(Holders(p, g)) = Cardinality(Holders(q, h)) + 1
<1>1. Holders(q, h) = Holders(p, g) \ {j} /\ j \in Holders(p, g)
  BY DEF Holders
<1>2. IsFiniteSet(Holders(p, g)) /\ Cardinality(Holders(p, g)) \in Nat
  BY HoldersCount
<1>3. Cardinality(Holders(p, g) \ {j}) = Cardinality(Holders(p, g)) - 1
  BY <1>1, <1>2, FS_RemoveElement
<1> QED
  BY <1>1, <1>2, <1>3

\* The initial state satisfies the invariant.
LEMMA InitIInv == Init => IInv
<1> SUFFICES ASSUME Init PROVE IInv
  OBVIOUS
<1>0. TypeOK
  <2>1. size \in Nat /\ avail \in Int
    BY SizeAssumption DEF Init
  <2> QED
    BY <2>1 DEF Init, TypeOK
<1>1. NoIdlePass /\ PlaceLostByCloseOnly /\ Shape
  BY DEF Init, NoIdlePass, PlaceLostByCloseOnly, Shape
<1>2. Holding = {}
  BY DEF Init, Holding
<1>3. PassesConserved
  BY <1>2, SizeAssumption, FS_EmptySet DEF Init, PassesConserved
<1> QED
  BY <1>0, <1>1, <1>3 DEF IInv

\* A step that leaves the pool, the queue and the holders alone keeps the
\* passes conserved and none idle.
LEMMA NothingMoves ==
    ASSUME IInv, UNCHANGED <<avail, size>>, queue' \in SUBSET queue,
           Holders(pass', granted') = Holders(pass, granted)
    PROVE  PassesConserved' /\ NoIdlePass'
BY HoldingIsHolders DEF IInv, PassesConserved, NoIdlePass

\* A step that grants with n + 1 free passes what n and one holder had.
LEMMA Passed ==
    ASSUME IInv, UNCHANGED size,
           NEW free \in Int, NEW grants \in [Jobs -> BOOLEAN],
           pass' \in [Jobs -> {"none", "issued"}],
           \A k \in queue : ~grants[k] /\ pass'[k] = "none",
           free + Cardinality(Holders(pass', grants)) = size',
           Grant(free, grants)
    PROVE  PassesConserved' /\ NoIdlePass'
<1>1. TypeOK
  BY DEF IInv
<1>2. /\ avail' + Cardinality(Holders(pass', granted')) = free + Cardinality(Holders(pass', grants))
      /\ queue' # {} => avail' <= 0
  BY <1>1, GrantMoves
<1> QED
  BY <1>2, HoldingIsHolders DEF PassesConserved, NoIdlePass

\* A caller the closed turnstile lets through unordered.
LEMMA StepPassUnordered ==
    ASSUME IInv, NEW j \in Jobs, PassUnordered(j)
    PROVE  IInv'
<1>1. TypeOK' /\ PlaceLostByCloseOnly' /\ Shape'
  BY DEF IInv, TypeOK, PlaceLostByCloseOnly, Shape, PassUnordered, Proceed
<1>2. Holders(pass', granted') = Holders(pass, granted)
  BY DEF IInv, TypeOK, Shape, PassUnordered, Proceed, Holders
<1>3. PassesConserved' /\ NoIdlePass'
  BY <1>2, NothingMoves DEF PassUnordered
<1> QED
  BY <1>1, <1>3 DEF IInv

\* The fast path.
LEMMA StepTakeFree ==
    ASSUME IInv, NEW j \in Jobs, TakeFree(j)
    PROVE  IInv'
<1>1. TypeOK' /\ PlaceLostByCloseOnly' /\ Shape'
  BY DEF IInv, TypeOK, PlaceLostByCloseOnly, Shape, TakeFree, Proceed
<1>2. /\ pass' \in [Jobs -> {"none", "issued"}] /\ granted' \in [Jobs -> BOOLEAN]
      /\ pass \in [Jobs -> {"none", "issued"}] /\ granted \in [Jobs -> BOOLEAN]
      /\ pass'[j] = "issued" /\ pass[j] = "none" /\ ~granted[j]
      /\ \A k \in Jobs \ {j} : pass'[k] = pass[k]
      /\ granted' = granted
  BY DEF IInv, TypeOK, Shape, TakeFree, Proceed
<1>3. Cardinality(Holders(pass', granted')) = Cardinality(Holders(pass, granted)) + 1
  BY <1>2, HoldersLess
<1>4. Cardinality(Holders(pass, granted)) \in Nat
  BY HoldersCount
<1>5. PassesConserved'
  BY <1>3, <1>4, HoldingIsHolders DEF IInv, TypeOK, PassesConserved, TakeFree
<1>6. NoIdlePass'
  BY DEF NoIdlePass, TakeFree
<1> QED
  BY <1>1, <1>5, <1>6 DEF IInv

\* A caller queues: there is no free pass, or there already is a waiter, and
\* then none is free either.
LEMMA StepEnqueue ==
    ASSUME IInv, NEW j \in Jobs, Enqueue(j)
    PROVE  IInv'
<1>1. TypeOK' /\ PlaceLostByCloseOnly' /\ Shape'
  BY DEF IInv, TypeOK, PlaceLostByCloseOnly, Shape, Enqueue
<1>2. Holders(pass', granted') = Holders(pass, granted)
  BY DEF IInv, TypeOK, Shape, Enqueue, Holders
<1>3. PassesConserved'
  BY <1>2, HoldingIsHolders DEF IInv, PassesConserved, Enqueue
<1>4. NoIdlePass'
  BY DEF IInv, TypeOK, NoIdlePass, Enqueue
<1> QED
  BY <1>1, <1>3, <1>4 DEF IInv

\* A waiter takes the pass it was granted, or learns of the close.
LEMMA StepWake ==
    ASSUME IInv, NEW j \in Jobs, Wake(j)
    PROVE  IInv'
<1>1. TypeOK' /\ PlaceLostByCloseOnly' /\ Shape'
  BY DEF IInv, TypeOK, PlaceLostByCloseOnly, Shape, Wake, Proceed, PassOf
<1>2. Holders(pass', granted') = Holders(pass, granted)
  BY DEF IInv, TypeOK, Shape, Wake, Proceed, PassOf, Holders
<1>3. PassesConserved' /\ NoIdlePass'
  BY <1>2, NothingMoves DEF Wake
<1> QED
  BY <1>1, <1>3 DEF IInv

\* A deadline fires.
LEMMA StepExpire ==
    ASSUME IInv, NEW j \in Jobs, Expire(j)
    PROVE  IInv'
<1>1. TypeOK' /\ PlaceLostByCloseOnly' /\ Shape'
  BY DEF IInv, TypeOK, PlaceLostByCloseOnly, Shape, Expire
<1>2. Holders(pass', granted') = Holders(pass, granted)
  BY DEF Expire
<1>3. PassesConserved' /\ NoIdlePass'
  BY <1>2, NothingMoves DEF Expire
<1> QED
  BY <1>1, <1>3 DEF IInv

\* A caller gives up: its granted pass goes to the next, or its entry leaves.
LEMMA StepLeave ==
    ASSUME IInv, NEW j \in Jobs, Leave(j)
    PROVE  IInv'
<1>1. CASE granted[j]
  <2> DEFINE grants == [granted EXCEPT ![j] = FALSE]
  <2>1. /\ TypeOK /\ pass' = pass /\ size' = size
        /\ avail + 1 \in Int
        /\ grants \in [Jobs -> BOOLEAN]
        /\ pass \in [Jobs -> {"none", "issued"}]
        /\ \A k \in queue : ~grants[k] /\ pass[k] = "none"
        /\ Grant(avail + 1, grants)
    BY <1>1 DEF IInv, TypeOK, Shape, Leave, GiveUp, Proceed
  <2>2. /\ granted \in [Jobs -> BOOLEAN] /\ ~grants[j] /\ pass[j] = "none" /\ j \notin queue
        /\ \A k \in Jobs \ {j} : grants[k] = granted[k]
    BY <1>1 DEF IInv, TypeOK, Shape
  <2> HIDE DEF grants
  <2>3. Cardinality(Holders(pass, granted)) = Cardinality(Holders(pass, grants)) + 1
    BY <1>1, <2>1, <2>2, HoldersLess
  <2>4. /\ Cardinality(Holders(pass, granted)) \in Nat
        /\ Cardinality(Holders(pass, grants)) \in Nat
    BY HoldersCount
  <2>5. avail + Cardinality(Holders(pass, granted)) = size /\ avail \in Int
    BY HoldingIsHolders DEF IInv, TypeOK, PassesConserved
  <2>6. avail + 1 + Cardinality(Holders(pass', grants)) = size'
    BY <2>1, <2>3, <2>4, <2>5
  <2>7. PassesConserved' /\ NoIdlePass'
    BY <2>1, <2>6, Passed
  <2>8. /\ avail' \in Int
        /\ queue' \in SUBSET queue
        /\ granted' \in [Jobs -> BOOLEAN]
        /\ \A k \in Jobs : granted'[k] <=> grants[k] \/ k \in queue \ queue'
    BY <2>1, GrantMoves
  <2>9. TypeOK'
    BY <2>1, <2>8 DEF TypeOK, Leave, Proceed
  <2>10. Shape'
    <3> SUFFICES ASSUME NEW k \in Jobs
                 PROVE  /\ granted'[k] => /\ pass'[k] = "none" /\ k \notin queue'
                                          /\ pc'[k] \in {"waiting", "leaving"}
                        /\ pass'[k] = "issued" => pc'[k] = "in"
                        /\ k \in queue' => pc'[k] \in {"waiting", "leaving"}
      BY DEF Shape
    <3>1. pc' = [pc EXCEPT ![j] = "in"] /\ pc \in [Jobs -> {"out", "waiting", "leaving", "in"}]
      BY DEF IInv, TypeOK, Leave, Proceed
    <3>2. CASE k = j
      BY <3>1, <3>2, <2>1, <2>2, <2>8
    <3>3. CASE k # j
      BY <3>1, <3>3, <2>1, <2>2, <2>8 DEF IInv, Shape
    <3> QED
      BY <3>2, <3>3
  <2>11. PlaceLostByCloseOnly'
    BY <2>1, <2>2, <2>8 DEF IInv, TypeOK, PlaceLostByCloseOnly, Shape, Leave, Proceed
  <2> QED
    BY <2>7, <2>9, <2>10, <2>11 DEF IInv
<1>2. CASE ~granted[j]
  <2>1. queue' = queue \ {j} /\ UNCHANGED <<avail, granted, size>>
    BY <1>2 DEF Leave, GiveUp
  <2>2. TypeOK' /\ PlaceLostByCloseOnly' /\ Shape'
    <3>1. TypeOK'
      BY <2>1 DEF IInv, TypeOK, Leave, Proceed
    <3>2. PlaceLostByCloseOnly'
      BY <2>1 DEF IInv, TypeOK, PlaceLostByCloseOnly, Leave, Proceed
    <3>3. Shape'
      BY <1>2, <2>1 DEF IInv, TypeOK, Shape, Leave, Proceed
    <3> QED
      BY <3>1, <3>2, <3>3
  <2>3. Holders(pass', granted') = Holders(pass, granted)
    BY <2>1 DEF IInv, TypeOK, Shape, Leave, Proceed, Holders
  <2>4. PassesConserved' /\ NoIdlePass'
    BY <2>1, <2>3, NothingMoves
  <2> QED
    BY <2>2, <2>4 DEF IInv
<1> QED
  BY <1>1, <1>2

\* A job hands its pass back, and the best waiter gets it.
LEMMA StepReturn ==
    ASSUME IInv, NEW j \in Jobs, Return(j)
    PROVE  IInv'
<1>0. /\ TypeOK /\ size' = size
      /\ granted \in [Jobs -> BOOLEAN]
      /\ pass \in [Jobs -> {"none", "issued"}]
      /\ pass' \in [Jobs -> {"none", "issued"}]
      /\ pass'[j] = "none" /\ ~granted[j]
      /\ \A k \in Jobs \ {j} : pass'[k] = pass[k]
      /\ \A k \in queue : ~granted[k] /\ pass'[k] = "none"
      /\ avail \in Int /\ avail + 1 \in Int
  BY DEF IInv, TypeOK, Shape, Return
<1>1. deferred' \in [Jobs -> BOOLEAN] /\ pc' \in [Jobs -> {"out", "waiting", "leaving", "in"}]
  BY DEF IInv, TypeOK, Return
<1>2. CASE pass[j] = "none"
  <2>1. UNCHANGED <<avail, queue, granted>>
    BY <1>2 DEF Return, PutBack
  <2>2. pass' = pass
    BY <1>2 DEF IInv, TypeOK, Return
  <2>3. TypeOK'
    BY <1>0, <1>1, <2>1 DEF TypeOK, Return
  <2>4. PlaceLostByCloseOnly' /\ Shape'
    BY <2>1, <2>2 DEF IInv, TypeOK, PlaceLostByCloseOnly, Shape, Return
  <2>5. PassesConserved' /\ NoIdlePass'
    BY <1>0, <2>1, <2>2, NothingMoves
  <2> QED
    BY <2>3, <2>4, <2>5 DEF IInv
<1>3. CASE pass[j] = "issued"
  <2>1. Grant(avail + 1, granted)
    BY <1>3 DEF Return, PutBack
  <2>2. Cardinality(Holders(pass, granted)) = Cardinality(Holders(pass', granted)) + 1
    BY <1>0, <1>3, HoldersLess
  <2>3. /\ Cardinality(Holders(pass, granted)) \in Nat
        /\ Cardinality(Holders(pass', granted)) \in Nat
    BY HoldersCount
  <2>4. avail + Cardinality(Holders(pass, granted)) = size
    BY HoldingIsHolders DEF IInv, PassesConserved
  <2>5. avail + 1 + Cardinality(Holders(pass', granted)) = size'
    BY <1>0, <2>2, <2>3, <2>4
  <2>6. PassesConserved' /\ NoIdlePass'
    BY <1>0, <2>1, <2>5, Passed
  <2>7. /\ avail' \in Int
        /\ queue' \in SUBSET queue
        /\ granted' \in [Jobs -> BOOLEAN]
        /\ \A k \in Jobs : granted'[k] <=> granted[k] \/ k \in queue \ queue'
    BY <1>0, <2>1, GrantMoves
  <2>8. TypeOK'
    BY <1>0, <1>1, <2>7 DEF TypeOK, Return
  <2>9. Shape'
    BY <1>0, <2>7 DEF IInv, TypeOK, Shape, Return
  <2>10. PlaceLostByCloseOnly'
    BY <1>0, <2>7 DEF IInv, TypeOK, PlaceLostByCloseOnly, Return
  <2> QED
    BY <2>6, <2>8, <2>9, <2>10 DEF IInv
<1> QED
  BY <1>2, <1>3 DEF IInv, TypeOK

\* The second return of a pass moves nothing.
LEMMA StepReturnAgain ==
    ASSUME IInv, NEW j \in Jobs, ReturnAgain(j)
    PROVE  IInv'
<1>1. TypeOK' /\ PlaceLostByCloseOnly' /\ Shape'
  BY DEF IInv, TypeOK, PlaceLostByCloseOnly, Shape, ReturnAgain, PutBack
<1>2. Holders(pass', granted') = Holders(pass, granted)
  BY DEF ReturnAgain, PutBack
<1>3. PassesConserved' /\ NoIdlePass'
  BY <1>2, NothingMoves DEF ReturnAgain, PutBack
<1> QED
  BY <1>1, <1>3 DEF IInv

\* The ceiling moves, and the free passes by the difference.
LEMMA StepResize ==
    ASSUME IInv, NEW n \in 0..MaxSize, Resize(n)
    PROVE  IInv'
<1>1. /\ TypeOK
      /\ pass' = pass /\ pc' = pc /\ closed' = closed
      /\ granted \in [Jobs -> BOOLEAN]
      /\ pass \in [Jobs -> {"none", "issued"}]
      /\ \A k \in queue : ~granted[k] /\ pass[k] = "none"
  BY DEF IInv, TypeOK, Shape, Resize, jobVars
<1>2. n \in Nat /\ size' = n /\ size \in Nat /\ avail \in Int /\ Grant(avail + n - size, granted)
  BY SizeAssumption DEF IInv, TypeOK, Resize
<1>3. avail + n - size \in Int
  BY <1>2
<1>4. /\ avail' \in Int
      /\ avail' + Cardinality(Holders(pass, granted')) = avail + n - size + Cardinality(Holders(pass, granted))
      /\ queue' # {} => avail' <= 0
      /\ queue' \in SUBSET queue
      /\ granted' \in [Jobs -> BOOLEAN]
      /\ \A k \in Jobs : granted'[k] <=> granted[k] \/ k \in queue \ queue'
  BY <1>1, <1>2, <1>3, GrantMoves
<1>5. Cardinality(Holders(pass, granted)) \in Nat /\ Cardinality(Holders(pass, granted')) \in Nat
  BY HoldersCount
<1>6. avail + Cardinality(Holders(pass, granted)) = size
  BY HoldingIsHolders DEF IInv, PassesConserved
<1>7. avail' + Cardinality(Holders(pass, granted')) = n
  BY <1>2, <1>4, <1>5, <1>6
<1>8. PassesConserved'
  BY <1>1, <1>2, <1>7, HoldingIsHolders DEF PassesConserved
<1>9. NoIdlePass'
  BY <1>4 DEF NoIdlePass
<1>10. TypeOK'
  BY <1>1, <1>2, <1>4 DEF TypeOK, Resize, jobVars
<1>11. Shape' /\ PlaceLostByCloseOnly'
  BY <1>1, <1>4 DEF IInv, Shape, PlaceLostByCloseOnly
<1> QED
  BY <1>8, <1>9, <1>10, <1>11 DEF IInv

\* Every waiter is released, with nothing.
LEMMA StepClose ==
    ASSUME IInv, Close
    PROVE  IInv'
<1>1. TypeOK' /\ PlaceLostByCloseOnly' /\ Shape'
  BY DEF IInv, TypeOK, PlaceLostByCloseOnly, Shape, Close, ReleaseWaiters, jobVars
<1>2. Holders(pass', granted') = Holders(pass, granted)
  BY DEF Close, jobVars
<1>3. PassesConserved' /\ NoIdlePass'
  BY <1>2, NothingMoves DEF Close, ReleaseWaiters
<1> QED
  BY <1>1, <1>3 DEF IInv

\* Every step keeps the invariant.
LEMMA StepIInv == IInv /\ [Next]_vars => IInv'
<1> SUFFICES ASSUME IInv, [Next]_vars PROVE IInv'
  OBVIOUS
<1>1. CASE UNCHANGED vars
  <2>1. Holders(pass', granted') = Holders(pass, granted)
    BY <1>1 DEF vars
  <2>2. PassesConserved' /\ NoIdlePass'
    BY <1>1, <2>1, NothingMoves DEF vars
  <2> QED
    BY <1>1, <2>2 DEF IInv, TypeOK, PlaceLostByCloseOnly, Shape, vars
<1>2. ASSUME NEW j \in Jobs, JobStep(j) PROVE IInv'
  BY <1>2, StepPassUnordered, StepTakeFree, StepEnqueue, StepWake, StepExpire, StepLeave,
     StepReturn, StepReturnAgain DEF JobStep
<1>3. ASSUME NEW n \in 0..MaxSize, Resize(n) PROVE IInv'
  BY <1>3, StepResize
<1>4. CASE Close
  BY <1>4, StepClose
<1> QED
  BY <1>1, <1>2, <1>3, <1>4 DEF Next

\* The invariant holds throughout.
THEOREM Invariant == Spec => []IInv
BY InitIInv, StepIInv, PTL DEF Spec

\* The state keeps its shape, whatever the number of jobs and passes.
THEOREM TypeCorrect == Spec => []TypeOK
<1>1. IInv => TypeOK
  BY DEF IInv
<1> QED
  BY <1>1, Invariant, PTL

\* No pass is ever lost or minted: what is free and what is held, by a job or
\* by a waiter about to wake, add up to the ceiling of the moment.
THEOREM PassesAreConserved == Spec => []PassesConserved
<1>1. IInv => PassesConserved
  BY DEF IInv
<1> QED
  BY <1>1, Invariant, PTL

\* No pass is free while somebody waits: a grant always drains what it can.
THEOREM NoPassIsIdle == Spec => []NoIdlePass
<1>1. IInv => NoIdlePass
  BY DEF IInv
<1> QED
  BY <1>1, Invariant, PTL

\* An entry off the heap without a grant means exactly that Close got there
\* first, so an expired caller never removes an entry twice.
THEOREM OnlyCloseTakesAPlace == Spec => []PlaceLostByCloseOnly
<1>1. IInv => PlaceLostByCloseOnly
  BY DEF IInv
<1> QED
  BY <1>1, Invariant, PTL

-----------------------------------------------------------------------------
(* What each step does to the holders *)

\* A grant with the holders held hands passes to the waiters it pops, and only
\* while the ceiling allows.
Handed(held) ==
    /\ Holding' = held \cup (queue \ queue')
    /\ held \cap queue = {}
    /\ queue' # queue => avail' >= 0
    /\ \A a \in queue \ queue', b \in queue' : Before(a, b)

\* The cases of a step: the holders stay as they are, a job joins an empty
\* queue's head, a holder leaves and its pass is handed on, the ceiling moves.
LEMMA StepCases ==
    ASSUME IInv, IInv', [Next]_vars
    PROVE  \/ Holding' = Holding /\ size' = size
           \/ \E j \in Jobs \ Holding : /\ Holding' = Holding \cup {j} /\ size' = size
                                        /\ queue' = {} /\ avail' >= 0
           \/ \E j \in Holding : Handed(Holding \ {j}) /\ size' = size
           \/ Handed(Holding)
<1>0. /\ TypeOK
      /\ granted \in [Jobs -> BOOLEAN]
      /\ pass \in [Jobs -> {"none", "issued"}]
      /\ pass' \in [Jobs -> {"none", "issued"}]
      /\ queue \in SUBSET Jobs
      /\ \A k \in queue : ~granted[k] /\ pass[k] = "none"
      /\ avail \in Int /\ avail + 1 \in Int
  BY DEF IInv, TypeOK, Shape
<1>1. CASE UNCHANGED vars
  BY <1>1 DEF vars, Holding
<1>2. ASSUME NEW j \in Jobs, PassUnordered(j) \/ Enqueue(j) \/ Wake(j) \/ Expire(j) \/ ReturnAgain(j)
      PROVE  Holding' = Holding /\ size' = size
  <2>1. CASE PassUnordered(j)
    BY <2>1 DEF IInv, TypeOK, Shape, PassUnordered, Proceed, Holding
  <2>2. CASE Enqueue(j)
    BY <2>2 DEF IInv, TypeOK, Shape, Enqueue, Holding
  <2>3. CASE Wake(j)
    BY <2>3 DEF IInv, TypeOK, Shape, Wake, Proceed, PassOf, Holding
  <2>4. CASE Expire(j)
    BY <2>4 DEF Expire, Holding
  <2>5. CASE ReturnAgain(j)
    BY <2>5 DEF ReturnAgain, PutBack, Holding
  <2> QED
    BY <1>2, <2>1, <2>2, <2>3, <2>4, <2>5
<1>3. ASSUME NEW j \in Jobs, TakeFree(j)
      PROVE  /\ j \notin Holding /\ Holding' = Holding \cup {j} /\ size' = size
             /\ queue' = {} /\ avail' >= 0
  BY <1>3 DEF IInv, TypeOK, Shape, TakeFree, Proceed, Holding
<1>4. ASSUME NEW j \in Jobs, Leave(j), ~granted[j]
      PROVE  Holding' = Holding /\ size' = size
  BY <1>4 DEF IInv, TypeOK, Shape, Leave, GiveUp, Proceed, Holding
<1>5. ASSUME NEW j \in Jobs, Leave(j), granted[j]
      PROVE  j \in Holding /\ Handed(Holding \ {j}) /\ size' = size
  <2> DEFINE grants == [granted EXCEPT ![j] = FALSE]
  <2>1. /\ pass' = pass /\ size' = size /\ pass[j] = "none" /\ j \notin queue
        /\ grants \in [Jobs -> BOOLEAN]
        /\ ~grants[j]
        /\ \A k \in Jobs \ {j} : grants[k] = granted[k]
        /\ Grant(avail + 1, grants)
    BY <1>5 DEF IInv, TypeOK, Shape, Leave, GiveUp, Proceed
  <2> HIDE DEF grants
  <2>2. \A k \in queue : ~grants[k] /\ pass[k] = "none"
    BY <1>0, <2>1
  <2>3. /\ queue' \in SUBSET queue
        /\ \A k \in Jobs : granted'[k] <=> grants[k] \/ k \in queue \ queue'
        /\ \A a \in queue \ queue', b \in queue' : Before(a, b)
        /\ queue' # queue => avail' >= 0
    BY <1>0, <2>1, <2>2, GrantMoves
  <2>4. Holding' = (Holding \ {j}) \cup (queue \ queue')
    BY <1>0, <2>1, <2>3 DEF Holding
  <2>5. (Holding \ {j}) \cap queue = {}
    BY <1>0 DEF Holding
  <2> QED
    BY <1>5, <2>1, <2>3, <2>4, <2>5 DEF Handed, Holding
<1>6. ASSUME NEW j \in Jobs, Return(j), pass[j] = "none"
      PROVE  Holding' = Holding /\ size' = size
  BY <1>6 DEF IInv, TypeOK, Return, PutBack, Holding
<1>7. ASSUME NEW j \in Jobs, Return(j), pass[j] = "issued"
      PROVE  j \in Holding /\ Handed(Holding \ {j}) /\ size' = size
  <2>1. /\ size' = size /\ pass'[j] = "none" /\ ~granted[j] /\ j \notin queue
        /\ \A k \in Jobs \ {j} : pass'[k] = pass[k]
        /\ Grant(avail + 1, granted)
    BY <1>7 DEF IInv, TypeOK, Shape, Return, PutBack
  <2>2. /\ queue' \in SUBSET queue
        /\ \A k \in Jobs : granted'[k] <=> granted[k] \/ k \in queue \ queue'
        /\ \A a \in queue \ queue', b \in queue' : Before(a, b)
        /\ queue' # queue => avail' >= 0
    BY <1>0, <2>1, GrantMoves
  <2>3. Holding' = (Holding \ {j}) \cup (queue \ queue')
    BY <1>0, <2>1, <2>2 DEF Holding
  <2>4. (Holding \ {j}) \cap queue = {}
    BY <1>0 DEF Holding
  <2> QED
    BY <1>7, <2>1, <2>2, <2>3, <2>4 DEF Handed, Holding
<1>8. ASSUME NEW n \in 0..MaxSize, Resize(n)
      PROVE  Handed(Holding)
  <2>1. pass' = pass /\ Grant(avail + n - size, granted)
    BY <1>8 DEF Resize, jobVars
  <2>2. avail + n - size \in Int
    BY SizeAssumption DEF IInv, TypeOK
  <2>3. /\ queue' \in SUBSET queue
        /\ \A k \in Jobs : granted'[k] <=> granted[k] \/ k \in queue \ queue'
        /\ \A a \in queue \ queue', b \in queue' : Before(a, b)
        /\ queue' # queue => avail' >= 0
    BY <1>0, <2>1, <2>2, GrantMoves
  <2>4. Holding' = Holding \cup (queue \ queue') /\ Holding \cap queue = {}
    BY <1>0, <2>1, <2>3 DEF Holding
  <2> QED
    BY <2>3, <2>4 DEF Handed
<1>9. CASE Close
  BY <1>9 DEF Close, jobVars, Holding
<1>10. \A j \in Jobs : pass[j] = "none" \/ pass[j] = "issued"
  BY <1>0
<1>11. ASSUME NEW j \in Jobs, JobStep(j)
       PROVE  \/ Holding' = Holding /\ size' = size
              \/ \E k \in Jobs \ Holding : /\ Holding' = Holding \cup {k} /\ size' = size
                                           /\ queue' = {} /\ avail' >= 0
              \/ \E k \in Holding : Handed(Holding \ {k}) /\ size' = size
  BY <1>2, <1>3, <1>4, <1>5, <1>6, <1>7, <1>10, <1>11 DEF JobStep
<1> QED
  BY <1>1, <1>8, <1>9, <1>11 DEF Next

\* First in, first out over jobs: at every step whoever is admitted has a
\* better claim than everybody still waiting.
THEOREM AdmissionIsOrdered == Spec => AdmittedInOrder
<1>1. ASSUME IInv, IInv', [Next]_vars
      PROVE  [\A j \in Holding' \ Holding : \A k \in queue' :
                 Rank[j] < Rank[k] \/ (Rank[j] = Rank[k] /\ place[j] < place[k])]_vars
  BY <1>1, StepCases DEF Handed, Before
<1> QED
  BY <1>1, Invariant, PTL DEF Spec, AdmittedInOrder

-----------------------------------------------------------------------------
(* The refinement *)

\* The semaphore counts as the turnstile does.
LEMMA SameCount == \A S : Sem!Cardinality(S) = Cardinality(S)
BY DEF Sem!Cardinality, Cardinality

\* A grant admits within the ceiling of the moment.
LEMMA HandedAdmits ==
    ASSUME IInv, IInv', NEW held, Handed(held)
    PROVE  Sem!Admit(held)
<1>1. /\ queue \ queue' \in SUBSET (Jobs \ held)
      /\ Holding' = held \cup (queue \ queue')
  BY DEF IInv, TypeOK, Handed
<1>2. ASSUME queue \ queue' # {}
      PROVE  Cardinality(Holding') <= size'
  <2>1. avail' \in Int /\ avail' >= 0
    BY <1>2 DEF Handed, IInv, TypeOK
  <2>2. avail' + Cardinality(Holding') = size'
    BY DEF IInv, PassesConserved
  <2>3. Cardinality(Holding') \in Nat
    BY HoldingIsHolders, HoldersCount
  <2> QED
    BY <2>1, <2>2, <2>3
<1>3. \E come \in SUBSET (Jobs \ held) :
          /\ Holding' = held \cup come
          /\ come # {} => Cardinality(Holding') <= size'
  BY <1>1, <1>2
<1> QED
  BY <1>3, SameCount DEF Sem!Admit

\* Each step of the turnstile is a step of the semaphore, or changes neither
\* its holders nor its limit.
LEMMA StepIsSemaphoreStep ==
    ASSUME IInv, IInv', [Next]_vars
    PROVE  [Sem!Next]_<<Holding, size>>
<1>1. CASE Holding' = Holding /\ size' = size
  BY <1>1
<1>2. ASSUME NEW j \in Jobs \ Holding, Holding' = Holding \cup {j}, size' = size, avail' >= 0
      PROVE  Sem!Enter
  <2>1. avail' + Cardinality(Holding') = size' /\ avail' \in Int
    BY DEF IInv, PassesConserved, TypeOK
  <2>2. Cardinality(Holding') \in Nat
    BY HoldingIsHolders, HoldersCount
  <2>3. Cardinality(Holding') <= size'
    BY <1>2, <2>1, <2>2
  <2>4. {j} \in SUBSET (Jobs \ Holding)
    OBVIOUS
  <2>5. \E come \in SUBSET (Jobs \ Holding) :
            /\ Holding' = Holding \cup come
            /\ come # {} => Cardinality(Holding') <= size'
    BY <1>2, <2>3, <2>4
  <2> QED
    BY <1>2, <2>5, SameCount DEF Sem!Enter, Sem!Admit
<1>3. ASSUME NEW j \in Holding, Handed(Holding \ {j}), size' = size
      PROVE  j \in Jobs /\ Sem!Leave(j)
  <2>1. j \in Jobs
    BY DEF Holding
  <2> QED
    BY <1>3, <2>1, HandedAdmits DEF Sem!Leave
<1>4. ASSUME Handed(Holding)
      PROVE  Sem!Resize
  <2>1. size' \in Nat
    BY DEF IInv, TypeOK
  <2> QED
    BY <1>4, <2>1, HandedAdmits DEF Sem!Resize
<1> QED
  BY <1>1, <1>2, <1>3, <1>4, StepCases DEF Sem!Next

\* The turnstile implements the semaphore: whatever races, no step admits a
\* job beyond the ceiling of that moment, nor adds a holder without a pass.
THEOREM TurnstileIsSemaphore == Spec => IsSemaphore
<1>1. Init => Sem!Init
  BY SizeAssumption DEF Init, Holding, Sem!Init
<1>2. ASSUME IInv, IInv', [Next]_vars
      PROVE  [Sem!Next]_<<Holding, size>>
  BY <1>2, StepIsSemaphoreStep
<1> QED
  BY <1>1, <1>2, Invariant, PTL DEF Spec, IsSemaphore, Sem!Spec
=============================================================================
