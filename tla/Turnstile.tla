----------------------------- MODULE Turnstile -----------------------------
(***************************************************************************)
(* The turnstile in front of a shard's connections: a bounded number of    *)
(* passes, handed to the waiting job with the best claim. WaitTurn, the    *)
(* deadline that races a grant or a close, Return, Resize and Close, each  *)
(* cut at the turnstile's mutex: what happens under one lock is one step.  *)
(*                                                                         *)
(* A job takes its turns one after the other, all with the same claim. A   *)
(* job that gets no pass (closed, expired) goes on unordered.              *)
(***************************************************************************)
EXTENDS Integers, FiniteSets

CONSTANTS
    Jobs,      \* the callers
    Rank,      \* a job's claim (band, age and job number) as a place in one order
    MaxSize,   \* bound: the ceilings Resize may set
    MaxTurns   \* bound: turns that queue, over all jobs

ASSUME JobsAssumption == IsFiniteSet(Jobs)
ASSUME RankAssumption == Rank \in [Jobs -> Nat]
ASSUME SizeAssumption == MaxSize \in Nat
ASSUME TurnsAssumption == MaxTurns \in Nat

VARIABLES
    avail,     \* free passes; negative after a Resize below what is held
    size,      \* the ceiling
    arrival,   \* how many callers have queued
    queue,     \* the jobs whose entry is on the heap
    place,     \* the arrival number of a job's entry
    granted,   \* the entry's grant: the pass was handed over
    closed,
    pc,        \* where each job is in WaitTurn
    pass,      \* the pass the job holds: "issued", or the zero Pass
    deferred   \* a pass it returned will be returned once more on the way out

vars == <<avail, size, arrival, queue, place, granted, closed, pc, pass, deferred>>
jobVars == <<arrival, place, pc, pass, deferred>>

-----------------------------------------------------------------------------
(* The heap *)

\* Band, age and job number first; the order of arrival between equals.
Before(a, b) == Rank[a] < Rank[b] \/ (Rank[a] = Rank[b] /\ place[a] < place[b])

\* How many of n waiters a grant serves with this many free passes.
Served(free, n) == IF free <= 0 THEN 0 ELSE IF free < n THEN free ELSE n

\* grantLocked: the free passes go to the best waiters, and are theirs from
\* this moment on.
Grant(free, grants) ==
    \E best \in SUBSET queue :
        /\ Cardinality(best) = Served(free, Cardinality(queue))
        /\ \A a \in best, b \in queue \ best : Before(a, b)
        /\ avail' = free - Cardinality(best)
        /\ queue' = queue \ best
        /\ granted' = [j \in Jobs |-> grants[j] \/ j \in best]

\* The seeded fault: a pass is put back as often as it is returned.
PutBackAlways(returned) == Grant(avail + 1, granted)

\* releaseLocked, unless the token says that this pass was returned before.
PutBack(returned) ==
    IF returned THEN UNCHANGED <<avail, queue, granted>> ELSE Grant(avail + 1, granted)

-----------------------------------------------------------------------------
(* Taking a turn *)

\* The job proceeds, with the pass it was given or without one.
Proceed(j, p) ==
    /\ pc' = [pc EXCEPT ![j] = "in"]
    /\ pass' = [pass EXCEPT ![j] = p]

\* A closed turnstile gives the zero Pass.
PassUnordered(j) ==
    /\ pc[j] = "out" /\ closed
    /\ Proceed(j, "none")
    /\ UNCHANGED <<avail, size, arrival, queue, place, granted, closed, deferred>>

\* The fast path: a free pass and nobody ahead.
TakeFree(j) ==
    /\ pc[j] = "out" /\ ~closed
    /\ avail > 0 /\ queue = {}
    /\ avail' = avail - 1
    /\ Proceed(j, "issued")
    /\ UNCHANGED <<size, arrival, queue, place, granted, closed, deferred>>

\* Otherwise the caller queues and waits on its channel and its deadline.
Enqueue(j) ==
    /\ pc[j] = "out" /\ ~closed
    /\ ~(avail > 0 /\ queue = {})
    /\ arrival < MaxTurns
    /\ arrival' = arrival + 1
    /\ queue' = queue \cup {j}
    /\ place' = [place EXCEPT ![j] = arrival]
    /\ granted' = [granted EXCEPT ![j] = FALSE]
    /\ pc' = [pc EXCEPT ![j] = "waiting"]
    /\ UNCHANGED <<avail, size, closed, pass, deferred>>

PassOf(j) == IF granted[j] THEN "issued" ELSE "none"

\* The channel was closed: by a grant, or empty-handed by Close.
Wake(j) ==
    /\ pc[j] = "waiting" /\ j \notin queue
    /\ Proceed(j, PassOf(j))
    /\ granted' = [granted EXCEPT ![j] = FALSE]
    /\ UNCHANGED <<avail, size, arrival, queue, place, closed, deferred>>

\* The caller's deadline fires, before or after the channel; it has yet to
\* take the lock.
Expire(j) ==
    /\ pc[j] = "waiting"
    /\ pc' = [pc EXCEPT ![j] = "leaving"]
    /\ UNCHANGED <<avail, size, arrival, queue, place, granted, closed, pass, deferred>>

\* The seeded fault: a pass that was handed over in between is abandoned.
GiveUpAbandoning(j) ==
    /\ queue' = queue \ {j}
    /\ granted' = [granted EXCEPT ![j] = FALSE]
    /\ UNCHANGED avail

\* Under the lock: a pass handed over in between is passed on; otherwise the
\* entry leaves the heap, unless Close was there first.
GiveUp(j) ==
    IF granted[j] THEN Grant(avail + 1, [granted EXCEPT ![j] = FALSE])
                  ELSE queue' = queue \ {j} /\ UNCHANGED <<avail, granted>>

Leave(j) ==
    /\ pc[j] = "leaving"
    /\ GiveUp(j)
    /\ Proceed(j, "none")
    /\ UNCHANGED <<size, arrival, place, closed, deferred>>

\* The job hands its pass back; returning the zero Pass is a no-op. A call
\* site that returned early will return the same pass again on its way out.
Return(j) ==
    /\ pc[j] = "in"
    /\ PutBack(pass[j] = "none")
    /\ \E again \in BOOLEAN : deferred' = [deferred EXCEPT ![j] = again]
    /\ pc' = [pc EXCEPT ![j] = "out"]
    /\ pass' = [pass EXCEPT ![j] = "none"]
    /\ UNCHANGED <<size, arrival, place, closed>>

\* The second return of a pass, possibly while the job holds a later one.
ReturnAgain(j) ==
    /\ deferred[j]
    /\ PutBack(TRUE)
    /\ deferred' = [deferred EXCEPT ![j] = FALSE]
    /\ UNCHANGED <<size, arrival, place, closed, pc, pass>>

-----------------------------------------------------------------------------
(* The owner *)

\* Resize moves the free passes by the difference. A closed set ignores it.
Resize(n) ==
    /\ ~closed /\ n # size
    /\ size' = n
    /\ Grant(avail + n - size, granted)
    /\ UNCHANGED <<jobVars, closed>>

\* The seeded fault: Close stops admission and forgets who is waiting.
ReleaseWaitersNone == UNCHANGED queue

\* Every waiter's channel is closed, its entry off the heap and ungranted.
ReleaseWaiters == queue' = {}

Close ==
    /\ ~closed
    /\ closed' = TRUE
    /\ ReleaseWaiters
    /\ UNCHANGED <<avail, size, granted, jobVars>>

-----------------------------------------------------------------------------
Init ==
    /\ size \in 0..MaxSize
    /\ avail = size
    /\ arrival = 0
    /\ queue = {}
    /\ place = [j \in Jobs |-> 0]
    /\ granted = [j \in Jobs |-> FALSE]
    /\ closed = FALSE
    /\ pc = [j \in Jobs |-> "out"]
    /\ pass = [j \in Jobs |-> "none"]
    /\ deferred = [j \in Jobs |-> FALSE]

JobStep(j) ==
    \/ PassUnordered(j)
    \/ TakeFree(j)
    \/ Enqueue(j)
    \/ Wake(j)
    \/ Expire(j)
    \/ Leave(j)
    \/ Return(j)
    \/ ReturnAgain(j)

Next ==
    \/ \E j \in Jobs : JobStep(j)
    \/ \E n \in 0..MaxSize : Resize(n)
    \/ Close

Spec == Init /\ [][Next]_vars

\* Goroutines run on: a woken or expired caller proceeds, and a job returns
\* the pass it holds. Nobody has to come back, resize or close.
Fairness == \A j \in Jobs : WF_vars(Wake(j) \/ Leave(j) \/ Return(j))

FairSpec == Spec /\ Fairness

-----------------------------------------------------------------------------
(* Properties *)

\* The turnstile and its callers keep the shape the code gives them.
TypeOK ==
    /\ avail \in Int
    /\ size \in Nat
    /\ arrival \in Nat
    /\ queue \in SUBSET Jobs
    /\ place \in [Jobs -> Nat]
    /\ granted \in [Jobs -> BOOLEAN]
    /\ closed \in BOOLEAN
    /\ pc \in [Jobs -> {"out", "waiting", "leaving", "in"}]
    /\ pass \in [Jobs -> {"none", "issued"}]
    /\ deferred \in [Jobs -> BOOLEAN]

\* A pass is the job's from the moment it is granted, awake or not.
Holding == {j \in Jobs : pass[j] = "issued" \/ granted[j]}

Sem == INSTANCE Semaphore WITH holders <- Holding, limit <- size

\* The turnstile is a semaphore: no step, not a grant to several waiters on a
\* Resize nor a pass handed on by a caller that gave up, admits a job beyond
\* the ceiling of that moment.
IsSemaphore == Sem!Spec

\* No pass is lost or minted, whatever deadline races whatever grant, return,
\* resize or close: "an abandoned pass is one the turnstile never issues
\* again", and a second return must not inflate the ceiling.
PassesConserved == avail + Cardinality(Holding) = size

\* No pass lies idle while somebody waits, so the fast path overtakes nobody.
NoIdlePass == queue # {} => avail <= 0

\* A waiter that lost its place without a grant was released by Close; else
\* removing it again would index the heap at -1.
PlaceLostByCloseOnly ==
    \A j \in Jobs : pc[j] \in {"waiting", "leaving"} /\ ~granted[j] /\ j \notin queue => closed

\* First in, first out over jobs, not over calls: whoever is admitted has the
\* best claim of all who wait.
AdmittedInOrder ==
    [][\A j \in Holding' \ Holding : \A k \in queue' :
          Rank[j] < Rank[k] \/ (Rank[j] = Rank[k] /\ place[j] < place[k])]_vars

\* No wakeup is lost: who waits is served while the ceiling is not zero, and
\* "Close releases every waiter" whatever the ceiling.
EveryWaiterServed ==
    \A j \in Jobs : (pc[j] = "waiting" /\ (closed \/ size > 0))
                      ~> (pc[j] # "waiting" \/ (size = 0 /\ ~closed))
=============================================================================
