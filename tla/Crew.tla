-------------------------------- MODULE Crew --------------------------------
(***************************************************************************)
(* How a due step finds a worker on one replica: the candidate cache with  *)
(* a partition per shard, the supply cycles that replace a partition, the  *)
(* doorbell that appends to one, and the crew of goroutines that sleep on  *)
(* the cache, take a permit, pop, grow and retire, until Shutdown drains   *)
(* them. What is done under one lock, or by one atomic, is one step.       *)
(*                                                                         *)
(* A candidate is a hint and stands for its priority band: the claim takes *)
(* a due step of that shard and band, if there still is one.               *)
(***************************************************************************)
EXTENDS Naturals, FiniteSets, Sequences, Functions

CONSTANTS
    Workers,       \* goroutines; one that has left may be spawned again
    Shards, Bands, \* numbers; the lower band is the better one
    Permits,       \* turns the gate has for each shard
    Residents,     \* the goroutines Start spawns; as many are never retired
    MaxCrew,
    Sizes,         \* the bounds Resize may set
    Backlog,       \* the steps due at Startup
    MaxEvents      \* bound: steps that fall due later, and resizes

ASSUME CrewAssumption ==
    /\ IsFiniteSet(Workers)
    /\ Shards \subseteq Nat /\ Bands \subseteq Nat \ {0}
    /\ Permits \in Nat /\ Residents \subseteq Workers
    /\ MaxCrew \in Cardinality(Residents)..Cardinality(Workers)
    /\ Sizes \subseteq Nat \ {0} /\ Sizes # {}
    /\ Backlog \in [Shards -> [Bands -> Nat]]
    /\ MaxEvents \in Nat

MinCrew == Cardinality(Residents)

VARIABLES
    due,        \* due steps of each shard and band
    events,
    items,      \* each partition: the bands of its candidates
    band,       \* the band a partition serves until its next refill; 0 if it is empty
    size,       \* the bound on the candidates of all partitions
    sleepers,   \* who waits on the cache's condition variable, oldest first
    signals,    \* wakes a shard's refill has still to send
    pc,         \* where a goroutine is in its loop
    hint,       \* the shard it peeked, 0 if none
    got,        \* the band of the candidate it popped, 0 if none
    idle, resident,
    stage       \* how far Shutdown has come

supplyVars == <<due, events>>
cacheVars == <<items, band, size>>
vars == <<supplyVars, cacheVars, sleepers, signals, pc, hint, got, idle, resident, stage>>

\* cache.Close, its broadcast, turnstiles.Close, Drain and its return.
Stages == <<"up", "closed", "told", "gated", "draining", "drained">>

Closed == stage # "up"
GateClosed == stage \in {"gated", "draining", "drained"}
SpawnClosed == stage \in {"draining", "drained"}

-----------------------------------------------------------------------------
(* The cache *)

Least(m, n) == IF m < n THEN m ELSE n
Depth(s) == Len(items[s])
TotalLen == SumFunction([s \in Shards |-> Depth(s)])

\* Whom Pop would drain: the best band, then the deepest, then the first.
BestPartition(s) ==
    /\ items[s] # <<>>
    /\ \A t \in Shards : items[t] # <<>> =>
          \/ band[s] < band[t]
          \/ band[s] = band[t] /\ Depth(s) > Depth(t)
          \/ band[s] = band[t] /\ Depth(s) = Depth(t) /\ s <= t

Waiting == Len(sleepers) + Cardinality({w \in Workers : pc[w] = "woken"})

\* Signal wakes whoever waits longest; with nobody waiting it is lost.
WakeOldest(asleep, at) == IF asleep = <<>> THEN at ELSE [at EXCEPT ![Head(asleep)] = "woken"]
Rest(asleep) == IF asleep = <<>> THEN asleep ELSE Tail(asleep)

\* The seeded fault of Refill: a batch wakes nobody.
WakesNone(n) == 0

\* One wake for each candidate, at most one for each waiter.
Wakes(n) == Least(n, Waiting)

\* Refill replaces the partition wholesale; its wakes follow outside the lock.
Refill(s, n, floor) ==
    /\ items' = [items EXCEPT ![s] = [i \in 1..n |-> floor]]
    /\ band' = [band EXCEPT ![s] = floor]
    /\ signals' = [signals EXCEPT ![s] = Wakes(n)]
    /\ UNCHANGED size

\* An empty partition admits whatever the bound; otherwise nothing worse than
\* the band it serves, and only into a free slot.
Admits(s, b) == items[s] = <<>> \/ (b <= band[s] /\ TotalLen < size)

\* What a partition keeps when the sum exceeds the bound n: its share by
\* depth, rounded by the largest remainder, the lower shard first.
Target(s, n) ==
    LET share == [t \in Shards |-> (Depth(t) * n) \div TotalLen]
        rest == [t \in Shards |-> (Depth(t) * n) % TotalLen]
        ahead == {t \in Shards : rest[t] > rest[s] \/ (rest[t] = rest[s] /\ t < s)}
    IN  share[s] + (IF Cardinality(ahead) < n - SumFunction(share) /\ share[s] < Depth(s)
                       THEN 1 ELSE 0)

Resize(n) ==
    /\ ~Closed /\ n # size
    /\ events < MaxEvents
    /\ events' = events + 1
    /\ size' = n
    /\ items' = IF TotalLen <= n THEN items
                ELSE [s \in Shards |-> SubSeq(items[s], 1, Target(s, n))]
    /\ band' = [s \in Shards |-> IF items'[s] = <<>> THEN 0 ELSE band[s]]
    /\ UNCHANGED <<due, sleepers, signals, pc, hint, got, idle, resident, stage>>

-----------------------------------------------------------------------------
(* The supply *)

\* The best band anybody has due, as the planner sees it.
GlobalBand(b) ==
    /\ \E s \in Shards : due[s][b] > 0
    /\ \A s \in Shards, c \in Bands : due[s][c] > 0 => b <= c

NothingDue == \A s \in Shards, b \in Bands : due[s][b] = 0

\* A supply cycle: a shard with work at the global band is filled with it.
Supply(s) ==
    /\ ~Closed /\ signals[s] = 0
    /\ \E b \in Bands :
          /\ GlobalBand(b) /\ due[s][b] > 0
          /\ \E n \in 1..Least(due[s][b], size) : Refill(s, n, b)
    /\ UNCHANGED <<supplyVars, sleepers, pc, hint, got, idle, resident, stage>>

\* Nothing to dispatch here: what is cached is dead.
SupplyNothing(s) ==
    /\ ~Closed /\ signals[s] = 0 /\ items[s] # <<>>
    /\ \A b \in Bands : GlobalBand(b) => due[s][b] = 0
    /\ Refill(s, 0, 0)
    /\ UNCHANGED <<supplyVars, sleepers, pc, hint, got, idle, resident, stage>>

Signal(s) ==
    /\ signals[s] > 0
    /\ signals' = [signals EXCEPT ![s] = @ - 1]
    /\ pc' = WakeOldest(sleepers, pc)
    /\ sleepers' = Rest(sleepers)
    /\ UNCHANGED <<supplyVars, cacheVars, hint, got, idle, resident, stage>>

\* A step falls due elsewhere, or here without its doorbell.
Arrive(s, b) ==
    /\ ~Closed
    /\ events < MaxEvents
    /\ events' = events + 1
    /\ due' = [due EXCEPT ![s][b] = @ + 1]
    /\ UNCHANGED <<cacheVars, sleepers, signals, pc, hint, got, idle, resident, stage>>

\* This replica made the step due and rings its own bell (enqueueStepDue).
Offer(s, b) ==
    /\ ~Closed
    /\ events < MaxEvents
    /\ events' = events + 1
    /\ due' = [due EXCEPT ![s][b] = @ + 1]
    /\ IF Admits(s, b)
          THEN /\ items' = [items EXCEPT ![s] = Append(@, b)]
               /\ band' = [band EXCEPT ![s] = IF items[s] = <<>> THEN b ELSE @]
               /\ pc' = WakeOldest(sleepers, pc)
               /\ sleepers' = Rest(sleepers)
          ELSE UNCHANGED <<items, band, pc, sleepers>>
    /\ UNCHANGED <<size, signals, hint, got, idle, resident, stage>>

\* A peer claims a step first.
PeerClaims(s, b) ==
    /\ ~Closed /\ due[s][b] > 0
    /\ due' = [due EXCEPT ![s][b] = @ - 1]
    /\ UNCHANGED <<events, cacheVars, sleepers, signals, pc, hint, got, idle, resident, stage>>

-----------------------------------------------------------------------------
(* A worker's loop *)

At(w, place) == pc' = [pc EXCEPT ![w] = place]

\* The seeded fault of retire: the floor itself may still go.
MayRetireLow == resident >= MinCrew

\* Checked under the lock that spawns, with the place given up in one.
MayRetire == resident > MinCrew

\* A worker that was idle for most of its window may retire, on a coin flip.
Retire(w) ==
    /\ pc[w] = "top" /\ MayRetire
    /\ resident' = resident - 1
    /\ At(w, "retiring")
    /\ UNCHANGED <<supplyVars, cacheVars, sleepers, signals, hint, got, idle, stage>>

\* Every exit gives up its place among the idle; retirement has already given
\* up the one among the residents.
Exit(w) ==
    /\ pc[w] \in {"retiring", "leaving"}
    /\ idle' = idle - 1
    /\ resident' = IF pc[w] = "leaving" THEN resident - 1 ELSE resident
    /\ At(w, "none")
    /\ UNCHANGED <<supplyVars, cacheVars, sleepers, signals, hint, got, stage>>

\* WaitForWork, and its loop for a worker that was woken.
WaitForWork(w) ==
    /\ pc[w] \in {"top", "woken"}
    /\ \/ /\ Closed
          /\ At(w, "leaving")
          /\ UNCHANGED <<sleepers, hint>>
       \/ /\ ~Closed /\ TotalLen = 0
          /\ At(w, "asleep")
          /\ sleepers' = Append(sleepers, w)
          /\ UNCHANGED hint
       \/ /\ ~Closed
          /\ \E s \in Shards : BestPartition(s) /\ hint' = [hint EXCEPT ![w] = s]
          /\ At(w, "gate")
          /\ UNCHANGED sleepers
    /\ UNCHANGED <<supplyVars, cacheVars, signals, got, idle, resident, stage>>

Committed == {"taken", "growing", "spawning", "claiming"}

\* The permits taken for a shard.
Held(s) == {w \in Workers : hint[w] = s /\ pc[w] \in {"popping"} \cup Committed}

\* The permit comes before the pop; a closed gate means stop.
Acquire(w) ==
    /\ pc[w] = "gate"
    /\ \/ /\ GateClosed
          /\ At(w, "leaving")
          /\ hint' = [hint EXCEPT ![w] = 0]
       \/ /\ ~GateClosed /\ Cardinality(Held(hint[w])) < Permits
          /\ At(w, "popping")
          /\ UNCHANGED hint
    /\ UNCHANGED <<supplyVars, cacheVars, sleepers, signals, got, idle, resident, stage>>

\* TryPopFrom on the shard that was peeked. A worker that lost the race gives
\* the permit back and starts over.
TryPopFrom(w) ==
    LET s == hint[w] IN
    /\ pc[w] = "popping"
    /\ IF Closed \/ items[s] = <<>>
          THEN /\ At(w, "top")
               /\ hint' = [hint EXCEPT ![w] = 0]
               /\ UNCHANGED <<items, band, got>>
          ELSE /\ got' = [got EXCEPT ![w] = Head(items[s])]
               /\ items' = [items EXCEPT ![s] = Tail(@)]
               /\ band' = [band EXCEPT ![s] = IF Depth(s) = 1 THEN 0 ELSE @]
               /\ At(w, "taken")
               /\ UNCHANGED hint
    /\ UNCHANGED <<supplyVars, size, sleepers, signals, idle, resident, stage>>

Commit(w) ==
    /\ pc[w] = "taken"
    /\ idle' = idle - 1
    /\ At(w, "growing")
    /\ UNCHANGED <<supplyVars, cacheVars, sleepers, signals, hint, got, resident, stage>>

\* considerGrowth reads the counter ...
ConsiderGrowth(w) ==
    /\ pc[w] = "growing"
    /\ At(w, IF idle = 0 THEN "spawning" ELSE "claiming")
    /\ UNCHANGED <<supplyVars, cacheVars, sleepers, signals, hint, got, idle, resident, stage>>

MaySpawn == ~SpawnClosed /\ resident < MaxCrew

\* The seeded fault of spawn: the goroutine counts itself idle when it parks.
SpawnedIdleLate == idle

SpawnedIdle == idle + 1

\* ... and spawn adds a goroutine under the lock, counted idle from the start.
Spawn(w) ==
    /\ pc[w] = "spawning"
    /\ \/ /\ MaySpawn
          /\ resident' = resident + 1
          /\ idle' = SpawnedIdle
          /\ \E v \in Workers :
                /\ pc[v] = "none"
                /\ pc' = [pc EXCEPT ![w] = "claiming", ![v] = "top"]
       \/ ~MaySpawn /\ At(w, "claiming") /\ UNCHANGED <<resident, idle>>
    /\ UNCHANGED <<supplyVars, cacheVars, sleepers, signals, hint, got, stage>>

\* The claim's compare-and-set: a stale hint claims nothing.
Claimed(n) == IF n = 0 THEN 0 ELSE n - 1

\* The handler claims a step if one is left, and gives the permit back.
Claim(w) ==
    /\ pc[w] = "claiming"
    /\ due' = [due EXCEPT ![hint[w]][got[w]] = Claimed(@)]
    /\ At(w, "task")
    /\ hint' = [hint EXCEPT ![w] = 0]
    /\ got' = [got EXCEPT ![w] = 0]
    /\ UNCHANGED <<events, cacheVars, sleepers, signals, idle, resident, stage>>

Finish(w) ==
    /\ pc[w] = "task"
    /\ idle' = idle + 1
    /\ At(w, "top")
    /\ UNCHANGED <<supplyVars, cacheVars, sleepers, signals, hint, got, resident, stage>>

-----------------------------------------------------------------------------
(* Shutdown *)

CloseCache ==
    /\ stage = "up"
    /\ stage' = "closed"
    /\ UNCHANGED <<supplyVars, cacheVars, sleepers, signals, pc, hint, got, idle, resident>>

\* The seeded fault of Close: one waiter is woken.
ToldOldest == Least(1, Len(sleepers))

\* How many of the waiters are woken, the oldest first: all of them.
Told == Len(sleepers)

Broadcast ==
    /\ stage = "closed"
    /\ stage' = "told"
    /\ pc' = [w \in Workers |-> IF \E i \in 1..Told : sleepers[i] = w THEN "woken" ELSE pc[w]]
    /\ sleepers' = SubSeq(sleepers, Told + 1, Len(sleepers))
    /\ UNCHANGED <<supplyVars, cacheVars, signals, hint, got, idle, resident>>

CloseGate ==
    /\ stage = "told"
    /\ stage' = "gated"
    /\ UNCHANGED <<supplyVars, cacheVars, sleepers, signals, pc, hint, got, idle, resident>>

Drain ==
    /\ stage = "gated"
    /\ stage' = "draining"
    /\ UNCHANGED <<supplyVars, cacheVars, sleepers, signals, pc, hint, got, idle, resident>>

\* The wait for the group ends.
Drained ==
    /\ stage = "draining" /\ \A w \in Workers : pc[w] = "none"
    /\ stage' = "drained"
    /\ UNCHANGED <<supplyVars, cacheVars, sleepers, signals, pc, hint, got, idle, resident>>

-----------------------------------------------------------------------------
Init ==
    /\ due = Backlog
    /\ events = 0
    /\ items = [s \in Shards |-> <<>>]
    /\ band = [s \in Shards |-> 0]
    /\ size \in Sizes /\ \A n \in Sizes : n <= size
    /\ sleepers = <<>>
    /\ signals = [s \in Shards |-> 0]
    /\ pc = [w \in Workers |-> IF w \in Residents THEN "top" ELSE "none"]
    /\ hint = [w \in Workers |-> 0]
    /\ got = [w \in Workers |-> 0]
    /\ idle = MinCrew
    /\ resident = MinCrew
    /\ stage = "up"

Loop(w) ==
    \/ Exit(w) \/ WaitForWork(w) \/ Acquire(w) \/ TryPopFrom(w)
    \/ Commit(w) \/ ConsiderGrowth(w) \/ Spawn(w) \/ Claim(w) \/ Finish(w)

Shutdown == Broadcast \/ CloseGate \/ Drain \/ Drained

Next ==
    \/ \E w \in Workers : Loop(w) \/ Retire(w)
    \/ \E s \in Shards : Supply(s) \/ SupplyNothing(s) \/ Signal(s)
    \/ \E s \in Shards, b \in Bands : Arrive(s, b) \/ Offer(s, b) \/ PeerClaims(s, b)
    \/ \E n \in Sizes : Resize(n)
    \/ CloseCache \/ Shutdown

Spec == Init /\ [][Next]_vars

\* Goroutines run on and handlers return, every shard's supply goes round and
\* sends its wakes, and a Shutdown that began goes through.
Fairness ==
    /\ \A w \in Workers : WF_vars(Loop(w))
    /\ \A s \in Shards : WF_vars(Supply(s)) /\ WF_vars(Signal(s))
    /\ WF_vars(Shutdown)

FairSpec == Spec /\ Fairness

-----------------------------------------------------------------------------
(* Properties *)

Places == {"none", "top", "asleep", "woken", "gate", "popping", "task", "retiring", "leaving"}
              \cup Committed

\* Every variable keeps its shape; due never falls below zero, because a claim
\* of a stale hint claims nothing.
TypeOK ==
    /\ due \in [Shards -> [Bands -> Nat]] /\ events \in 0..MaxEvents
    /\ items \in [Shards -> Seq(Bands)] /\ band \in [Shards -> {0} \cup Bands]
    /\ size \in Sizes
    /\ sleepers \in Seq(Workers) /\ signals \in [Shards -> Nat]
    /\ pc \in [Workers -> Places] /\ hint \in [Workers -> {0} \cup Shards]
    /\ got \in [Workers -> {0} \cup Bands]
    /\ idle \in Nat /\ resident \in Nat
    /\ stage \in Range(Stages)

\* idle counts exactly the goroutines that hold no candidate, and resident
\* those that have not given up their place: the two numbers growth and
\* retirement decide by, kept by every goroutine for itself.
CountersExact ==
    /\ idle = Cardinality({w \in Workers : pc[w] \notin {"none", "task"} \cup (Committed \ {"taken"})})
    /\ resident = Cardinality({w \in Workers : pc[w] \notin {"none", "retiring"}})

\* Many workers reach the same verdict at once, and yet the crew neither
\* falls below its floor, until Shutdown, nor grows beyond its ceiling.
CrewWithinBounds == resident <= MaxCrew /\ (~Closed => resident >= MinCrew)

\* No due step is hidden for ever: whoever sleeps through a wake, loses the pop
\* to a peer or retires, the backlog drains while the replica is up.
DueIsClaimed == (~NothingDue) ~> (NothingDue \/ Closed)

\* drainRuntime: "BOTH closes are required". With them every goroutine, asleep,
\* at the gate, mid-task or just spawned, comes home and Drain returns.
ShutdownDrains == Closed ~> stage = "drained"
=============================================================================
