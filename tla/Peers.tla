------------------------------- MODULE Peers -------------------------------
(***************************************************************************)
(* The peer registry of one shard and what the replicas derive from it:    *)
(* internal/peers (Sonar, classify), engine/peers.go (join, withdraw,      *)
(* leave, reconcile), engine/poolsize.go (dispatcher slots, pool shares)   *)
(* and the registry's part of Startup and drainRuntime in engine.go.       *)
(*                                                                         *)
(* Every replica announces itself with a row of dwarf_peers, refreshes it, *)
(* reads the others' rows and decides alone, from that reading, whether it *)
(* dispatches the shard and which share of the shard's connection budget   *)
(* it may hold.  No replica is ever told what another one decided.         *)
(*                                                                         *)
(* Time is counted in scans (sonar.go's read cadence); an age stops at the *)
(* first value past the largest window it is compared with.  A pass is two *)
(* steps, since peers write between its statements: the beat and the       *)
(* reading with what it publishes, then the repair and the prune that the  *)
(* reading called for.  The dispatch evidence on the row and the residue   *)
(* classes read from it are left to Supply, which lets every replica have  *)
(* any view of them.                                                       *)
(***************************************************************************)
EXTENDS Integers, FiniteSets, FiniteSetsExt

CONSTANTS
    Engines,      \* engine ids; a restarted process comes back under a new one
    Score,        \* rendezvousScore of an engine on this shard
    Settled,      \* the engines that run, and have read each other, in the initial state
    NoWorkers,    \* the engines configured with zero workers
    Beat,         \* beatInterval, in scans
    Fresh,        \* freshWindow
    Straggler,    \* stragglerAge
    PruneAfter,   \* pruneHealthyFor
    Paces,        \* the scans that may go by between two passes of each engine, at most
    MaxLag,       \* bound: the scans a reading may wait to be applied, or a timer to be served
    Cuts,         \* the sets of engines an outage may cut off from the registry
    MaxEvents,    \* bound: crashes, outages and shutdowns
    Budget,       \* shardBudget: the connections the shard can serve
    Want          \* dispatcherSlots' want: the dispatchers the budget can feed

ASSUME EnginesAssumption ==
    /\ Engines \subseteq Nat /\ IsFiniteSet(Engines) /\ NoWorkers \subseteq Engines
    /\ Settled \subseteq Engines
    /\ Score \in [Engines -> Nat] /\ Paces \subseteq [Engines -> Nat \ {0}]

ASSUME WindowsAssumption ==
    /\ {Beat, Fresh, Straggler, PruneAfter, Budget} \subseteq Nat \ {0}
    /\ Beat < Fresh /\ Fresh < Straggler
    /\ Cuts \subseteq SUBSET Engines /\ {MaxLag, MaxEvents, Want} \subseteq Nat

VARIABLES
    row,      \* dwarf_peers: per engine the row, or NoRow
    phase,    \* where each process is between Startup and the end of drainRuntime
    pass,     \* the Sonar's loop: what it does next and what the reading called for
    sonar,    \* the Sonar's clocks and its last raw reading
    seen,     \* the standing the Sonar publishes
    slots,    \* lastAppliedSlots; zero is a reader
    cut,      \* the engines whose statements on the registry fail
    late,     \* scans that the reconcile loop has not applied what the Sonar publishes,
              \* or that a drain has lasted
    age,      \* history: scans since the engine announced itself, up to Settling
    pace,     \* scans between two passes, at most: one, or more where the database is slow
    events,   \* crashes, outages and shutdowns so far
    outages   \* outages so far

vars == <<row, phase, pass, sonar, seen, slots, late, age, cut, pace, events, outages>>

NoRow == [seen |-> -1]

Down == "down"
Joining == "joining"
Up == "up"
Draining == "draining"
Withdrawn == "withdrawn"
Gone == "gone"
Crashed == "crashed"

\* The Sonar of an engine is alive: Join's or Run's.
Alive(e) == phase[e] \in {Joining, Up, Draining, Withdrawn}

\* Profile.Working: set by buildSonars, cleared by Withdraw.
Working(e) == e \notin NoWorkers /\ phase[e] # Withdrawn

\* By this age every replica that keeps its row fresh has read the engine and
\* applied what it read, or is no longer counted among the dispatchers.
Settling == Fresh + 2 * MaxLag + 1

Ages(w) == 0 .. w + 1
Older(scans, w) == IF scans > w THEN scans ELSE scans + 1

-----------------------------------------------------------------------------
(* policy.go *)

\* The seeded fault: a window that leaves a late beat no slack.
IsFreshToBeat(rows, p) == rows[p] # NoRow /\ rows[p].seen <= Beat

\* classify, over the rows of one reading.
IsFresh(rows, p) == rows[p] # NoRow /\ rows[p].seen <= Fresh

Outranks(a, b) == IF Score[a] # Score[b] THEN Score[a] > Score[b] ELSE a < b

\* The fresh rows that are flagged as running steps.
Ranked(rows) == {p \in Engines : IsFresh(rows, p) /\ rows[p].working}

\* A replica whose own row is not fresh still counts itself as a candidate.
Standing(rows, e) ==
    [rank |-> Cardinality({p \in Ranked(rows) \ {e} : Outranks(p, e)}),
     candidates |-> Cardinality(Ranked(rows))
                    + (IF ~IsFresh(rows, e) /\ Working(e) THEN 1 ELSE 0)]

\* The rows of others that are old enough to be deleted.
Dead(rows, e) == {p \in Engines \ {e} : rows[p] # NoRow /\ rows[p].seen > Straggler}

-----------------------------------------------------------------------------
(* poolsize.go *)

DispatcherSlots(n) ==
    LET r == IF n < 1 THEN 1 ELSE n
        two == IF r < 2 THEN r ELSE 2
        most == IF Want > two THEN Want ELSE two
    IN  IF r < most THEN r ELSE most

\* slotsOn: how many replicas share the shard, or zero when this one has no slot.
SlotsOn(e) ==
    IF e \in NoWorkers THEN 0
    ELSE LET n == DispatcherSlots(seen[e].candidates)
         IN  IF seen[e].rank >= n THEN 0 ELSE n

ReaderConns == 2
RoundDiv(a, b) == (2 * a + b) \div (2 * b)

\* shardPool: a reader keeps two connections, a dispatcher its share of the budget.
PoolOf(n) == IF n = 0 THEN ReaderConns
             ELSE IF RoundDiv(Budget, n) > 2 THEN RoundDiv(Budget, n) ELSE 2

-----------------------------------------------------------------------------
(* sonar.go *)

\* blind: the last good reading is more than two scans old.
Blind(e) == sonar[e].good > 2

\* The seeded fault: the repair writes the flag the engine was built with.
RegisteredAsBuilt(e) == [seen |-> 0, working |-> e \notin NoWorkers]

\* register: refresh the row or insert it, with the flag of the profile of now.
Registered(e) == [seen |-> 0, working |-> Working(e)]

\* publishBeat when one is due; it never creates a row.
Beaten(e) ==
    IF sonar[e].beatIn > 0 \/ e \in cut \/ row[e] = NoRow THEN row
    ELSE [row EXCEPT ![e].seen = 0]

\* The seeded fault: held against what was published, which late readings can only raise.
PublishedRatchet(e, raw) ==
    IF Blind(e) THEN [rank |-> Max({raw.rank, seen[e].rank}),
                      candidates |-> Max({raw.candidates, seen[e].candidates})]
    ELSE raw

\* What a good reading publishes.  A reading that ends a gap believes a rise at
\* once and a fall only when the reading before it agrees.
Published(e, raw) ==
    IF Blind(e) THEN [rank |-> Max({raw.rank, sonar[e].raw.rank}),
                      candidates |-> Max({raw.candidates, sonar[e].raw.candidates})]
    ELSE raw

\* Where a pass returns to: Join's caller or Run's sleep.
Rest(e) == IF phase[e] = Joining THEN "joined" ELSE "sleep"

\* What is left to do at the end of the pass, from what the reading found.
Found(e, healthy) ==
    LET dead == IF healthy >= PruneAfter THEN Dead(row, e) ELSE {}
        idle == row[e] # NoRow /\ dead = {}
    IN  [at |-> IF idle THEN Rest(e) ELSE "mend", repair |-> row[e] = NoRow, dead |-> dead]

\* pass: the beat, with its bookkeeping whether or not the write succeeded, then
\* read and observe.  A failed reading publishes nothing.
Pass(e) ==
    /\ Alive(e) /\ pass[e].at = "sleep" /\ sonar[e].next <= 0
    /\ row' = Beaten(e)
    /\ LET beatIn == IF sonar[e].beatIn > 0 THEN sonar[e].beatIn ELSE Beat
           raw == Standing(Beaten(e), e)
           healthy == IF Blind(e) \/ sonar[e].healthy < 0 THEN 0 ELSE sonar[e].healthy
       IN  \/ /\ e \in cut
              /\ sonar' = [sonar EXCEPT ![e] = [@ EXCEPT !.next = 1, !.beatIn = beatIn]]
              /\ pass' = [pass EXCEPT ![e].at = Rest(e)]
              /\ UNCHANGED seen
           \/ /\ e \notin cut
              /\ sonar' = [sonar EXCEPT ![e] = [@ EXCEPT !.next = 1, !.beatIn = beatIn,
                                                   !.good = 0, !.healthy = healthy, !.raw = raw]]
              /\ pass' = [pass EXCEPT ![e] = Found(e, healthy)]
              /\ seen' = [seen EXCEPT ![e] = Published(e, raw)]
    /\ UNCHANGED <<phase, slots, late, age, cut, pace, events, outages>>

\* The end of the pass: re-register a missing row, delete the stragglers that
\* the reading found.  The delete names ids and does not look at their age again.
Mend(e) ==
    /\ Alive(e) /\ pass[e].at = "mend"
    /\ row' = IF e \in cut THEN row
              ELSE [p \in Engines |->
                      IF p = e /\ pass[e].repair THEN Registered(e)
                      ELSE IF p \in pass[e].dead THEN NoRow ELSE row[p]]
    /\ pass' = [pass EXCEPT ![e] = [at |-> Rest(e), repair |-> FALSE, dead |-> {}]]
    /\ UNCHANGED <<phase, sonar, seen, slots, late, age, cut, pace, events, outages>>

-----------------------------------------------------------------------------
(* engine.go and engine/peers.go *)

AtRest == [at |-> "sleep", repair |-> FALSE, dead |-> {}]
\* The seeded fault: Join reads as soon as it has announced itself.
FreshSonarHasty == [next |-> 0, beatIn |-> 0, good |-> 0,
                    healthy |-> -1, raw |-> [rank |-> 0, candidates |-> 1]]

FreshSonar == [next |-> 2, beatIn |-> 0, good |-> 0,
               healthy |-> -1, raw |-> [rank |-> 0, candidates |-> 1]]
FreshSeen == [rank |-> 0, candidates |-> 1]

\* Startup up to Join: announce on the bootstrap pool, then sleep two scans.
Startup(e) ==
    /\ phase[e] = Down
    /\ phase' = [phase EXCEPT ![e] = Joining]
    /\ sonar' = [sonar EXCEPT ![e] = FreshSonar]
    /\ row' = IF e \in cut THEN row
              ELSE [row EXCEPT ![e] = Registered(e)]
    /\ UNCHANGED <<pass, seen, slots, late, age, cut, pace, events, outages>>

\* Startup after joinFleet: size the pool from the first reading and start the loops.
SizePools(e) ==
    /\ phase[e] = Joining /\ pass[e].at = "joined"
    /\ phase' = [phase EXCEPT ![e] = Up]
    /\ pass' = [pass EXCEPT ![e].at = "sleep"]
    /\ slots' = [slots EXCEPT ![e] = SlotsOn(e)]
    /\ UNCHANGED <<row, sonar, seen, late, age, cut, pace, events, outages>>

\* runReconcileLoop and recomputePools: apply what the Sonar publishes by now, on
\* a tick of its own that nobody waits for.
Reconcile(e) ==
    /\ phase[e] = Up /\ SlotsOn(e) # slots[e]
    /\ slots' = [slots EXCEPT ![e] = SlotsOn(e)]
    /\ late' = [late EXCEPT ![e] = 0]
    /\ UNCHANGED <<row, phase, pass, sonar, seen, age, cut, pace, events, outages>>

\* Shutdown: drainRuntime stops the reconcile loop and waits for the crew.
Shutdown(e) ==
    /\ phase[e] = Up /\ events < MaxEvents
    /\ events' = events + 1
    /\ phase' = [phase EXCEPT ![e] = Draining]
    /\ late' = [late EXCEPT ![e] = 0]
    /\ UNCHANGED <<row, pass, sonar, seen, slots, age, cut, pace, outages>>

\* withdrawFromFleet: a drain that outlasts one cadence gives up its slot.  It
\* keeps its pool, which its peers grow into.
Withdraw(e) ==
    /\ phase[e] = Draining /\ late[e] >= 1
    /\ phase' = [phase EXCEPT ![e] = Withdrawn]
    /\ row' = IF e \in cut \/ row[e] = NoRow THEN row ELSE [row EXCEPT ![e].working = FALSE]
    /\ UNCHANGED <<pass, sonar, seen, slots, late, age, cut, pace, events, outages>>

\* The Sonar is gone and with it what it kept in memory.
Forget(e) ==
    /\ pass' = [pass EXCEPT ![e] = AtRest]
    /\ sonar' = [sonar EXCEPT ![e] = FreshSonar]
    /\ seen' = [seen EXCEPT ![e] = FreshSeen]
    /\ late' = [late EXCEPT ![e] = 0]
    /\ age' = [age EXCEPT ![e] = 0]

\* The drain ends: the piston's and the Sonar's loops have returned, and only
\* then is the row deleted.  The pools are still open.
Leave(e) ==
    /\ phase[e] \in {Draining, Withdrawn} /\ pass[e].at = "sleep"
    /\ phase' = [phase EXCEPT ![e] = Gone]
    /\ row' = IF e \in cut THEN row ELSE [row EXCEPT ![e] = NoRow]
    /\ Forget(e)
    /\ UNCHANGED <<slots, cut, pace, events, outages>>

\* Shutdown after drainRuntime closes the databases.
ClosePools(e) ==
    /\ phase[e] = Gone /\ slots[e] > 0
    /\ slots' = [slots EXCEPT ![e] = 0]
    /\ UNCHANGED <<row, phase, pass, sonar, seen, late, age, cut, pace, events, outages>>

-----------------------------------------------------------------------------
(* The environment *)

\* The process dies; its row stays and ages.
Crash(e) ==
    /\ Alive(e) /\ events < MaxEvents
    /\ events' = events + 1
    /\ phase' = [phase EXCEPT ![e] = Crashed]
    /\ slots' = [slots EXCEPT ![e] = 0]
    /\ Forget(e)
    /\ UNCHANGED <<row, cut, pace, outages>>

\* Statements on the registry fail, for one engine or for all of them at once.
Outage ==
    /\ cut = {} /\ events < MaxEvents
    /\ cut' \in Cuts
    /\ outages' = outages + 1 /\ events' = events + 1
    /\ UNCHANGED <<row, phase, pass, sonar, seen, slots, late, age, pace>>

Recover ==
    /\ cut # {} /\ cut' = {}
    /\ UNCHANGED <<row, phase, pass, sonar, seen, slots, late, age, pace, events, outages>>

\* What the reconcile loop, or the timer of a drain, has still to do.
Owing(e) == \/ phase[e] = Up /\ SlotsOn(e) # slots[e]
            \/ phase[e] = Draining

\* What cannot wait for another scan: a pass that began, or is as late as it may
\* be; an apply or a withdrawal that has been lagging for too long.  The timer
\* of a drain runs for one scan before it is late.
Busy(e) == \/ Alive(e) /\ (sonar[e].next <= 1 - pace[e] \/ pass[e].at # "sleep")
           \/ Owing(e) /\ late[e] >= MaxLag + (IF phase[e] = Up THEN 0 ELSE 1)

\* One scan goes by, whether or not every live replica has read the others in it
\* or applied what it read.
Tick ==
    /\ \A e \in Engines : ~Busy(e)
    /\ row' = [e \in Engines |->
                 IF row[e] = NoRow THEN NoRow
                 ELSE [row[e] EXCEPT !.seen = Older(@, Straggler)]]
    /\ sonar' = [e \in Engines |->
                 IF ~Alive(e) THEN sonar[e]
                 ELSE [sonar[e] EXCEPT !.next = @ - 1,
                                       !.beatIn = Max({0, @ - 1}),
                                       !.good = Older(@, 2),
                                       !.healthy = IF @ < 0 THEN @ ELSE Min({PruneAfter, @ + 1})]]
    /\ late' = [e \in Engines |-> IF Owing(e) THEN late[e] + 1 ELSE 0]
    /\ age' = [e \in Engines |-> IF Alive(e) THEN Min({Settling, age[e] + 1}) ELSE 0]
    /\ UNCHANGED <<phase, pass, seen, slots, cut, pace, events, outages>>

\* The initial fleet is the settled one, right after a pass of each of its engines.
Init ==
    /\ pace \in Paces
    /\ row = [e \in Engines |->
                IF e \in Settled THEN [seen |-> 0, working |-> e \notin NoWorkers] ELSE NoRow]
    /\ phase = [e \in Engines |-> IF e \in Settled THEN Up ELSE Down]
    /\ pass = [e \in Engines |-> AtRest]
    /\ seen = [e \in Engines |-> IF e \in Settled THEN Standing(row, e) ELSE FreshSeen]
    /\ sonar = [e \in Engines |->
                IF e \in Settled THEN [FreshSonar EXCEPT !.next = 1, !.beatIn = Beat,
                                                         !.healthy = 0, !.raw = seen[e]]
                ELSE FreshSonar]
    /\ slots = [e \in Engines |-> IF e \in Settled THEN SlotsOn(e) ELSE 0]
    /\ late = [e \in Engines |-> 0]
    /\ age = [e \in Engines |-> IF e \in Settled THEN Settling ELSE 0]
    /\ cut = {} /\ events = 0 /\ outages = 0

\* What the loops and the timer of a live process do by themselves.
Loops(e) == Pass(e) \/ Mend(e) \/ SizePools(e) \/ Reconcile(e) \/ Withdraw(e)

Next ==
    \/ \E e \in Engines : Startup(e) \/ Loops(e) \/ Shutdown(e) \/ Leave(e) \/ ClosePools(e)
                         \/ Crash(e)
    \/ Outage \/ Recover \/ Tick

Spec == Init /\ [][Next]_vars

(***************************************************************************)
(* The loops of the live processes go on, time passes and an outage ends.  *)
(* Nothing says that a process starts, is shut down, or that a drain ends. *)
(***************************************************************************)
FairSpec ==
    Spec /\ WF_vars(Tick) /\ WF_vars(Recover) /\ WF_vars(\E e \in Engines : Loops(e))

-----------------------------------------------------------------------------
(* Properties *)

\* Every variable has its shape.
TypeOK ==
    /\ row \in [Engines -> {NoRow} \cup
          [seen : Ages(Straggler), working : BOOLEAN]]
    /\ phase \in [Engines -> {Down, Joining, Up, Draining, Withdrawn, Gone, Crashed}]
    /\ pass \in [Engines -> [at : {"sleep", "mend", "joined"}, repair : BOOLEAN,
                              dead : SUBSET Engines]]
    /\ slots \in [Engines -> 0 .. Cardinality(Engines)]
    /\ late \in [Engines -> 0 .. MaxLag + 1] /\ age \in [Engines -> 0 .. Settling]
    /\ cut \subseteq Engines

Held(S, n) == MapThenSumSet(LAMBDA e : PoolOf(n[e]), S)
Fits(S, n) == Held(S, n) <= Max({Budget + Cardinality(S) \div 2, 2 * Cardinality(S)})

\* The replicas whose shares the others leave room for: they run, or drain and
\* have not withdrawn.
Counted == {e \in Engines : phase[e] \in {Up, Draining}}

\* The shares that the Sonars of the replicas which read every scan publish never
\* add up to more than the shard's budget and the rounding of the shares, whatever
\* joins, leaves and crashes go on: a join announces itself and waits two scans
\* before it reads (sonar.go Join).
Shares == [e \in Engines |-> SlotsOn(e)]
SharesFit == Fits({e \in Counted : pace[e] = 1 /\ Shares[e] > 0}, Shares)

\* The replicas that beat often enough for their rows to stay fresh.
KeepsFresh(e) == pace[e] + Beat <= Fresh + 1 /\ pace[e] < Fresh

\* The dispatchers that hold a pool and keep their rows fresh, the ones that all
\* the others have counted by now and the ones that joined too lately for that.
Dispatchers == {e \in Counted : slots[e] > 0 /\ KeepsFresh(e)}
Established == {e \in Dispatchers : age[e] >= Settling}
PostJoinShare == DispatcherSlots(Cardinality(Established) + 1)

\* What they hold lags: nobody can tell when a peer has shrunk its pool to what it
\* read.  The pools of the established dispatchers, draining ones among them, fit
\* the budget; a replica that joined lately holds no more than the share of a
\* fleet that counts it.
PoolsFit ==
    /\ Fits(Established, slots)
    /\ \A e \in Dispatchers \ Established : PoolOf(slots[e]) <= PoolOf(PostJoinShare)

\* While the registry answers, the replicas of a shard plan for no more than its
\* budget, and hold no more than it and one post-join share for each replica that
\* joined lately (joinFleet, and the bound of
\* TestPeerRollingRestart_FleetNeverExceedsTheShardBudget).  A replica that has
\* withdrawn, or left and not closed its pool yet, holds the share it had on top
\* of that: drainRuntime accepts the overlap.
WithinBudget == outages = 0 => SharesFit /\ PoolsFit

\* No step makes a row claim again what its replica gave up: neither a beat nor a
\* repair re-ranks a withdrawn replica, or brings back the row of one that left
\* (sonar.go Withdraw, Leave, register).
GivenUpForGood ==
    [][\A e \in Engines :
          /\ phase[e] = Withdrawn /\ row'[e] # NoRow =>
                (row'[e].working => row[e] # NoRow /\ row[e].working)
          /\ phase[e] = Gone /\ row'[e] # NoRow => row[e] # NoRow]_vars

\* A shard with a working replica gets a dispatcher, through crashes, drains that
\* never end and a replica whose every reading is late (sonar.go observe: a
\* promotion is held against the raw reading, so late readings cannot hold it off
\* forever).
Employable == \E e \in Engines : phase[e] = Up /\ Working(e)
Serving == \E e \in Engines : phase[e] = Up /\ slots[e] > 0
AlwaysDispatched == Employable ~> (Serving \/ ~Employable)

\* The promise of observe's comment: a spell in which nobody reaches the registry
\* grows no pool of a fleet whose replicas are all alive, since by the reading
\* after the first one every live peer has refreshed its row.
StallNeverGrowsPools ==
    [][(\A e \in Engines : phase[e] = Up) =>
          \A e \in Engines : slots[e] > 0 => PoolOf(slots'[e]) <= PoolOf(slots[e])]_vars
=============================================================================
