# Formal models of the dwarf workflow engine

dwarf is a durable workflow engine that lives inside the replicas of an
application. Flows and their steps are rows of SQL databases (shards); workers in
every replica claim due steps, run the task through the host, and record what
follows. There is no coordinator: what keeps the fleet correct is the order of a
few SQL statements and the WHERE clauses on them. This directory holds TLA+
models of those statements, the TLC instances that check them, and TLAPS proofs
for every size of the models.

## Inventory

| Part (source) | State | Operations | What is hard | What makes it correct |
|---|---|---|---|---|
| Step dispatch (`engine/execution.go`, `persist.go`, `wedge.go`) | `dwarf_steps`: status, parked, lease_expires, lease_seq, changes, interrupt_done, subgraph_done; a worker's leaseSeq and stepMarkedComplete | claim CAS, completion write, transition transaction, failStep, retry rewind, park, interrupt, recovery defer, lease sweep, drain | two workers on one step after an overrun; a death between two statements; lost commit answers; the defer racing a peer | persisted state is that of one execution; terminal rows do not change; nothing is stranded |
| Fan-out and fan-in (`execution.go`, `completion.go`) | lineage_id, cohort_size, cohort_arrivals, cohort_failures, cohort_cancellations on the spawn row | fan-out, arrival, loss, climb to the enclosing cohort, fan-in insert | branches reporting in any order, losses climbing nested cohorts, a branch re-executed | the count stands for the branches; the fan-in runs once |
| Await (`engine/operations.go` await, signalStop; `engine/latch.go`, `internal/latch`) | the board: waiters per key, a one-slot channel per caller | await, Latch, Release, Sweep, Close | a stop between read and park, a lost signal, a release between two reads, shutdown racing registration | a stop reaches every caller; a caller is never told of a stop that did not happen |
| Turnstile (`internal/turnstile`, `engine/dbturn.go`) | free passes, size, priority queue, closed | WaitTurn, Return, Resize, Close | a deadline racing a grant or a close, shrinking below what is held, double returns | passes are conserved; the best claim is next; nobody is left behind by Close |
| Subgraphs (`completion.go`, `wedge.go`, `fork.go`) | surgraph_flow_id, surgraph_step_id, parked | park, child insert, completion and failure delivery, wedge and orphan sweeps, tree-wide Terminate and delete | parent and child are recorded in separate transactions | no caller waits for a child that is gone; no child outlives its tree |
| Interrupt and Resume (`execution.go`, `completion.go`) | interrupt_done, resume_data, flow status up the chain | handleInterrupt, Resume | several interrupted branches, chains through subgraphs | every interrupted leaf can be resumed, once |
| Cancel (`operations.go`, `execution.go`) | cancel_watermark, cancel_reason, cancelling | Cancel, inherit on insert, preemption at the claim, completedCancelling | watermark and mark are two statements; a handler must not be cancelled again | a cancellation is delivered once on every path and a handler can recover |
| Dispatch supply (`internal/piston`, `pipeline`, `planner`, `candidates`, `workers`, `claimstracker`) | tallies, plan, hint cache, crew counters, reservations | Tally, Plan, fetch, Refill, Offer, Pop, spawn, drain, TryClaim | hints that are stale, reservations that outlive their use, drain | strict priority, weighted fairness, no due step is hidden for ever |
| Peer registry (`internal/peers`, `engine/peers.go`, `poolsize.go`) | registry rows and clocks, connection budgets | beat, read, publish, resize | blind or paused replicas | every residue class has a dispatcher; the pools fit the server |
| Graphs, state, reducers, references (`workflow`, `internal/faninmap`, `internal/staterefs`) | values | validate, transitions, merge, fold, mint, resolve | nesting, tombstones, anchors | the merged state is the reference merge |
| Fork, history, purge, reaper (`engine/fork.go`, `history.go`, `reaper.go`) | clone maps, delete_after_ms | fork, continue, delete, purge | deletion racing completion; a crash in the clone | the original is untouched; a tree goes as a whole |
| Lifecycle, metrics, tracing, keys, lru, renderers, migrations, bench | - | - | - | wiring and I/O, not modelled |

Components call each other through the rows: the dispatch writes what the sweeps
read, a cohort's counters are shared by its branches, a child releases its caller
by a compare-and-set on the caller's row. In memory, a stop is announced to the
latch board, every database call passes the turnstile, and new steps are offered
to the candidate cache.

## Modules

### StepLease: the dispatch of one flow's steps

`StepLease.tla` models `processStep` for a flow without fan-out. A variable is a
column (`status`, `parked`, `lease`: whether lease_expires lies ahead, `leaseSeq`,
`changes`: the generation that wrote them, `resolved`: interrupt_done or
subgraph_done, `pred`), the flow's status, or a local of `processStep` (`mySeq` is
leaseSeq, `marked` is stepMarkedComplete, `pc` the statement reached, `route` what
the transitions evaluated to). `src` is a ghost: the generation that computed a
successor. Each SQL statement or transaction is one action; everything between two
of them is interleaved. The WHERE clauses are operators of their own
(`CompletionFence`, `FailFence`, `ExtendFence`, ...), so that a mutant can weaken
one at a time.

`lost` is a history variable: a commit has landed whose answer has not, and its
retry is still to come or has been made.

The happy path is `Work`: Claim, ReadFlow (Reap for a terminal flow), Execute,
CompletionWrite, TransitionWrite, and the other outcomes FailStep, RetryRewind,
ParkCaller/SpawnChild, HandleInterrupt. `Misfortune` has what the code defends
against: a claim or statement that loses to contention, database errors and the
in-place retry of persist (ExtendLease, backoff, classifier), a drain, the
recovery defer and its failure, a lost commit answer and the death of a replica.
`Surroundings` has the clock, the lease sweep, the release of a parked caller,
Resume and Terminate. Terminate may miss a successor inserted after its step
UPDATE took its snapshot; the claim reaps it.

Simplifications: wall-clock time is the event LeaseExpires; not_before is always
due; a subgraph child is only the event that releases its caller; the
cancellation mark is left to Cancel.

### Cohort: fan-out and fan-in

`Cohort.tla` models the lineage and the counters on the spawn row. A dispatch is a
state of its step here: running, or completed with its transition owed (`moved` is
a ghost that says it committed), which StepLease justifies. Advance, FanOut,
FireFanInDirect, ArriveFanIn and CompleteFlow are the branches of the transition
transaction; FailStep charges a loss with `PropagateCohortFailure`, which states
the climb through the enclosing cohorts by the set of cohorts charged instead of a
loop. `frames` is a ghost for the lineage chain, `joins` marks a fan-in step and
`carried` is the data: the set of steps whose changes are folded into a step's
state. Some transitions of a fan-out may go straight to the fan-in: `FanOut` counts
them as arrivals when it inserts the branches (`MaxDirect`).

### Subgraph: a tree of flows, interrupts and the sweeps

`Subgraph.tla` models the rows that tie flows together: a flow's status and
surgraph_step_id (`caller`), a step's flow (`owner`), status, park and the two
"done" marks. `pc` is the statement a dispatch has yet to send, `revive` the
releases owed after a completion has committed, `plan` and `scan` what Resume and
Terminate read before their transactions, `hits` what a sweep has selected.

| Action | Code |
|---|---|
| ParkCaller, CreateSubgraphFlow, CreateFails | flow.Subgraph in `processStep`, `createSubgraphFlow` |
| Complete, FailStep, CompleteSurgraphFlow | `completeFlow`, `completeSurgraphFlow`; a failure is delivered in its own transaction |
| Retry | the rewind with `deleteSubgraphFlowsRootedAt` |
| Interrupt, HandleInterrupt | `handleInterrupt`: the leaf, its callers and their flows in one transaction |
| ReadChain, Resume | `interruptedSubgraphChain` outside, `resume` inside the transaction |
| ScanTerminate, ScanOrphan, TerminateSubtree | `terminate`, `recoverOrphanedSubgraphChildren`, `terminateSubtree` |
| SelectWedged, RecoverWedged | `recoverWedgedSubgraphParks` |
| DeleteFlow, ReapTree | `deleteFlow`, `reapDueFlows` |
| DieParked, LoseRevive, LeaseExpires | a replica dies between two statements; the lease sweep |

Simplifications: a flow is the cohort of its steps and ends with the last of them
(Cohort has the counters); a dispatch writes its outcome in one piece and an older
dispatch is fenced off by the next claim (StepLease has both); which of several
interrupted leaves is the earliest is left open; the tree is on one shard. The age
guard of the wedge sweep is `SettledPark`: an insert or a release in flight ends
within parkWedgeThreshold, minutes. The grace period, DeleteOnCompletion and Purge are
not modelled.

Every replica sweeps the shard, and a sweep acts on hits that it read a while ago.
`stale` is the set of the sweepers whose caller was released, claimed and parked again
since its hit was read, `stray` that one of them has acted on such a hit and changed a
row. That is the one thing a sweep does wrong (observation 5), and what it leaves, a
healthy child failed or a caller released beside a live child, breaks the invariants of
the tree from then on. So PausedFlowHasPausedStep and SettledTreeIsQuiet speak of trees
without a stray sweep. LateSweepIsHarmless is what is true of the claim at
`wedge.go:68`: however late a sweep acts, and whichever peer swept the same caller
first, it fails no live flow unless the caller has parked again.

### Await: waiting for a stop

`Await.tla` models `await` against the latch board (`internal/latch`): the reads
before and after registering, the one-slot channel, the stop signals of this
replica, the detector's pass over the keys and Shutdown. A release clones the list
of waiters under the lock and sends outside it, so a send may land after the flow
was resumed, the caller left or the board closed. Other flows use other keys.

### Turnstile and Semaphore: passes to the database

`Turnstile.tla` is `internal/turnstile`, one action for what happens under one
lock; the deadline is the unlocked gap between Expire and Leave. A job's band, age
and number are one rank. `ReturnAgain` is a call site's deferred second Return,
possibly while a later pass is held. `Semaphore.tla` says what the turnstile
promises: a set of holders that grows only within the limit, and a limit that may
fall below what is held. `IsSemaphore` maps the holders to the jobs that hold a
pass or have been granted one they have not yet noticed.

### Crew: the candidate cache and the workers

`Crew.tla` is how a due step finds a goroutine on one replica. The cache
(`internal/candidates`) is `items` and `band` per shard, `size`, the waiters of its
condition variable (`sleepers`, oldest first) and the wakes a Refill still owes
(`signals`); the crew (`internal/workers`) is each goroutine's place in `work`
(`pc`), the shard it peeked (`hint`), what it popped (`got`) and the counters
`idle` and `resident`; `stage` is how far Shutdown has come.

| Action | Code |
|---|---|
| Supply, SupplyNothing, Signal | `Supplier.run` at the planner's global band, `Cache.Refill` and its loop of signals outside the lock |
| Offer, Arrive | the doorbell `enqueueStepDue` and `Cache.Offer`; a step that falls due without one |
| Resize | `Cache.Resize` |
| WaitForWork, Acquire, TryPopFrom, Commit | one round of `work`, up to holding a candidate |
| ConsiderGrowth, Spawn, Retire, Exit | `considerGrowth`, `spawn`, `considerRetirement` with `retire`, the deferred exit |
| Claim, Finish | the handler's claim, its return |
| CloseCache, Broadcast, CloseGate, Drain, Drained | `drainRuntime` |

Simplifications: a candidate stands for its band, and a claim takes a due step of
that shard and band if there is one left; the commit of a new step and its doorbell
are one step, and so are the plan, the fetch and the push of a supply cycle, which
Supply takes apart; every shard with work at the global band gets a slot, which the
planner grants in the long run; the handler gives its
permit back at the claim; retirement's clock and coin are a choice; the identity of a
goroutine that left is used again, so a spawn waits for an exit under way when all
identities are taken. An empty partition has band 0 for the code's MaxInt.

### Cancel: the watermark and the mark

`Cancel.tla` extends Cohort with `cancel_watermark`, the steps with `cancelling=1`
(`mark`) and the calls of Cancel. ReadWatermark, Stamp and Mark are the three
statements of `cancel`; MarkFails is a call that dies, or fails, between the last
two. `Inherits` is the CASE of `successorInsertSQL`, applied to whatever the steps of
Cohort insert (`Handed`). A marked step takes no transitions of its own: it is lost,
or it goes to its handler. `told` and `begun` are ghosts. One flow is modelled:
descendant flows are stamped and marked by the same two statements.

### Fork: the clone of a stopped flow

`Fork.tla` extends Cohort with `predecessor_id` and `successor_id`, written as the
transitions write them, and with `Fork`: `forkFlow` and `cloneOneFlow` in one
transaction. `Pruned` is `collectDAGSubtree`, `Kept` what is cloned, `ClonedStatus`
freezes stragglers, and `Arrived`, `Failed` and `Cancelled` are the recount of the
kept cohorts branch by branch. The origin is not written, so after a fork the model
follows the clone, and the properties of Cohort are asked of it. Subgraph descendants,
state overrides and Continue are left out.

### Routing: graphs, their validation and the router

`Routing.tla` puts three pieces of code side by side that each work out the fan-out
frames of a task: `validateLineage`, `faninmap.New` and the routing part of
`processStep` with `evaluateTransitions`. A behaviour is the path of one step, any
branch of any fan-out, through a graph that `Validate` accepted, with the lineage the
engine gives it. Conditions may evaluate to anything and arrays may be empty.
Transitions of override kinds into a fan-in are accepted by the validator and not
followed by the map, and a task from which no path leads to END is accepted too; the
two properties are about graphs without either (`OrdinaryArrivals`, `EndReachable`),
and observation 7 is about graphs with them.

### StateRefs: state, reducers and references

`StateRefs.tla` models the three columns `state`, `changes` and `state_refs` of the rows
of one flow. `Merge`, `DelNils`, `Reduce` and `MergeReduceAll` are `workflow/state.go`
and `reducers.go`, `Resolve`, `Mint`, `WithinCap` and `CombinedReducerFields` are
`internal/staterefs`, and the actions are the dispatch, a re-execution and the four ways
a transition computes what its successors start from. A value is the sequence of the
writes it is made of, so that a contribution that is lost or repeated shows, and a
deletion is a write of nothing, which `DelNils` enacts. `truth` is the reference: the
state every row would have if no field were ever a reference; at a fan-in it folds the
deltas branch by branch in the order they were written, where the code's scan (`Scan`)
sorts by ordinal, depth and row id. Whether a field is large enough to be referenced is
a choice, made for all branches of a fan-out alike, as the code makes it.

### Peers: the registry, dispatchers and pools

`Peers.tla` is one shard's registry with `internal/peers`, `engine/peers.go` and the
slots and shares of `poolsize.go`. Time is counted in scans, the read cadence. A replica
passes at any time in the `pace` scans after its last pass, its reconcile loop applies
what was published when it gets to it, and a drain's timer fires when it has run for a
scan; what may lag behind a scan that goes by is bounded by `pace`, and by `MaxLag` for
an apply and a withdrawal (`Busy`). A pass is two actions, `Pass` (beat, reading, what is
published) and `Mend` (repair and prune), because peers write in between.

| Action | Code |
|---|---|
| Startup, SizePools | `joinFleet` and `Sonar.Join`, the first sizing in `Startup` |
| Pass, Mend | `Sonar.pass`: publishBeat, read, observe; register, prune |
| Reconcile | `runReconcileLoop`, `recomputePools` |
| Shutdown, Withdraw, Leave, ClosePools | `drainRuntime`, `withdrawFromFleet`, `leaveFleet`, then the databases are closed |
| Crash, Outage, Recover, Tick | a process dies; statements on the registry fail for a while; time |

What the budget promises is `WithinBudget`. `joinFleet` says that the window in which a
joiner has grown and nobody has shrunk "CANNOT" be closed, and guarantees the budget and
one post-join share, which `TestPeerRollingRestart_FleetNeverExceedsTheShardBudget`
asserts. In the model the established dispatchers, those old enough that every replica
has counted them and applied it (`age`, `Settling`), fit the budget together, draining
ones included, and each later one holds at most a post-join share; TLC does reach the
overlap (12 connections over a budget of 8 in the instance). That is `PoolsFit`, one
half of it; `SharesFit` is the half that Join's two scans of waiting buy: what the
Sonars publish adds up at every moment, and only what is applied lags. Not counted are
the bootstrap pool of a joiner, the two connections of a reader, a replica whose row may
go stale between two of its beats (`KeepsFresh`), and the pool of a replica that has
withdrawn, or left and not closed its databases yet: `drainRuntime` accepts that
overlap. The grace after Join is left out, and with it the time it buys.

### Planner and Supply: how due steps reach the cache

`Planner.tla` has the operators of `internal/planner`: the best band of all shards,
the lottery (`Picks` is the set of its outcomes) and `Slice`, which routes the slots
to shards. `Supply.tla` has the two loops of every piston, which nobody synchronises:
Scan and Report, and Plan, Fetch and Push. The database changes between any two
statements, the residue class a replica believes in may be another one at each of
them (`Views`), and SetIdle, a doorbell, a peer's claim or an outage may come at any
moment. `claims` is the tracker of `internal/claimstracker`: a step the replica tried
to claim lately is turned away until the reservation ages out (any time later, for
one to two seconds). `waited` counts the steal graces a step has been due for.

## Runs

| Run | Instance | Shows |
|---|---|---|
| lease | 2 workers, 2 steps, 2 faults of any kind, fairness | one execution persisted, settled flows quiet, rewound rows offered, terminal rows immutable, stranding only in the documented window, and otherwise a running flow stops or is interrupted |
| cohort | 7 rows, width 2, up to 2 direct arrivals, one re-execution, fairness | counters exact, fan-in sound, losses wait and climb to the right status, every fan-out converges |
| cancel | 5 rows, width 2, 1 direct arrival, one re-execution, 2 calls | every path is told of the cancellation, once |
| fork | 7 rows, width 2, one re-execution, one fork at any row | the clone waits for what runs again and for nothing else, keeps no fan-in that must run again, inherits losses |
| subgraph | 3 flows, 3 steps, width 2, 2 faults, retries or second branches, two sweepers, fairness | stops are final, an interrupt is whole, callers are released only by a child that ended, a settled flow is quiet, a late sweep is harmless unless its caller parked again, every park ends, no orphan stays |
| routing | the chains of 5 tasks with any kinds, one more transition anywhere, any of the last 3 tasks a fan-in, as far as Validate accepts them | no step reaches a route the code calls unreachable; every step runs in the frames the validator worked out |
| staterefs | a plain field, a reduced one and the element, 5 rows, a forEach of 2, one anchor per row, one re-execution, 2 writes or deletions | every step is handed the state it would have without references |
| await | 2 callers, 1 resume, 1 failed read, fairness | a stop reaches every caller, a close misses nobody, nobody is released for nothing |
| turnstile | 3 jobs (two with equal claims), 2 passes, 3 turns that queue, fairness | passes conserved, a semaphore, nobody left behind |
| crew | 2 goroutines, 1 resident, 2 shards, 2 bands, 1 permit per shard, one late arrival or resize, fairness | counters exact, crew within its bounds, every due step claimed, Shutdown drains |
| supply | 2 shards, one step each in different bands, 2 views of the residue classes, one event, fairness | the backlog drains, an idle piston holds nothing |
| peers | 3 engines, two of them settled, one so slow that its readings may end a gap, applies and withdrawals up to a scan late, 2 crashes, drains or outages, fairness | published shares fit, open pools stay within the budget and a post-join share, what was given up stays so, every shard dispatched |

Bounds. Two workers are the least that overlap. Two step rows let a successor exist
while its predecessor is fought over. A budget of two lets a fault follow a fault (an
overrun and then a contended write, a failed write and then a failed reset). Seven rows
hold a fan-out of two, one of whose branches fans out again, with both fan-ins; five
hold a fan-out of two with a handler in one branch and the fan-in, which is what a
second Cancel can reach. Three flows are a root with a child and a grandchild, two
children, or a child and the child of a retry; three steps with width two put two
branches in the root or in the child. A second branch counts against the budget like a
fault: the run has two faults in a tree without fan-out, which is what it takes for a
hit to go stale and a sweep to stray, and one beside a fan-out. Two callers are one that
registers before a release and one after it. Three jobs are two that wait while one
holds, with equal and with different claims. Two goroutines, one of them resident, let
one retire or be spawned while the other sleeps, queues or works; two shards with a band
each give the cache a choice, and one event lets a doorbell or a resize meet every state
of the crew. In supply the shard with the better band is the one that can hold the other
back, and one event turns it unreadable, idle or busy again at any moment of either
loop. In peers a third engine joins while the other two share the budget, and two events
let a crash follow a drain; a pace of three scans lets each reading of the slow one end
a gap while its row stays fresh; a lag of one scan is enough for the joiner to open its
share before the others shrink theirs; the windows are a few scans instead of minutes,
in the order of the code's (a beat, then fresh, then a straggler), on which the
properties rest. A chain of five tasks nests two fan-outs, and the extra transition
jumps into, out of or around either. Five rows carry a reference over a fan-out, a fold
and one step more; one anchor per row is the least that makes the cap evict. Deadlock is
checked in the turnstile and in peers, where somebody can always go on; a flow that
stopped, was stranded or waits for an answer legitimately has nothing left to do, and so
have a board everybody has left and a drained crew. Two runs use a VIEW: lease leaves
out the locals of a worker that are not read again, supply the reservations and the
graces that decide nothing any more.

Fairness. A worker goroutine goes on with its statements (`WF` on Work, on a
step's claim or settlement in Cohort and in Subgraph): the crew keeps popping
candidates and a pending row is selected again every cycle. The sweeps run on a
ticker (`recoveryLoop`), time passes for a lease nobody holds, a release under
way lands. A caller of await goes on, the detector's pass ends and the next one
begins. A goroutine of the crew goes on and its handler returns ("it eventually
returns", ProcessFunc), a shard's supply goes round and sends its wakes, and a
Shutdown that began goes through; retirement, doorbells, peers and resizes are not
fair. A woken or expired job takes the lock and a job returns its pass. Both loops of
a piston go round, failing while the database does not answer, the crew pops what is
cached, and steal graces and reservations run out. A Sonar's loop and the reconcile
loop go on, scans go by and an outage of the registry ends; no replica need ever
start, leave or finish its drain. Nothing obliges anyone to call Resume, Terminate,
Cancel, Fork, Delete, Resize, Close or Shutdown, and no fault is ever fair.

## Proofs

The theorems hold for every value of the constants, under the assumptions that the
modules state on them (finite sets, natural bounds, the order of Peers' windows) and
the hypotheses named here.

| Module | Theorem | States |
|---|---|---|
| StepLeaseProofs | `TypesAreKept`, `FencesHold`, `InductiveInvariant` | TypeOK; FenceInv; `lost \/ IInv` |
| | `OneExecution`, `SettledIsQuiet` | OneExecutionPersisted, SettledFlowIsQuiet |
| | `SupersededIsHarmless`, `TerminalRowsAreImmutable` | SupersededWritesNothing, TerminalIsImmutable |
| | `PendingIsAlwaysOffered`, `StrandingNeedsAFault` | PendingIsOffered, StrandedOnlyInWindow |
| CohortProofs | `InductiveInvariant`, `TypeCorrect` | IInv, TypeOK |
| | `CohortCountersExact`, `FanInRunsOnceAfterAll` | CountersExact, FanInIsSound |
| | `FlowsStopQuiet`, `OutcomeIsDeserved` | FlowStopsQuiet, CancelledIsPure |
| | `CancelIsToldOnce` | CancelToldOnce, of Cancel |
| SubgraphProofs | `StopIsFinal` | TerminalIsFinal, for any number of sweepers |
| | `InductiveInvariant`, `PausedFlowsHavePausedSteps`, `SettledTreesAreQuiet` | `stray \/ IInv` and the two safety invariants of the run, for any number of sweepers |
| | `LateSweepsAreHarmless` | LateSweepIsHarmless, for any number of sweepers |
| ReplicaProofs | `CloseIsComplete`, `ReleaseMeansStop`, `AnswersAreKept` | CloseReachesEveryWaiter, ReleasedFindsStop, AnswerSurvivesClose, of Await |
| | `IdlePistonsHoldNothing` | IdleHoldsNothing, of Supply |
| WorkflowProofs | `RoutingInvariant` | RouteInv, of Routing |
| | `RoutesFollowValidation`, `LineageFollowsValidation` | RoutesAsValidated, LineageAsValidated |
| | `StateRefsInvariant`, `StateStaysWhole` | RefsInv and StateIsWhole, of StateRefs, where `Item \notin Initial` |
| TurnstileProofs | `PassesAreConserved`, `NoPassIsIdle`, `OnlyCloseTakesAPlace`, `AdmissionIsOrdered` | one invariant or action property each |
| | `TurnstileIsSemaphore` | the refinement of Semaphore |
| CrewProofs | `InductiveInvariant`, `CrewCountsExactly`, `CrewStaysWithinBounds` | CountersExact, CrewWithinBounds |
| PeersProofs | `GivenUpStaysGivenUp`, `PoolsStayWithinBudget` | GivenUpForGood, WithinBudget |

StepLease. OneExecutionPersisted and SettledFlowIsQuiet speak of flows in which no
commit's answer has been lost; observation 1 shows why. Two invariants carry the
proofs. FenceInv holds under every fault, lost answers included: a captured generation
is at most the row's, so the current generation of a row has at most one dispatch; a
dispatch that captured none has nothing but the reset ahead; a reap follows a terminal
flow; and a dispatch that marked its step complete is still the row's and finds it
settled. `SupersededIsHarmless` needs no more: a superseded dispatch is not current,
hence has marked nothing, and every other write compares the generation.
OneExecutionPersisted is not inductive: the completion write of a second worker would
break it. IInv adds that a dispatch that owes a transition finds its row completed with
its own changes and without a successor; that a row that has a successor is completed
for good while the flow runs and has no dispatch that could still match it; that a live
step is the newest of its flow, so that completing or failing it leaves nothing live.
Each action preserves the conjuncts it can disturb in a lemma of its own.
`TerminalRowsAreImmutable` takes from FenceInv which writes can meet a failed or
terminated row, and from IInv that no failed row has a current dispatch as long as no
answer has been lost (`FailedIsClosed`); after a loss one can (Observations), and
TerminalIsImmutable names what it may then write.
PendingIsOffered needs only that no pending or uncreated row carries a lease, and
holds with lost answers too. Stranding is the other side of IInv: a completed row
whose transition is owed, and that no dispatch will make, was left by one that died or
whose reset failed. For that the places where a dispatch can have marked its step are
followed (`MarkedPlaces`).

Cohort. CountersExact needs to know who the branches of a cohort are when a loss
climbs several cohorts at once. `FrameShape` says that the frames of a row are a chain
of older spawns, one inside the other; a branch of an open cohort is then waited for by
each cohort above it, and what one transition settles is the branch of one row in each
cohort that it charges. `LossesCounted` and `TrunkExact` carry the outcome: while the
flow runs its trunk is at one place and each loss lies in a cohort that counts it and
either is open or has passed it on, so the flow cannot complete over a loss.
`RoomLeft` discharges the model's bound: the row kept for every open cohort's fan-in is
there. Cancel reuses the invariant as it stands; what it adds is that a path is begun
before it is told, that what is younger than the watermark can only have inherited the
mark, and that a call past its stamp finds the flow stamped or stopped (`CancelShape`).

Subgraph. The release, the sweep and the interrupt are guarded by the row they change,
so that a stop is final needs no more than that the tables are total and that a
dispatch about to insert a child has not completed its step (`Rows`): the outcome write
of a failed insert admits completed rows. What holds of whole chains holds until a sweep
strays (`stray \/ IInv`); nothing is assumed of the number of sweepers. IInv
says what a live child tells of its caller (`LiveChild`), what a dispatch, a release
and a selected sweep may rely on (a hit of a sweeper that is not stale is a caller
parked since the hit was read, with no live child, or one that has been released),
and that what Resume and Terminate read outside their
transactions is still the chain they write (`PlanShape`, `ScanShape`). The walks up and
down the tree rest on one recursive function, `Above`; a lemma shows that it is well
defined along the age of the flows, and arguments about a whole chain go by the oldest
flow that does not fit (`SmallestElement`).

Await. A caller registered on a closed board has its wake because the board marks
the slots under the lock that turns later callers away; the invariant carries
which callers are on the board and what their slots may hold.

Turnstile. Everything follows from one lemma about a grant (`GrantMoves`): passes
move one by one from the pool to the waiters popped, and none is left over while
a waiter remains. The invariant needs, besides, that a job on the heap is waiting
or leaving and holds nothing: otherwise a grant would not be a new holder. The
jobs are finite and the ceilings natural numbers; nothing is assumed of ranks but
that they are numbers.

Crew. A wake moves goroutines from the condition variable's list into the loop
without counting, so the list must hold sleeping goroutines only, each of them once;
and a goroutine goes home, whatever the floor, only once Close has begun. The counters
are the cardinality of the goroutines outside a set of places, and each move between
places changes them by what `Change` says.

Supply. A loop in the middle of a cycle must not look like one at rest, and a cycle
that ends must not count as a withdrawal: `LoopShape` says which records a loop at
rest can leave.

Peers. That what was given up stays given up follows step by step: a beat creates no
row, a repair writes the flag of the profile of the moment, a prune only takes away.
SharesFit and PoolsFit, the halves of WithinBudget, relate what replicas decide alone, from readings of different
ages. The replica that ranks last sees every other before it, so the number of shares it
divides by, and with it everybody's, is at least the number of replicas that hold one
(`EnoughSlots`); the rest is arithmetic about rounded shares. BudgetInv carries both: a
member's row is never stale, because a beat is due often enough for the pace of its
passes (`RowsAreFresh`); a reading has counted every member that announced itself in an
earlier scan (`ReadingsCount`, where `Known(d)` are the members older than d scans); and
the slots in use were worked out from a reading at most `Lag` scans old (`SlotsFit`):
the scans of a pace, those the apply is late, and those a drain has lasted. For SharesFit
the readings are compared, for PoolsFit the slots, whose lag is shorter than the age
`Settling` of an established dispatcher. A newcomer's own reading counts the established
ones and itself, so its share is that of a fleet one larger. Both speak of the time in
which no outage has been.

Routing. The validator, the fan-in map and the router each walk the graph breadth
first, with a stack per task. A walk is a function from rounds to stacks, built by
`RecursionExists` and unique by `RecursionUnique`: both are one argument on the
smallest round that fails, the form every induction takes here. `WalkGrows` says that
a round only adds tasks; `WalksAgree` that on an accepted graph all rules give a task
the same stack, up to what a popped frame is called; `Accepted` what Validate's checks
say of the stacks of two neighbours. The core is `OrdinaryConvergence`: a branch of a
fan-out that can reach END must leave its frame, it can only leave it by a fan-in, and
the validator's check on that arrival names the same fan-in for all branches, so the
map has one (`FanInForConverges`). Then `RouteFollows` takes one step: the lineage of
a step is the frames the validator gave its task (RouteInv). Without `EndReachable`
the convergence is false, and TLC shows the graph: a branch that circles for ever
beside a goto to the fan-in.

StateRefs. That a row resolves to its whole state is not inductive by itself. RefsInv
adds why a reference stays good: it names a row that has moved on (`AnchorsMoved`),
whose columns never change again, so neither the rows nor the cache can disagree with
it (`CacheStored`); and a field is held or referenced, not both. `MintAssembles` is the
lemma about Mint: whatever the size policy and the cap choose, the row it writes
assembles to the state it was given, if the inherited references and the anchor hold
what that state has (`Mintable`). Each action then shows `Mintable` of what it mints
from. For a fan-in that is `FoldMintable`: the fold with the carried references left
out follows the fold of the whole state (`Follows`) because a reference that was not
resolved has no reducer, and what the cohort's deltas or the spawn's own combined is
minted inline. Both folds go over the cohort in an order; the scan sorts by depth
before row id, and `BranchOrder` says why that is the order in which the rows of a
branch were written. The hypothesis `Item \notin Initial` is the observation about the
forEach alias, stated as an assumption.

Only model-checked: liveness (fairness is beyond the prover), and FanInFollowsReruns and
LossesAreInherited of Fork, which are false from the second fork on (Observations), so
that their theorem would be about one fork only. Only proved: `AnswersAreKept` (a close
never replaces a delivered answer) and the turnstile's three results on order, idle
passes and lost places.

## Observations

Where the code and what the repository says of it differ, or two parts of the code
do. Each of the first eight has a configuration whose property TLC finds violated:
`tlc -config <cfg> <module>`.

1. MCStepLease_ambiguous.cfg (MCStepLease), `RetriedWriteIsIdempotent`: "write must be
   idempotent with respect to the database" (`persist.go:65`), but when the commit of
   a transition landed and its answer was lost, the retry inserts a second successor
   (`execution.go:1103`): nothing in the transaction looks at successor_id. A lost
   answer of the completion write strands the flow instead: the retry's fence matches
   no row, and nothing follows.
2. MCStepLease_parkedreset.cfg (MCStepLease), `RewoundStepIsDispatchable`: the recovery
   defer "rewinds the step (running->pending) for immediate re-dispatch"
   (`completion.go:640`), but leaves `parked` set when the insert of a child failed and
   failStep lost to contention (`execution.go:136`); no claim and no sweep selects the
   row any more.
3. MCCohort_nested.cfg (MCCohort), `FanInCarriesBranchOutputs`: "every cohort member is
   one indexed scan" (`completion.go:206`), but the branches of an inner fan-out carry
   the inner spawn's id and what they wrote does not reach the outer fan-in
   (`execution.go:1718`).
4. MCSubgraph_resume.cfg (MCSubgraph), `InterruptReachesRoot`: "a single `Resume`
   continues the leaf" (`docs/fan-out-and-subgraphs.md:150`), but when two branches of
   one child have interrupted, the Resume of the first returns the root to running
   (`completion.go:1338`) and the next Resume is refused (`completion.go:1246`).
5. MCSubgraph_peers.cfg (MCSubgraph), `SweepIsHarmless`: the recovery is "harmless under
   [...] a peer sweeping the same shard" (`wedge.go:68`), but of two replicas that
   selected one wedged caller the slower one fails the healthy child of the caller's
   retry (`wedge.go:209`). It takes a caller that was released, ran and parked again
   between the sweep's two statements; otherwise the claim holds (LateSweepIsHarmless).
6. MCFork_direct.cfg (MCFork), `ForkConverges`: the recount of a fork works from the
   heads of the branches, so the transitions of a fan-out that went straight to the
   fan-in, and have no row, are not counted again (`fork.go:490-547`); a clone forked
   below such a fan-out never converges.
7. MCRouting_empty.cfg (MCRouting), `EmptyFanOutConverges`: with an empty array the flow
   "routes straight to the fan-in node" (AddTransitionForEach), but when the branches
   enter their fan-in by a switch, goto or error transition, which Validate accepts,
   the map has no fan-in for the source and the flow completes at it: the case
   `execution.go:958` calls unreachable for a validated graph. The same happens in a
   graph with ordinary arrivals if a branch cannot reach END: Validate does not look
   for that, and a forEach from A to B, a goto from A to C, a fan-in C and a plain
   transition from B to B pass it.
8. MCPeers_stall.cfg (MCPeers), `StallNeverGrowsPools`: "Skipping one reading is enough,
   because a beat is far shorter than the read cadence" (`sonar.go:767`), but the beat
   is four scans long and is put off by a beat that failed, so that after a spell
   shared by the whole fleet two readings in a row can miss live peers and pools grow.

Without a configuration of their own:

- A claim statement that loses to contention captured no generation, and the
  recovery defer then resets `WHERE step_id=? AND status='running'`, which is the
  peer that won (`execution.go:131-141`, where the comment holds that no peer can
  have the lease yet). StepLease has the step (RecoveryReset with `mySeq` 0); the
  peer's own writes are fenced, so the step is executed once more and no more.
- A failed step can become completed under a flow that failed. The completion write
  excludes terminated and cancelled rows (`execution.go:783`), not failed ones. After a
  transition's lost answer, a retry that keeps failing ends in failStep, which fails
  the flow over the live successor; a worker that claimed the successor and was overrun
  then reaps it as failed while its newer holder executes, and the holder's completion
  matches the row. It takes three workers, one more than the lease run has; the proof of
  TerminalIsImmutable met it, and the property allows that one write after a loss.
- A worker that was woken and lost its pop may retire at the top of its loop, so a
  retirement can use up the wake of a candidate: with three goroutines, one of them
  resident, a candidate can stay cached beside sleeping workers until the next
  supply cycle or doorbell, against Refill's "Under-waking cannot strand a
  candidate". `DueIsClaimed` holds because supply goes round.
- `Cache.Resize` trims the tail, where the offered candidates are, without lowering
  `offered`, so the discard count of the next Refill can be too low, even negative.
  It feeds a metric only.
- A Cancel that dies between its two writes cannot be repeated: the repetition finds
  the watermark. The steps that were live run on and the cancellation reaches what
  they insert (`CancelToldOnce`). Whether a fan-in is cancelled depends on the order
  of arrival: a branch recorded before the Cancel marks it if it arrives last, and
  does not if it arrives first, whatever a sibling's handler has caught.
- A field that was there before a forEach and has the name of its alias survives the
  fan-in if it is carried as a reference, and is dropped if it is held in the row. The
  instance of StateRefs has no such field.
- Forking a fork that kept a frozen straggler inside a nested fan-out can run a kept
  fan-in a second time; the instance of Fork has one fork.

## Plan

Done: StepLease, Cohort, Cancel, Fork, Subgraph with Interrupt, Resume, Terminate and
Delete, Routing, StateRefs, Await, Turnstile with Semaphore, Crew, Planner and Supply,
Peers, and the proofs above. In order:

1. Proofs: Fork with one fork (the recount of a kept cohort is the number of its
   branches that do not run again).
2. Cancel over a tree of flows, with interrupted steps and parked callers.
3. Fork with subgraph descendants, Continue, DeleteOnCompletion and Purge.
4. The task carrier's signals as operators; Cohort as a refinement of an abstract
   fork-join.

## Not modelled

SQL itself, the dialects, clocks and their skew, payload sizes, metrics, tracing,
rendering, the tables that turn cores and latency into connections, the reads of
history, list and search, and everything marked not_modelled in PROJECT.json.
