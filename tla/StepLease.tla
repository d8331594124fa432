----------------------------- MODULE StepLease -----------------------------
(***************************************************************************)
(* One flow of the dwarf engine and the workers that dispatch its steps:   *)
(* processStep with its claim CAS, the lease generation (lease_seq) that   *)
(* fences every later write, the in-place persistence retry, the recovery  *)
(* defer, the lease-recovery sweep, Resume and Terminate.                  *)
(*                                                                         *)
(* The flow is a trunk (no fan-out; see Cohort), and a subgraph child is   *)
(* only the event that releases its parked caller (see Subgraph).          *)
(* Each SQL statement or transaction is one atomic step; everything a      *)
(* worker does between two of them is not.                                 *)
(***************************************************************************)
EXTENDS Naturals

CONSTANTS
    Workers,     \* dispatch goroutines, of one replica or of several
    MaxSteps,    \* bound: step rows the flow may have
    MaxBudget,   \* bound: faults, spurious lease expiries and retries
    Faults       \* the kinds of failure this instance may meet

FaultKinds ==
    {"crash",           \* a replica dies between two statements
     "contention",      \* a lock-contention error, retries exhausted
     "claimcontention", \* the same, raised by the claim statement
     "dberr",           \* any other database error; nothing was written
     "ambiguous",       \* the commit landed but its answer was lost
     "resetfail"}       \* the recovery defer's own reset fails

ASSUME StepsAssumption == MaxSteps \in Nat \ {0}
ASSUME BudgetAssumption == MaxBudget \in Nat
ASSUME FaultsAssumption == Faults \subseteq FaultKinds

Steps == 1..MaxSteps

VARIABLES
    status,    \* dwarf_steps.status, "none" for a row not inserted yet
    parked,    \* dwarf_steps.parked = parkedSubgraph
    lease,     \* dwarf_steps.lease_expires lies in the future
    leaseSeq,  \* dwarf_steps.lease_seq
    changes,   \* the lease generation whose changes the row holds
    resolved,  \* interrupt_done or subgraph_done
    pred,      \* predecessor_id, 0 for the entry step
    src,       \* the generation of pred that computed the row's state
    flow,      \* dwarf_flows.status
    pc,        \* where each worker is in processStep
    at,        \* the step it dispatches
    mySeq,     \* the generation it captured, 0 when it captured none
    marked,    \* its stepMarkedComplete
    route,     \* what its transitions evaluated to
    budget,    \* what is left of MaxBudget
    lost       \* history: a commit's answer has been lost

rowVars == <<status, parked, lease, leaseSeq, changes, resolved, pred, src>>
workerVars == <<pc, at, mySeq, marked, route>>
vars == <<rowVars, flow, workerVars, budget, lost>>

TerminalFlow == {"completed", "failed", "terminated"}
FlowStatuses == {"running", "interrupted"} \cup TerminalFlow
LiveStatuses == {"pending", "running", "interrupted"}
StepStatuses == {"none"} \cup LiveStatuses \cup TerminalFlow
Places == {"idle", "claimed", "reap", "exec", "write", "extend", "backoff",
           "fail", "failPersist", "rewind", "park", "spawn", "interrupt",
           "reset"}
Routes == {"next", "end", "bad"}

-----------------------------------------------------------------------------
(* Vocabulary *)

Fault(f) == f \in Faults /\ budget > 0
Spend == budget' = budget - 1 /\ UNCHANGED lost
Goto(w, place) == pc' = [pc EXCEPT ![w] = place]

\* The worker returns from processStep and leaves every row alone.
Abandon(w) == Goto(w, "idle") /\ UNCHANGED <<rowVars, flow, at, mySeq, marked, route>>

\* The worker moves on without touching the database.
Proceed(w, place) == Goto(w, place) /\ UNCHANGED <<rowVars, flow, at, mySeq, marked, route>>

Free == {s \in Steps : status[s] = "none"}

\* The dispatch still owns the generation it claimed.
Current(w) == mySeq[w] = leaseSeq[at[w]]

\* Somebody is still dispatching s under its current generation.
Held(s) == \E w \in Workers : pc[w] # "idle" /\ at[w] = s /\ mySeq[w] = leaseSeq[s]

(* The WHERE clauses of the writes that follow the claim. *)

\* The seeded fault of the completion write: the fence is forgotten.
CompletionFenceNoSeq(w) == status[at[w]] # "terminated"

CompletionFence(w) == status[at[w]] # "terminated" /\ Current(w)

\* The seeded fault of failStep: a stale worker may fail the step.
FailFenceNoSeq(w) == status[at[w]] \in {"running", "completed"}

FailFence(w) == status[at[w]] \in {"running", "completed"} /\ Current(w)

\* The seeded fault of persist: the extension matches a row that the sweep
\* has already returned to pending.
ExtendFenceNoStatus(w) == Current(w)

ExtendFence(w) == status[at[w]] \in {"running", "completed"} /\ Current(w)

\* The seeded fault of the drain: a step whose outcome landed is not handed back.
ReleaseFenceRunningOnly(w) == status[at[w]] = "running" /\ Current(w)

ReleaseFence(w) == status[at[w]] \in {"running", "completed"} /\ Current(w)

RewindFence(w) == status[at[w]] = "running" /\ Current(w)

ParkFence(w) == status[at[w]] = "running" /\ Current(w)

InterruptFence(w) == status[at[w]] \in {"running", "interrupted"} /\ Current(w)

\* The seeded fault of the recovery defer: a zombie rewinds its successor.
ResetFenceNoSeq(w) == status[at[w]] = IF marked[w] THEN "completed" ELSE "running"

ResetFence(w) ==
    /\ status[at[w]] = IF marked[w] THEN "completed" ELSE "running"
    /\ mySeq[w] > 0 => Current(w)

-----------------------------------------------------------------------------
(* Claiming a step *)

Claimable(s) == status[s] = "pending" /\ ~parked[s] /\ ~lease[s]

ClaimRow(s) ==
    /\ status' = [status EXCEPT ![s] = "running"]
    /\ lease' = [lease EXCEPT ![s] = TRUE]
    /\ leaseSeq' = [leaseSeq EXCEPT ![s] = @ + 1]
    /\ UNCHANGED <<parked, changes, resolved, pred, src, flow>>

Dispatch(w, s, seq, place) ==
    /\ Goto(w, place)
    /\ at' = [at EXCEPT ![w] = s]
    /\ mySeq' = [mySeq EXCEPT ![w] = seq]
    /\ marked' = [marked EXCEPT ![w] = FALSE]
    /\ UNCHANGED route

\* The claim CAS matched its row and read it back.
Claim(w, s) ==
    /\ pc[w] = "idle"
    /\ Claimable(s)
    /\ ClaimRow(s)
    /\ Dispatch(w, s, leaseSeq[s] + 1, "claimed")
    /\ UNCHANGED <<budget, lost>>

\* MySQL claims and reads in two statements: the claim landed, the read did
\* not, and lease_seq was never captured.
ClaimReadLost(w, s) ==
    /\ pc[w] = "idle"
    /\ Claimable(s)
    /\ ClaimRow(s)
    /\ \/ Fault("claimcontention") /\ Dispatch(w, s, 0, "reset")
       \/ Fault("dberr") /\ Dispatch(w, s, 0, "idle")
    /\ Spend

\* The claim statement itself lost to lock contention: no row was claimed,
\* and the recovery defer runs with leaseSeq = 0. The candidate is a hint, so
\* the row may be in any state.
ClaimContended(w, s) ==
    /\ pc[w] = "idle"
    /\ status[s] # "none"
    /\ Fault("claimcontention") /\ Spend
    /\ Dispatch(w, s, 0, "reset")
    /\ UNCHANGED <<rowVars, flow>>

\* The flow row is read after the claim; a terminal flow has its step reaped.
ReadFlow(w) ==
    /\ pc[w] = "claimed"
    /\ Proceed(w, IF flow \in TerminalFlow THEN "reap" ELSE "exec")
    /\ UNCHANGED <<budget, lost>>

\* The reaping write names the step only: no status, no generation.
Reap(w) ==
    /\ pc[w] = "reap"
    /\ status' = [status EXCEPT ![at[w]] = flow]
    /\ parked' = [parked EXCEPT ![at[w]] = FALSE]
    /\ lease' = [lease EXCEPT ![at[w]] = FALSE]
    /\ Goto(w, "idle")
    /\ UNCHANGED <<leaseSeq, changes, resolved, pred, src, flow, at, mySeq, marked, route, budget, lost>>

\* The host call returned. Its result decides which write comes next; a
\* second park on a resolved step fails it.
Execute(w) ==
    /\ pc[w] = "exec"
    /\ \/ Proceed(w, "write")
       \/ Proceed(w, "fail")
       \/ ~resolved[at[w]] /\ Proceed(w, "park")
       \/ ~resolved[at[w]] /\ Proceed(w, "interrupt")
    /\ UNCHANGED <<budget, lost>>

\* ... or the task armed flow.Retry; the budget bounds how often.
ExecuteRetry(w) ==
    /\ pc[w] = "exec"
    /\ budget > 0 /\ Spend
    /\ Proceed(w, "rewind")

-----------------------------------------------------------------------------
(* Recording what the task did *)

\* What the completion write leaves behind when it matches.
CompletionEffect(w) ==
    /\ status' = [status EXCEPT ![at[w]] = "completed"]
    /\ changes' = [changes EXCEPT ![at[w]] = mySeq[w]]
    /\ UNCHANGED <<parked, lease, leaseSeq, resolved, pred, src, flow>>

\* The completion write; on a match the transitions are evaluated, and a
\* route that leads nowhere fails the step just completed.
CompletionWrite(w) ==
    /\ pc[w] \in {"write", "backoff"} /\ ~marked[w]
    /\ UNCHANGED <<at, mySeq, budget, lost>>
    /\ \/ /\ CompletionFence(w)
          /\ CompletionEffect(w)
          /\ marked' = [marked EXCEPT ![w] = TRUE]
          /\ \E r \in Routes :
                /\ r = "next" => Free # {}
                /\ route' = [route EXCEPT ![w] = r]
                /\ Goto(w, IF r = "bad" THEN "fail" ELSE "write")
       \/ /\ ~CompletionFence(w)
          /\ Goto(w, "idle")
          /\ UNCHANGED <<rowVars, flow, marked, route>>

\* The seeded fault of the transition: the write-first guard on the flow row
\* is dropped, so a terminated flow is extended.
FlowRowLockedUnguarded == TRUE

FlowRowLocked == flow \notin TerminalFlow

\* The transition transaction inserts the successor...
InsertSuccessor(w) ==
    \E n \in Free :
        /\ status' = [status EXCEPT ![n] = "pending"]
        /\ pred' = [pred EXCEPT ![n] = at[w]]
        /\ src' = [src EXCEPT ![n] = mySeq[w]]
        /\ UNCHANGED <<parked, lease, leaseSeq, changes, resolved, flow>>

\* ... or the trunk ends and completeFlow terminalizes the flow.
CompleteFlow ==
    /\ flow' = "completed"
    /\ UNCHANGED rowVars

\* Either is a no-op once the flow is terminal.
TransitionEffect(w) ==
    \/ FlowRowLocked /\ route[w] = "next" /\ InsertSuccessor(w)
    \/ FlowRowLocked /\ route[w] = "end" /\ CompleteFlow
    \/ ~FlowRowLocked /\ UNCHANGED <<rowVars, flow>>

TransitionWrite(w) ==
    /\ pc[w] \in {"write", "backoff"} /\ marked[w]
    /\ TransitionEffect(w)
    /\ Goto(w, "idle")
    /\ UNCHANGED <<at, mySeq, marked, route, budget, lost>>

-----------------------------------------------------------------------------
(* persist: retry the write in place, holding the lease *)

\* A write failed and wrote nothing: contention goes to the recovery defer,
\* anything else to the extension and the backoff, at last to the classifier.
WriteError(w) ==
    /\ pc[w] \in {"write", "backoff"}
    /\ \/ Fault("contention") /\ Proceed(w, "reset")
       \/ Fault("dberr") /\ pc[w] = "write" /\ Proceed(w, "extend")
       \/ Fault("dberr") /\ pc[w] = "backoff" /\ Proceed(w, "failPersist")
    /\ Spend

\* The write committed and its answer was lost; persist retries it.
AmbiguousWrite(w) ==
    /\ pc[w] = "write"
    /\ Fault("ambiguous")
    /\ budget' = budget - 1 /\ lost' = TRUE
    /\ \/ marked[w] /\ TransitionEffect(w)
       \/ ~marked[w] /\ CompletionFence(w) /\ CompletionEffect(w)
    /\ Goto(w, "extend")
    /\ UNCHANGED <<at, mySeq, marked, route>>

\* The lease extension: a row it does not match is a peer's.
ExtendLease(w) ==
    /\ pc[w] = "extend"
    /\ \/ /\ ExtendFence(w)
          /\ lease' = [lease EXCEPT ![at[w]] = TRUE]
          /\ Goto(w, "backoff")
          /\ UNCHANGED <<status, parked, leaseSeq, changes, resolved, pred, src, flow,
                         at, mySeq, marked, route>>
       \/ ~ExtendFence(w) /\ Abandon(w)
    /\ UNCHANGED <<budget, lost>>

\* The extension itself failed: retry with whatever lease is left.
ExtendError(w) ==
    /\ pc[w] = "extend"
    /\ Fault("dberr") /\ Spend
    /\ Proceed(w, "backoff")

\* The engine drains during the backoff: the step is handed back at once.
DrainRelease(w) ==
    /\ pc[w] = "backoff"
    /\ IF ReleaseFence(w)
       THEN /\ status' = [status EXCEPT ![at[w]] = "pending"]
            /\ lease' = [lease EXCEPT ![at[w]] = FALSE]
       ELSE UNCHANGED <<status, lease>>
    /\ Goto(w, "idle")
    /\ UNCHANGED <<parked, leaseSeq, changes, resolved, pred, src, flow,
                   at, mySeq, marked, route, budget, lost>>

-----------------------------------------------------------------------------
(* The other ways a dispatch ends *)

\* failStep on a trunk step: the step fails, and the flow with it.
FailStep(w) ==
    /\ pc[w] \in {"fail", "failPersist"}
    /\ IF FailFence(w)
       THEN /\ status' = [status EXCEPT ![at[w]] = "failed"]
            /\ parked' = [parked EXCEPT ![at[w]] = FALSE]
            /\ flow' = IF flow \in TerminalFlow THEN flow ELSE "failed"
       ELSE UNCHANGED <<status, parked, flow>>
    /\ Goto(w, "idle")
    /\ UNCHANGED <<lease, leaseSeq, changes, resolved, pred, src,
                   at, mySeq, marked, route, budget, lost>>

\* failStep's transaction errored. The recovery defer runs for a completed
\* step, and for a running one when the error surfaced is contention.
FailStepError(w) ==
    /\ pc[w] \in {"fail", "failPersist"}
    /\ \/ /\ Fault("contention")
          /\ Proceed(w, IF pc[w] = "fail" \/ marked[w] THEN "reset" ELSE "idle")
       \/ /\ Fault("dberr")
          /\ Proceed(w, IF marked[w] THEN "reset" ELSE "idle")
    /\ Spend

\* flow.Retry rewinds the step in place.
RetryRewind(w) ==
    /\ pc[w] = "rewind"
    /\ IF RewindFence(w)
       THEN /\ status' = [status EXCEPT ![at[w]] = "pending"]
            /\ lease' = [lease EXCEPT ![at[w]] = FALSE]
            /\ changes' = [changes EXCEPT ![at[w]] = mySeq[w]]
            /\ resolved' = [resolved EXCEPT ![at[w]] = FALSE]
       ELSE UNCHANGED <<status, lease, changes, resolved>>
    /\ Goto(w, "idle")
    /\ UNCHANGED <<parked, leaseSeq, pred, src, flow, at, mySeq, marked, route, budget, lost>>

\* flow.Subgraph parks the caller, before its child exists.
ParkCaller(w) ==
    /\ pc[w] = "park"
    /\ IF ParkFence(w)
       THEN /\ parked' = [parked EXCEPT ![at[w]] = TRUE]
            /\ changes' = [changes EXCEPT ![at[w]] = mySeq[w]]
            /\ Goto(w, "spawn")
       ELSE UNCHANGED <<parked, changes>> /\ Goto(w, "idle")
    /\ UNCHANGED <<status, lease, leaseSeq, resolved, pred, src, flow,
                   at, mySeq, marked, route, budget, lost>>

\* createSubgraphFlow inserted the child.
SpawnChild(w) == pc[w] = "spawn" /\ Abandon(w) /\ UNCHANGED <<budget, lost>>

\* The rewind, the park or the child insert errored: the step fails.
DispositionError(w) ==
    /\ pc[w] \in {"rewind", "park", "spawn"}
    /\ Fault("dberr") \/ Fault("contention")
    /\ Spend
    /\ Proceed(w, "fail")

\* handleInterrupt pauses the step and its flow; the generation is checked
\* inside the transaction, which rolls back for a stale dispatch.
HandleInterrupt(w) ==
    /\ pc[w] = "interrupt"
    /\ IF InterruptFence(w)
       THEN /\ status' = [status EXCEPT ![at[w]] = "interrupted"]
            /\ parked' = [parked EXCEPT ![at[w]] = FALSE]
            /\ lease' = [lease EXCEPT ![at[w]] = FALSE]
            /\ changes' = [changes EXCEPT ![at[w]] = mySeq[w]]
            /\ resolved' = [resolved EXCEPT ![at[w]] = TRUE]
            /\ flow' = IF flow \in TerminalFlow THEN flow ELSE "interrupted"
       ELSE UNCHANGED <<status, parked, lease, changes, resolved, flow>>
    /\ Goto(w, "idle")
    /\ UNCHANGED <<leaseSeq, pred, src, at, mySeq, marked, route, budget, lost>>

\* A statement whose error is returned as it is: contention reaches the
\* recovery defer, anything else leaves the step to lease recovery.
StatementError(w) ==
    /\ pc[w] \in {"claimed", "reap", "interrupt"}
    /\ \/ Fault("contention") /\ Proceed(w, "reset")
       \/ Fault("dberr") /\ Proceed(w, "idle")
    /\ Spend

\* The recovery defer rewinds the step so that it is dispatched again...
RecoveryReset(w) ==
    /\ pc[w] = "reset"
    /\ IF ResetFence(w)
       THEN /\ status' = [status EXCEPT ![at[w]] = "pending"]
            /\ lease' = [lease EXCEPT ![at[w]] = FALSE]
       ELSE UNCHANGED <<status, lease>>
    /\ Goto(w, "idle")
    /\ UNCHANGED <<parked, leaseSeq, changes, resolved, pred, src, flow,
                   at, mySeq, marked, route, budget, lost>>

\* ... unless the reset fails too.
RecoveryResetError(w) ==
    /\ pc[w] = "reset"
    /\ Fault("resetfail") /\ Spend
    /\ Proceed(w, "idle")

\* The replica dies; its rows stay as they are.
Crash(w) ==
    /\ pc[w] # "idle"
    /\ Fault("crash") /\ Spend
    /\ Abandon(w)

-----------------------------------------------------------------------------
(* The clock, the sweeps and the API *)

\* Wall-clock time passes the lease. While the holder is still at work that
\* is an overrun, which the budget bounds.
LeaseExpires(s) ==
    /\ lease[s]
    /\ IF Held(s) THEN budget > 0 /\ Spend ELSE UNCHANGED <<budget, lost>>
    /\ lease' = [lease EXCEPT ![s] = FALSE]
    /\ UNCHANGED <<status, parked, leaseSeq, changes, resolved, pred, src, flow, workerVars>>

\* The seeded fault of the sweep: the park test is inverted.
ExpiredParkInverted(s) == status[s] = "running" /\ parked[s] /\ ~lease[s]

Expired(s) == status[s] = "running" /\ ~parked[s] /\ ~lease[s]

\* One sweep returns every expired step to pending, lease_seq unchanged.
RecoverExpiredLeases ==
    /\ \E s \in Steps : Expired(s)
    /\ status' = [s \in Steps |-> IF Expired(s) THEN "pending" ELSE status[s]]
    /\ UNCHANGED <<parked, lease, leaseSeq, changes, resolved, pred, src, flow, workerVars, budget, lost>>

\* The child's completion, its failure or the wedge sweep releases a parked
\* caller, under one compare-and-set on running + parkedSubgraph.
ReviveCaller(s) ==
    /\ status[s] = "running" /\ parked[s]
    /\ status' = [status EXCEPT ![s] = "pending"]
    /\ parked' = [parked EXCEPT ![s] = FALSE]
    /\ lease' = [lease EXCEPT ![s] = FALSE]
    /\ resolved' = [resolved EXCEPT ![s] = TRUE]
    /\ UNCHANGED <<leaseSeq, changes, pred, src, flow, workerVars, budget, lost>>

\* Resume returns the interrupted leaf to pending and its flow to running.
Resume(s) ==
    /\ flow = "interrupted" /\ status[s] = "interrupted"
    /\ status' = [status EXCEPT ![s] = "pending"]
    /\ lease' = [lease EXCEPT ![s] = FALSE]
    /\ flow' = IF \E t \in Steps \ {s} : status[t] = "interrupted" THEN flow ELSE "running"
    /\ UNCHANGED <<parked, leaseSeq, changes, resolved, pred, src, workerVars, budget, lost>>

\* Terminate flips the live steps, then the flow. A successor inserted after
\* its step UPDATE took its snapshot is missed, and reaped when claimed.
Terminate ==
    /\ flow \notin TerminalFlow
    /\ flow' = "terminated"
    /\ \E missed \in SUBSET {s \in Steps : status[s] = "pending" /\ leaseSeq[s] = 0 /\ pred[s] # 0} :
         LET hit == {s \in Steps : status[s] \in LiveStatuses} \ missed IN
            /\ status' = [s \in Steps |-> IF s \in hit THEN "terminated" ELSE status[s]]
            /\ parked' = [s \in Steps |-> parked[s] /\ s \notin hit]
    /\ UNCHANGED <<lease, leaseSeq, changes, resolved, pred, src, workerVars, budget, lost>>

-----------------------------------------------------------------------------
(* createWithGraph inserts the flow running and its entry step pending. *)
Init ==
    /\ status = [s \in Steps |-> IF s = 1 THEN "pending" ELSE "none"]
    /\ parked = [s \in Steps |-> FALSE]
    /\ lease = [s \in Steps |-> FALSE]
    /\ leaseSeq = [s \in Steps |-> 0]
    /\ changes = [s \in Steps |-> 0]
    /\ resolved = [s \in Steps |-> FALSE]
    /\ pred = [s \in Steps |-> 0]
    /\ src = [s \in Steps |-> 0]
    /\ flow = "running"
    /\ pc = [w \in Workers |-> "idle"]
    /\ at = [w \in Workers |-> 1]
    /\ mySeq = [w \in Workers |-> 0]
    /\ marked = [w \in Workers |-> FALSE]
    /\ route = [w \in Workers |-> "end"]
    /\ budget = MaxBudget
    /\ lost = FALSE

\* What a worker does when nothing goes wrong.
Work(w) ==
    \/ \E s \in Steps : Claim(w, s)
    \/ ReadFlow(w)
    \/ Reap(w)
    \/ Execute(w)
    \/ CompletionWrite(w)
    \/ TransitionWrite(w)
    \/ ExtendLease(w)
    \/ FailStep(w)
    \/ RetryRewind(w)
    \/ ParkCaller(w)
    \/ SpawnChild(w)
    \/ HandleInterrupt(w)
    \/ RecoveryReset(w)

Misfortune(w) ==
    \/ \E s \in Steps : ClaimReadLost(w, s)
    \/ \E s \in Steps : ClaimContended(w, s)
    \/ StatementError(w)
    \/ WriteError(w)
    \/ AmbiguousWrite(w)
    \/ ExtendError(w)
    \/ DrainRelease(w)
    \/ ExecuteRetry(w)
    \/ FailStepError(w)
    \/ DispositionError(w)
    \/ RecoveryResetError(w)
    \/ Crash(w)

Surroundings ==
    \/ \E s \in Steps : LeaseExpires(s)
    \/ RecoverExpiredLeases
    \/ \E s \in Steps : ReviveCaller(s)
    \/ \E s \in Steps : Resume(s)
    \/ Terminate

Next ==
    \/ \E w \in Workers : Work(w) \/ Misfortune(w)
    \/ Surroundings

Spec == Init /\ [][Next]_vars

\* A worker goroutine is never descheduled for ever and its statements
\* return; the sweep runs on a ticker; a child ends and releases its caller;
\* wall-clock time passes. Nothing obliges anyone to call Resume.
Fairness ==
    /\ \A w \in Workers : WF_vars(Work(w))
    /\ \A s \in Steps : WF_vars(~Held(s) /\ LeaseExpires(s))
    /\ \A s \in Steps : WF_vars(ReviveCaller(s))
    /\ WF_vars(RecoverExpiredLeases)

FairSpec == Spec /\ Fairness

-----------------------------------------------------------------------------
(* Properties *)

\* Every row and every worker keeps the shape the code gives it.
TypeOK ==
    /\ status \in [Steps -> StepStatuses]
    /\ parked \in [Steps -> BOOLEAN]
    /\ lease \in [Steps -> BOOLEAN]
    /\ leaseSeq \in [Steps -> Nat]
    /\ changes \in [Steps -> Nat]
    /\ resolved \in [Steps -> BOOLEAN]
    /\ pred \in [Steps -> {0} \cup Steps]
    /\ src \in [Steps -> Nat]
    /\ flow \in FlowStatuses
    /\ pc \in [Workers -> Places]
    /\ at \in [Workers -> Steps]
    /\ mySeq \in [Workers -> Nat]
    /\ marked \in [Workers -> BOOLEAN]
    /\ route \in [Workers -> Routes]
    /\ budget \in Nat
    /\ lost \in BOOLEAN

Inserted(s) == status[s] # "none" /\ pred[s] # 0

\* "The flow's persisted state reflects exactly one execution, even when two
\* workers overlap" (docs/operations.md): a successor was computed by the very
\* execution whose changes its predecessor still records, that predecessor
\* stays completed while the flow runs (a reap may rewrite it later), and no
\* second successor of it is ever inserted; as long as no commit's answer has
\* been lost (see RetriedWriteIsIdempotent).
OneExecutionPersisted == ~lost =>
    /\ \A s \in Steps : Inserted(s) =>
          /\ src[s] = changes[pred[s]]
          /\ status[pred[s]] = "completed" \/ flow \in TerminalFlow
    /\ \A s, t \in Steps : Inserted(s) /\ Inserted(t) /\ pred[s] = pred[t] => s = t

\* A flow that completed or failed has nothing left to run: no worker, late
\* or on time, terminalizes it over a step that is still live; as long as no
\* commit's answer has been lost.
SettledFlowIsQuiet ==
    ~lost /\ flow \in {"completed", "failed"} => \A s \in Steps : status[s] \notin LiveStatuses

Stale(w) == pc[w] # "idle" /\ mySeq[w] > 0 /\ mySeq[w] < leaseSeq[at[w]]

\* Once a peer has claimed the step, nothing the superseded worker still does
\* touches a row of the flow (the terminal-flow reap, which names the step
\* only, is the one write without a fence).
SupersededWritesNothing ==
    [][\A w \in Workers :
          Stale(w) /\ pc'[w] # pc[w] /\ pc[w] # "reap" => UNCHANGED <<rowVars, flow>>]_vars

\* A step returned to pending can be claimed at once: persist's extension
\* never stamps a future lease on a row that recovery took back.
PendingIsOffered == \A s \in Steps : status[s] = "pending" => ~lease[s]

\* Terminal rows are immutable: a stopped flow keeps its status and gains no
\* step (Terminate landing between a step's completion and its transition), a
\* failed or terminated step is never revived nor rewritten, with two exceptions:
\* the unfenced reap, which names the step only and stamps its flow's own terminal
\* status, and, once a commit's answer has been lost, the completion write of the
\* holder of a step that was reaped as failed under it, whose fence rejects
\* terminated rows only.
TerminalIsImmutable ==
    [][/\ flow \in TerminalFlow => flow' = flow
       /\ \A s \in Steps : status[s] = "none" /\ flow \in TerminalFlow => status'[s] = "none"
       /\ \A s \in Steps : status[s] \in {"failed", "terminated"} =>
             \/ status'[s] = status[s]
             \/ status'[s] = flow /\ \E w \in Workers : pc[w] = "reap" /\ at[w] = s
             \/ lost /\ status[s] = "failed" /\ status'[s] = "completed"]_vars

\* A row something will still act on: a claim, the sweep, a child, Resume.
Recoverable(s) ==
    \/ status[s] = "pending" /\ ~parked[s]
    \/ status[s] \in {"running", "interrupted"}

\* A worker that owes the flow the transition of a step it completed.
OwesTransition(w) ==
    /\ pc[w] # "idle" /\ marked[w]
    /\ status[at[w]] = "completed" /\ Current(w)

Stranded ==
    /\ flow \notin TerminalFlow
    /\ \A s \in Steps : ~Recoverable(s)
    /\ \A w \in Workers : ~OwesTransition(w)

\* A parked caller that was rewound to pending: no claim, sweep or revive
\* matches such a row (see RewoundStepIsDispatchable).
ParkedPending(s) == status[s] = "pending" /\ parked[s]

\* A flow is stranded in the documented window only (docs/deployment.md,
\* "Crash recovery"): its worker died, or lost its reset, between recording a
\* step as completed and committing what follows; the rewound park and the
\* lost answer of a completion write, whose retry matches nothing, aside.
StrandedOnlyInWindow ==
    [][~Stranded /\ Stranded' /\ ~lost' =>
          \/ \E w \in Workers : OwesTransition(w) /\ pc'[w] = "idle" /\ budget' < budget
          \/ \E s \in Steps : ParkedPending(s)']_vars

\* A running flow is always driven on: it stops, or is interrupted, unless it
\* was stranded in the documented window or a commit's answer was lost.
FlowSettles == flow = "running" ~> (flow # "running" \/ Stranded \/ lost)

\* failAndReturn: the recovery defer "rewinds the step (running->pending) for
\* immediate re-dispatch, instead of leaving it stranded": a pending step is
\* one that a claim can match.
RewoundStepIsDispatchable == \A s \in Steps : ~ParkedPending(s)

\* "write must be idempotent with respect to the database" (persist): running
\* a write again after its commit's answer was lost inserts nothing twice.
RetriedWriteIsIdempotent ==
    \A s, t \in Steps : Inserted(s) /\ Inserted(t) /\ pred[s] = pred[t] => s = t
=============================================================================
