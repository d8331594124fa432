------------------------------ MODULE Subgraph ------------------------------
(***************************************************************************)
(* A tree of flows on one shard. A task that calls flow.Subgraph parks its *)
(* step and inserts a child flow; the child's end releases the caller.     *)
(* Parent and child are recorded by different statements, which crashes,   *)
(* Interrupt and Resume, flow.Retry, Terminate, Delete and the recovery    *)
(* sweeps of several replicas come between.                                *)
(*                                                                         *)
(* Here a flow is the cohort of its steps: it ends when the last of them   *)
(* does, with a failure if one of them failed (module Cohort), and a       *)
(* dispatch writes its outcome in one piece (module StepLease).            *)
(***************************************************************************)
EXTENDS Naturals, FiniteSets

CONSTANTS
    MaxFlows,     \* bound on the rows of dwarf_flows
    MaxSteps,     \* bound on the rows of dwarf_steps
    MaxWidth,     \* bound on the steps of one flow
    MaxBudget,    \* bound on deaths, overruns, failed inserts, retries and the
                  \* steps of a flow beyond its first
    Sweepers      \* the replicas whose recovery loops sweep this shard

ASSUME SubgraphAssumption ==
    /\ MaxFlows \in Nat \ {0} /\ MaxSteps \in Nat /\ MaxWidth \in 1..MaxSteps
    /\ MaxBudget \in Nat

Flows == 1..MaxFlows
Steps == 1..MaxSteps
Root == 1

VARIABLES
    flow,      \* status of each flow; "none" before its insert, "gone" once deleted
    caller,    \* surgraph_step_id of each flow, 0 for the root
    owner,     \* flow_id of each step
    status,    \* status of each step
    parked,    \* parked = parkedSubgraph
    done,      \* subgraph_done
    asked,     \* interrupt_done
    pc,        \* what the dispatch of a step is about to write
    revive,    \* completed flows whose completeSurgraphFlow is still to run
    plan,      \* the chain a Resume has read: its leaf and the callers above
    scan,      \* the flows a Terminate or an orphan recovery has read
    hits,      \* the wedged caller each sweeper has selected, or 0
    doomed,    \* delete_after_ms > 0 on the root
    budget,
    stale,     \* history: sweepers whose caller has parked again since they selected it
    stray      \* history: one of these has written something all the same

flowVars == <<flow, caller, doomed>>
stepVars == <<owner, status, parked, done, asked>>
history == <<stale, stray>>
vars == <<flowVars, stepVars, pc, revive, plan, scan, hits, budget, history>>

LiveFlow == {"running", "interrupted"}
TerminalFlow == {"completed", "failed", "terminated"}
LiveStep == {"pending", "running", "interrupted"}
TerminalStep == TerminalFlow
NoPlan == [leaf |-> 0, parks |-> {}]

Live(f) == flow[f] \in LiveFlow
Branches(f) == {s \in Steps : owner[s] = f /\ status[s] # "gone"}
Children(s) == {f \in Flows : caller[f] = s /\ flow[f] \notin {"none", "gone"}}
Parent(f) == IF caller[f] = 0 THEN 0 ELSE owner[caller[f]]

\* The flows above each flow: an insert hangs a new flow under an older one.
Above[f \in Flows] == IF Parent(f) = 0 THEN {} ELSE {Parent(f)} \cup Above[Parent(f)]

Chain(s) == {owner[s]} \cup Above[owner[s]]
CallersAbove(s) == {caller[f] : f \in Chain(s)} \ {0}

Below(f) == {g \in Flows : f \in Above[g] /\ flow[g] # "gone"}

\* allSubgraphFlows: a terminal flow is neither collected nor passed through.
AllSubgraphFlows(f) ==
    {g \in Below(f) : \A h \in {g} \cup Above[g] : f \in Above[h] => Live(h)}

-----------------------------------------------------------------------------
(* The guards of the statements. *)

\* The seeded fault of the release: it names the step and nothing else.
ReviveFenceUnguarded(c) == c # 0 /\ status[c] \notin {"none", "gone"}

ReviveFence(c) == c # 0 /\ status[c] = "running" /\ parked[c]

\* The seeded fault of the interrupt: the chain is committed without its leaf.
InterruptFenceNoLeaf(s) == status[s] \notin {"gone"}

InterruptFence(s) == status[s] \in {"running", "interrupted"}

\* The seeded fault of the sweep: no age guard (minAge = 0).
SettledParkAlways(s) == TRUE

\* What the age guard leaves to the sweep (parkWedgeThreshold, minutes): a
\* park whose child is not being inserted and whose release is not under way.
SettledPark(s) == pc[s] # "insert" /\ \A f \in revive : caller[f] # s

\* The seeded fault of failStep: a child fails on its first branch error.
ResolvesEagerly(s, st) ==
    st = "failed" \/ \A t \in Branches(owner[s]) \ {s} : status[t] \in {"completed", "failed"}

\* The outcome of the step ends its flow.
Resolves(s, st) == \A t \in Branches(owner[s]) \ {s} : status[t] \in {"completed", "failed"}

Lost(s, st) == st = "failed" \/ \E t \in Branches(owner[s]) \ {s} : status[t] = "failed"

\* The rows after the callers in cs were re-armed, the others being as in st.
Rearm(cs, st) ==
    /\ status' = [s \in Steps |-> IF s \in cs THEN "pending" ELSE st[s]]
    /\ parked' = [s \in Steps |-> parked[s] /\ s \notin cs /\ st[s] = status[s]]
    /\ done' = [s \in Steps |-> done[s] \/ s \in cs]
    /\ UNCHANGED <<owner, asked>>

-----------------------------------------------------------------------------
(* The dispatch of a step. *)

\* The step of a flow that stopped meanwhile takes its flow's status.
ClaimedAs(s) == IF Live(owner[s]) THEN "running" ELSE flow[owner[s]]

\* A claim is a new generation: what an older dispatch still had to write is
\* fenced off (module StepLease).
Claim(s) ==
    /\ status[s] = "pending" /\ ~parked[s]
    /\ status' = [status EXCEPT ![s] = ClaimedAs(s)]
    /\ pc' = [pc EXCEPT ![s] = "idle"]
    /\ UNCHANGED <<flowVars, owner, parked, done, asked, revive, plan, scan, hits, budget, history>>

Executing(s) == status[s] = "running" /\ ~parked[s] /\ pc[s] = "idle"

\* The fenced outcome write with what it does to the flow: completeFlow
\* leaves the release of the caller to a second transaction, a failure
\* delivers it in its own.
Outcome(s, st) ==
    LET f == owner[s]
        ends == Resolves(s, st)
        fails == ends /\ Lost(s, st)
        wins == ends /\ ~Lost(s, st) /\ Live(f)
    IN  /\ flow' = [flow EXCEPT ![f] =
                       IF ~Live(f) THEN @ ELSE IF fails THEN "failed"
                       ELSE IF wins THEN "completed" ELSE @]
        /\ Rearm({c \in {caller[f]} : fails /\ ReviveFence(c)}, [status EXCEPT ![s] = st])
        /\ revive' = IF wins /\ caller[f] # 0 THEN revive \cup {f} ELSE revive
        /\ UNCHANGED <<caller, doomed>>

Complete(s) ==
    /\ Executing(s)
    /\ Outcome(s, "completed")
    /\ UNCHANGED <<pc, plan, scan, hits, budget, history>>

FailStep(s) ==
    /\ Executing(s)
    /\ Outcome(s, "failed")
    /\ UNCHANGED <<pc, plan, scan, hits, budget, history>>

\* deleteSubgraphFlowsRootedAt: the children of the caller and all below them.
Discarded(s) == UNION {{f} \cup Below(f) : f \in Children(s)}

Delete(fs) ==
    /\ flow' = [f \in Flows |-> IF f \in fs THEN "gone" ELSE flow[f]]
    /\ UNCHANGED caller

DeletedSteps(fs) == {t \in Steps : owner[t] \in fs}

\* flow.Retry rewinds the step, clears its park slot and reaps its children.
Retry(s) ==
    /\ Executing(s) /\ budget > 0
    /\ LET fs == Discarded(s) IN
          /\ Delete(fs)
          /\ status' = [t \in Steps |-> IF t \in DeletedSteps(fs) THEN "gone"
                                        ELSE IF t = s THEN "pending" ELSE status[t]]
          /\ parked' = [t \in Steps |-> parked[t] /\ t \notin DeletedSteps(fs)]
    /\ done' = [done EXCEPT ![s] = FALSE]
    /\ asked' = [asked EXCEPT ![s] = FALSE]
    /\ budget' = budget - 1
    /\ UNCHANGED <<doomed, owner, pc, revive, plan, scan, hits, history>>

\* The next id of dwarf_flows.
NextFlow(f) == flow[f] = "none" /\ \A g \in Flows : g < f => flow[g] # "none"
Unused == {s \in Steps : status[s] = "none"}
NoRoom == Unused = {} \/ \A f \in Flows : flow[f] # "none"

\* flow.Subgraph parks the caller first ...
ParkCaller(s) ==
    /\ Executing(s) /\ ~done[s]
    /\ ~NoRoom
    /\ parked' = [parked EXCEPT ![s] = TRUE]
    /\ pc' = [pc EXCEPT ![s] = "insert"]
    /\ stale' = stale \cup {p \in Sweepers : hits[p] = s}
    /\ UNCHANGED <<flowVars, owner, status, done, asked, revive, plan, scan, hits, budget, stray>>

\* ... and then inserts the child, linked and running, with its steps; nothing
\* is asked of the caller's row, only that its flow still exists.
CreateSubgraphFlow(s) ==
    /\ pc[s] = "insert" /\ flow[owner[s]] # "gone"
    /\ \E f \in Flows, new \in SUBSET Unused :
          /\ NextFlow(f)
          /\ Cardinality(new) \in 1..MaxWidth /\ Cardinality(new) <= budget + 1
          /\ \A t \in new, u \in Unused \ new : t < u
          /\ flow' = [flow EXCEPT ![f] = "running"]
          /\ caller' = [caller EXCEPT ![f] = s]
          /\ owner' = [t \in Steps |-> IF t \in new THEN f ELSE owner[t]]
          /\ status' = [t \in Steps |-> IF t \in new THEN "pending" ELSE status[t]]
          /\ budget' = budget + 1 - Cardinality(new)
    /\ pc' = [pc EXCEPT ![s] = "idle"]
    /\ UNCHANGED <<doomed, parked, done, asked, revive, plan, scan, hits, history>>

\* The insert fails, or the caller's flow is gone: the parked caller is failed.
CreateFails(s) ==
    /\ pc[s] = "insert"
    /\ \/ (flow[owner[s]] = "gone" \/ NoRoom) /\ UNCHANGED budget
       \/ budget > 0 /\ budget' = budget - 1
    /\ pc' = [pc EXCEPT ![s] = "idle"]
    /\ IF status[s] \in {"running", "completed"}
          THEN Outcome(s, "failed")
          ELSE UNCHANGED <<flowVars, stepVars, revive>>
    /\ UNCHANGED <<plan, scan, hits, history>>

\* The replica dies between the park and the insert.
DieParked(s) ==
    /\ pc[s] = "insert" /\ budget > 0
    /\ pc' = [pc EXCEPT ![s] = "idle"]
    /\ budget' = budget - 1
    /\ UNCHANGED <<flowVars, stepVars, revive, plan, scan, hits, history>>

\* The replica dies, or the task overruns: recoverExpiredLeases takes the step.
LeaseExpires(s) ==
    /\ status[s] = "running" /\ ~parked[s] /\ budget > 0
    /\ status' = [status EXCEPT ![s] = "pending"]
    /\ budget' = budget - 1
    /\ UNCHANGED <<flowVars, owner, parked, done, asked, pc, revive, plan, scan, hits, history>>

\* handleInterrupt reads the chain of callers, which never changes ...
Interrupt(s) ==
    /\ Executing(s) /\ ~asked[s]
    /\ pc' = [pc EXCEPT ![s] = "interrupt"]
    /\ UNCHANGED <<flowVars, stepVars, revive, plan, scan, hits, budget, history>>

\* ... and moves the leaf, its callers and their flows in one transaction, or
\* nothing when the leaf is no longer its own.
HandleInterrupt(s) ==
    /\ pc[s] = "interrupt"
    /\ pc' = [pc EXCEPT ![s] = "idle"]
    /\ IF InterruptFence(s)
          THEN LET rows == {t \in {s} \cup CallersAbove(s) : status[t] \in {"running", "interrupted"}}
               IN  /\ status' = [t \in Steps |-> IF t \in rows THEN "interrupted" ELSE status[t]]
                   /\ parked' = [t \in Steps |-> parked[t] /\ t \notin rows]
                   /\ asked' = [asked EXCEPT ![s] = TRUE]
                   /\ flow' = [f \in Flows |-> IF f \in Chain(s) /\ Live(f) THEN "interrupted" ELSE flow[f]]
          ELSE UNCHANGED <<status, parked, asked, flow>>
    /\ UNCHANGED <<caller, doomed, owner, done, revive, plan, scan, hits, budget, history>>

-----------------------------------------------------------------------------
(* The release of a caller. *)

\* completeSurgraphFlow, after the child's completion has committed.
CompleteSurgraphFlow(f) ==
    /\ f \in revive
    /\ revive' = revive \ {f}
    /\ Rearm({c \in {caller[f]} : ReviveFence(c)}, status)
    /\ UNCHANGED <<flowVars, pc, plan, scan, hits, budget, history>>

\* The replica dies before the release.
LoseRevive(f) ==
    /\ f \in revive /\ budget > 0
    /\ revive' = revive \ {f}
    /\ budget' = budget - 1
    /\ UNCHANGED <<flowVars, stepVars, pc, plan, scan, hits, history>>

\* The seeded fault of the sweep: a caller whose child never came is skipped.
WedgedByChild(s) == Children(s) # {} /\ \A f \in Children(s) : ~Live(f)

Wedged(s) == \A f \in Children(s) : ~Live(f)

\* recoverWedgedSubgraphParks selects a parked caller without a live child ...
SelectWedged(p, s) ==
    /\ hits[p] = 0
    /\ status[s] = "running" /\ parked[s] /\ SettledPark(s) /\ Wedged(s)
    /\ hits' = [hits EXCEPT ![p] = s]
    /\ UNCHANGED <<flowVars, stepVars, pc, revive, plan, scan, budget, history>>

Latest(s) == {f \in Children(s) : \A g \in Children(s) : g <= f}

\* ... and re-drives the release with what its latest child said when the sweep
\* read it: no child or a lost one is an error, which also fails the child if it
\* is live. A caller that has parked again since may have a younger child.
RecoverWedged(p) ==
    LET c == hits[p] IN
    /\ c # 0
    /\ hits' = [hits EXCEPT ![p] = 0]
    /\ \E read \in {Latest(c), {}} :
          flow' = [f \in Flows |-> IF f \in read /\ Live(f) THEN "failed" ELSE flow[f]]
    /\ Rearm({t \in {c} : ReviveFence(t)}, status)
    /\ stale' = stale \ {p}
    /\ stray' = (stray \/ (p \in stale /\ (flow' # flow \/ ReviveFence(c))))
    /\ UNCHANGED <<caller, doomed, pc, revive, plan, scan, budget>>

-----------------------------------------------------------------------------
(* The operations of the API, and the orphan recovery. *)

\* resume reads the interrupted chain from the root down to a leaf that asked.
ReadChain ==
    /\ plan = NoPlan /\ flow[Root] = "interrupted"
    /\ \E s \in Steps :
          /\ status[s] = "interrupted" /\ asked[s]
          /\ \A t \in CallersAbove(s) : status[t] = "interrupted"
          /\ \A f \in Chain(s) : flow[f] = "interrupted"
          /\ \A f \in Children(s) : flow[f] # "interrupted"
          /\ plan' = [leaf |-> s, parks |-> CallersAbove(s)]
    /\ UNCHANGED <<flowVars, stepVars, pc, revive, scan, hits, budget, history>>

ResumeGate == flow[Root] = "interrupted"

\* The transaction of resume: the callers are parked again, the leaf is due,
\* and every flow of the chain without another interrupted step runs on.
Resume ==
    /\ plan # NoPlan
    /\ plan' = NoPlan
    /\ LET st == [s \in Steps |-> IF status[s] # "interrupted" THEN status[s]
                                  ELSE IF s \in plan.parks THEN "running"
                                  ELSE IF s = plan.leaf THEN "pending" ELSE status[s]]
           Left(f) == {s \in Branches(f) : st[s] = "interrupted"}
       IN  IF ResumeGate
              THEN /\ status' = st
                   /\ parked' = [s \in Steps |-> parked[s] \/ (s \in plan.parks /\ status[s] = "interrupted")]
                   /\ flow' = [f \in Flows |->
                         IF f \in Chain(plan.leaf) /\ flow[f] = "interrupted" /\ Left(f) = {}
                            THEN "running" ELSE flow[f]]
              ELSE UNCHANGED <<status, parked, flow>>
    /\ UNCHANGED <<caller, doomed, owner, done, asked, pc, revive, scan, hits, budget, history>>

\* terminate: the tree is read outside the transaction.
ScanTerminate ==
    /\ scan = {} /\ Live(Root)
    /\ scan' = {Root} \cup AllSubgraphFlows(Root)
    /\ UNCHANGED <<flowVars, stepVars, pc, revive, plan, hits, budget, history>>

\* The seeded fault of the orphan sweep: an interrupted child is left alone.
OrphanedRunning(f) ==
    flow[f] = "running" /\ Parent(f) # 0 /\ flow[Parent(f)] \in TerminalFlow

\* A live child whose parent has stopped.
Orphaned(f) == Live(f) /\ Parent(f) # 0 /\ flow[Parent(f)] \in TerminalFlow

\* recoverOrphanedSubgraphChildren: the child shares its parent's fate.
ScanOrphan(f) ==
    /\ scan = {} /\ Orphaned(f)
    /\ scan' = {f} \cup AllSubgraphFlows(f)
    /\ UNCHANGED <<flowVars, stepVars, pc, revive, plan, hits, budget, history>>

\* terminateSubtree: a Terminate that finds nothing live is rolled back.
TerminateSubtree ==
    /\ scan # {}
    /\ scan' = {}
    /\ IF Root \in scan /\ \A f \in scan : ~Live(f)
          THEN UNCHANGED <<flow, status, parked>>
          ELSE LET hit == {s \in Steps : owner[s] \in scan /\ status[s] \in LiveStep}
               IN  /\ status' = [s \in Steps |-> IF s \in hit THEN "terminated" ELSE status[s]]
                   /\ parked' = [s \in Steps |-> parked[s] /\ s \notin hit]
                   /\ flow' = [f \in Flows |-> IF f \in scan /\ Live(f) THEN "terminated" ELSE flow[f]]
    /\ UNCHANGED <<caller, doomed, owner, done, asked, pc, revive, plan, hits, budget, history>>

\* deleteFlow: the root is stamped, and terminated if it was interrupted.
DeleteFlow ==
    /\ ~doomed /\ flow[Root] \notin {"running", "gone"}
    /\ doomed' = TRUE
    /\ flow' = [flow EXCEPT ![Root] = IF @ = "interrupted" THEN "terminated" ELSE @]
    /\ UNCHANGED <<caller, stepVars, pc, revive, plan, scan, hits, budget, history>>

\* reapDueFlows: the whole tree goes in one transaction.
ReapTree ==
    /\ doomed /\ flow[Root] # "gone"
    /\ Delete({f \in Flows : flow[f] # "none"})
    /\ status' = [s \in Steps |-> IF status[s] = "none" THEN "none" ELSE "gone"]
    /\ parked' = [s \in Steps |-> FALSE]
    /\ UNCHANGED <<doomed, owner, done, asked, pc, revive, plan, scan, hits, budget, history>>

-----------------------------------------------------------------------------
Init ==
    /\ flow = [f \in Flows |-> IF f = Root THEN "running" ELSE "none"]
    /\ caller = [f \in Flows |-> 0]
    /\ \E n \in 1..MaxWidth :
          /\ n <= MaxBudget + 1 /\ budget = MaxBudget + 1 - n
          /\ owner = [s \in Steps |-> IF s <= n THEN Root ELSE 0]
          /\ status = [s \in Steps |-> IF s <= n THEN "pending" ELSE "none"]
    /\ parked = [s \in Steps |-> FALSE]
    /\ done = [s \in Steps |-> FALSE]
    /\ asked = [s \in Steps |-> FALSE]
    /\ pc = [s \in Steps |-> "idle"]
    /\ revive = {} /\ scan = {} /\ doomed = FALSE
    /\ plan = NoPlan
    /\ hits = [p \in Sweepers |-> 0]
    /\ stale = {} /\ stray = FALSE

Dispatch(s) ==
    \/ Claim(s) \/ Complete(s) \/ FailStep(s) \/ Retry(s)
    \/ ParkCaller(s) \/ CreateSubgraphFlow(s) \/ CreateFails(s)
    \/ Interrupt(s) \/ HandleInterrupt(s)

Sweep ==
    \/ \E p \in Sweepers, s \in Steps : SelectWedged(p, s)
    \/ \E p \in Sweepers : RecoverWedged(p)
    \/ \E f \in Flows : ScanOrphan(f)
    \/ TerminateSubtree

Misfortune ==
    \/ \E s \in Steps : DieParked(s) \/ LeaseExpires(s)
    \/ \E f \in Flows : LoseRevive(f)

Operator == ReadChain \/ Resume \/ ScanTerminate \/ DeleteFlow \/ ReapTree

Next ==
    \/ \E s \in Steps : Dispatch(s)
    \/ \E f \in Flows : CompleteSurgraphFlow(f)
    \/ Sweep \/ Misfortune \/ Operator

Spec == Init /\ [][Next]_vars

\* Workers claim and finish, a release that is under way lands, and every
\* sweeper goes round; nobody has to resume, terminate or delete anything.
Fairness ==
    /\ \A s \in Steps : WF_vars(Dispatch(s))
    /\ \A f \in Flows : WF_vars(CompleteSurgraphFlow(f)) /\ WF_vars(ScanOrphan(f))
    /\ \A p \in Sweepers :
          /\ WF_vars(\E s \in Steps : SelectWedged(p, s))
          /\ WF_vars(RecoverWedged(p))
    /\ WF_vars(TerminateSubtree)

FairSpec == Spec /\ Fairness

-----------------------------------------------------------------------------
(* Properties. *)

TypeOK ==
    /\ flow \in [Flows -> {"none", "gone"} \cup LiveFlow \cup TerminalFlow]
    /\ caller \in [Flows -> {0} \cup Steps]
    /\ owner \in [Steps -> {0} \cup Flows]
    /\ status \in [Steps -> {"none", "gone"} \cup LiveStep \cup TerminalStep]
    /\ parked \in [Steps -> BOOLEAN] /\ done \in [Steps -> BOOLEAN]
    /\ asked \in [Steps -> BOOLEAN]
    /\ pc \in [Steps -> {"idle", "insert", "interrupt"}]
    /\ revive \subseteq Flows /\ scan \subseteq Flows
    /\ plan \in [leaf : {0} \cup Steps, parks : SUBSET Steps]
    /\ hits \in [Sweepers -> {0} \cup Steps]
    /\ doomed \in BOOLEAN /\ budget \in 0..MaxBudget
    /\ stale \subseteq Sweepers /\ stray \in BOOLEAN

\* A stop is final for the whole tree: whatever release, sweep, interrupt or
\* Resume was under way when a flow or step stopped, it does not bring the row
\* back. Only deletion takes it away.
TerminalIsFinal ==
    [][/\ \A f \in Flows : flow[f] \in TerminalFlow => flow'[f] \in {flow[f], "gone"}
       /\ \A s \in Steps : status[s] \in TerminalStep => status'[s] \in {status[s], "gone"}]_vars

\* The next two hold until a sweep releases a park that is younger than its
\* selection (stray, which takes two sweepers): nothing in the code stops that, and
\* SweepIsHarmless, below, is what it breaks first.

\* "An interrupted flow on the descent always has an interrupted step"
\* (interruptedSubgraphChain): a Resume of the root can walk down to a leaf,
\* and no caller is left interrupted, out of its child's reach, for nothing.
PausedFlowHasPausedStep ==
    ~stray => \A f \in Flows :
        flow[f] = "interrupted" => \E s \in Branches(f) : status[s] = "interrupted"

\* What is settled has nothing live below it, however many replicas' sweeps have
\* selected the callers above it. "The park only resolves on a terminal child"
\* (processStep, which deletes the children of a retried caller on the strength of
\* it), and "a parent goes terminal only after its live subgraphs resolve"
\* (recoverOrphanedSubgraphChildren): a flow that completed or failed leaves no
\* live step and no live child behind; only Terminate and Delete can.
SettledTreeIsQuiet ==
    ~stray =>
        /\ \A s \in Steps : done[s] => \A f \in Children(s) : ~Live(f)
        /\ \A f \in Flows : flow[f] \in {"completed", "failed"} =>
              \A s \in Branches(f) : status[s] \notin LiveStep /\ \A g \in Children(s) : ~Live(g)

\* The recovery is "harmless under a concurrent resolution, a false positive, or
\* a peer sweeping the same shard" (runRecoverySweep) while the park it selected
\* lasts or was its caller's last: then it fails no live flow, and does not release
\* the caller under a live child, whatever the peers and the workers did between.
LateSweepIsHarmless ==
    [][\A p \in Sweepers : hits[p] # 0 /\ hits'[p] = 0 /\ p \notin stale =>
          /\ \A f \in Flows : Live(f) => flow'[f] = flow[f]
          /\ \A f \in Children(hits[p]) : ~Live(f)]_vars

\* No caller waits for ever for a child that ended, was lost or never came,
\* unless somebody has to answer an interrupt.
ParkEnds ==
    \A s \in Steps :
        parked[s] ~> (~parked[s] \/ \E t \in Steps : status[t] = "interrupted")

\* No child outlives its tree for good.
OrphansEnd == ~Live(Root) ~> \A f \in Flows : ~Live(f)

\* "An interrupt inside a child propagates up so the caller awaiting the
\* top-level flow sees interrupted" (docs): while a leaf below a live root
\* waits for an answer the root is interrupted, and so takes a Resume.
InterruptReachesRoot ==
    (\E s \in Steps : status[s] = "interrupted" /\ \A f \in Chain(s) : Live(f))
        => flow[Root] = "interrupted"

\* The same of every sweep, the one whose caller has parked again included: it
\* fails no live flow.
SweepIsHarmless ==
    [][\A p \in Sweepers : hits[p] # 0 /\ hits'[p] = 0 =>
          \A f \in Flows : Live(f) => flow'[f] = flow[f]]_vars
=============================================================================
