-------------------------- MODULE SubgraphProofs --------------------------
(***************************************************************************)
(* Trees of any size, swept by any number of replicas. First: a stop is    *)
(* final. Then what a sweep may rely on when it comes back to a caller it  *)
(* selected (Selections). Then, until a sweep releases a park that is      *)
(* younger than its selection (stray), what holds of whole chains: a       *)
(* paused flow has a paused step, a released caller has no live child, a   *)
(* flow that ended has nothing live below it. They follow from one         *)
(* invariant, IInv, kept by each action; the walks up a chain are          *)
(* arguments by the oldest flow that does not fit (SmallestElement).       *)
(***************************************************************************)
EXTENDS Subgraph, Integers, FiniteSetTheorems, WellFoundedInduction, TLAPS

\* The tables are total, and a dispatch which is to insert a child has not
\* completed its step: the outcome write of a failed insert admits completed
\* rows, so this is what keeps it from failing one.
Rows ==
    /\ flow = [f \in Flows |-> flow[f]]
    /\ status = [s \in Steps |-> status[s]]
    /\ pc = [s \in Steps |-> pc[s]]
    /\ \A s \in Steps : pc[s] = "insert" => status[s] # "completed"

\* What a step of the system may do to the rows that have stopped.
Final ==
    /\ \A f \in Flows : flow[f] \in TerminalFlow => flow'[f] \in {flow[f], "gone"}
    /\ \A s \in Steps : status[s] \in TerminalStep => status'[s] \in {status[s], "gone"}

Kept == Rows' /\ Final

USE DEF LiveFlow, TerminalFlow, LiveStep, TerminalStep

\* Initially the tables have one flow and its pending steps.
LEMMA InitRows == Init => Rows
BY DEF Init, Rows

\* A step that leaves the tables alone keeps everything.
LEMMA StutterKeeps ==
    ASSUME Rows, UNCHANGED <<flow, status, pc>>
    PROVE  Kept
BY DEF Rows, Final, Kept

\* A step that only withdraws a dispatch keeps everything.
LEMMA IdleKeeps ==
    ASSUME Rows, UNCHANGED <<flow, status>>, NEW s \in Steps, pc' = [pc EXCEPT ![s] = "idle"]
    PROVE  Kept
BY DEF Rows, Final, Kept

\* Re-arming callers that run changes no other row from what st says.
LEMMA RearmKeeps ==
    ASSUME NEW st, NEW cs, \A c \in cs : status[c] = "running", Rearm(cs, st)
    PROVE  /\ status' = [s \in Steps |-> status'[s]]
           /\ \A s \in Steps : status'[s] \in {st[s], "pending"}
           /\ \A s \in Steps : status[s] # "running" => status'[s] = st[s]
BY DEF Rearm

\* Neither an outcome write nor the delivery it carries changes a stopped row.
LEMMA OutcomeKeeps ==
    ASSUME Rows, NEW s \in Steps, NEW st \in {"completed", "failed"},
           status[s] = "running", Outcome(s, st)
    PROVE  /\ flow' = [f \in Flows |-> flow'[f]]
           /\ status' = [t \in Steps |-> status'[t]]
           /\ Final
           /\ \A t \in Steps : status'[t] = "completed" =>
                 status[t] = "completed" \/ (t = s /\ st = "completed")
PROOF
<1> DEFINE next == [status EXCEPT ![s] = st]
           cs == {c \in {caller[owner[s]]} : Resolves(s, st) /\ Lost(s, st) /\ ReviveFence(c)}
<1>1. \A c \in cs : status[c] = "running"
  BY DEF ReviveFence
<1>2. Rearm(cs, next)
  BY DEF Outcome
<1>3. /\ status' = [t \in Steps |-> status'[t]]
      /\ \A t \in Steps : status'[t] \in {next[t], "pending"}
      /\ \A t \in Steps : status[t] # "running" => status'[t] = next[t]
  <2> HIDE DEF next, cs
  <2> QED BY <1>1, <1>2, RearmKeeps
<1>4. /\ flow' = [f \in Flows |-> flow'[f]]
      /\ \A f \in Flows : flow[f] \in TerminalFlow => flow'[f] = flow[f]
  BY DEF Outcome, Rows, Live
<1>5. /\ \A t \in Steps : t # s => next[t] = status[t]
      /\ next[s] = st
  BY DEF Rows
<1>6. \A t \in Steps : status[t] \in TerminalStep => status'[t] = status[t]
  <2> HIDE DEF next
  <2> QED BY <1>3, <1>5
<1>7. \A t \in Steps : status'[t] = "completed" =>
         status[t] = "completed" \/ (t = s /\ st = "completed")
  <2> HIDE DEF next
  <2> QED BY <1>3, <1>5
<1> QED BY <1>3, <1>4, <1>6, <1>7 DEF Final

\* What a dispatch writes: a claim, an outcome, a retry, a park and its child,
\* an interrupt.
LEMMA DispatchKeeps ==
    ASSUME Rows, NEW s \in Steps, Dispatch(s)
    PROVE  Kept
PROOF
<1>1. CASE Claim(s)
  BY <1>1 DEF Claim, Rows, Final, Kept, flowVars
<1>2. CASE Complete(s)
  <2>1. status[s] = "running" /\ pc[s] = "idle" /\ Outcome(s, "completed") /\ pc' = pc
    BY <1>2 DEF Complete, Executing
  <2> QED BY <2>1, OutcomeKeeps DEF Rows, Kept
<1>3. CASE FailStep(s)
  <2>1. status[s] = "running" /\ Outcome(s, "failed") /\ pc' = pc
    BY <1>3 DEF FailStep, Executing
  <2> QED BY <2>1, OutcomeKeeps DEF Rows, Kept
<1>4. CASE Retry(s)
  BY <1>4 DEF Retry, Executing, Delete, Rows, Final, Kept
<1>5. CASE ParkCaller(s)
  BY <1>5 DEF ParkCaller, Executing, Rows, Final, Kept, flowVars
<1>6. CASE CreateSubgraphFlow(s)
  BY <1>6 DEF CreateSubgraphFlow, NextFlow, Unused, Rows, Final, Kept
<1>7. CASE CreateFails(s)
  <2>1. pc[s] = "insert" /\ pc' = [pc EXCEPT ![s] = "idle"]
    BY <1>7 DEF CreateFails
  <2>2. CASE status[s] = "running" /\ Outcome(s, "failed")
    <3>1. /\ flow' = [f \in Flows |-> flow'[f]]
          /\ status' = [t \in Steps |-> status'[t]]
          /\ Final
          /\ \A t \in Steps : status'[t] = "completed" => status[t] = "completed"
      BY <2>2, OutcomeKeeps
    <3> QED BY <2>1, <3>1 DEF Rows, Kept
  <2>3. CASE UNCHANGED <<flow, status>>
    BY <2>1, <2>3, IdleKeeps
  <2> QED BY <1>7, <2>1, <2>2, <2>3 DEF CreateFails, Rows, flowVars, stepVars
<1>8. CASE Interrupt(s)
  BY <1>8 DEF Interrupt, Rows, Final, Kept, flowVars, stepVars
<1>9. CASE HandleInterrupt(s)
  <2>1. pc' = [pc EXCEPT ![s] = "idle"]
    BY <1>9 DEF HandleInterrupt
  <2>2. CASE UNCHANGED <<flow, status>>
    BY <2>1, <2>2, IdleKeeps
  <2>3. CASE InterruptFence(s)
    <3> DEFINE rows == {t \in {s} \cup CallersAbove(s) : status[t] \in {"running", "interrupted"}}
    <3>1. /\ status' = [t \in Steps |-> IF t \in rows THEN "interrupted" ELSE status[t]]
          /\ flow' = [f \in Flows |-> IF f \in Chain(s) /\ Live(f) THEN "interrupted" ELSE flow[f]]
      BY <1>9, <2>3 DEF HandleInterrupt
    <3> QED BY <2>1, <3>1 DEF Rows, Final, Kept, Live
  <2> QED BY <1>9, <2>2, <2>3 DEF HandleInterrupt
<1> QED
  BY <1>1, <1>2, <1>3, <1>4, <1>5, <1>6, <1>7, <1>8, <1>9 DEF Dispatch

\* The release of a caller touches a caller that runs.
LEMMA ReleaseKeeps ==
    ASSUME Rows, NEW f \in Flows, CompleteSurgraphFlow(f)
    PROVE  Kept
PROOF
<1> DEFINE cs == {c \in {caller[f]} : ReviveFence(c)}
<1>1. \A c \in cs : status[c] = "running"
  BY DEF ReviveFence
<1>2. Rearm(cs, status) /\ UNCHANGED <<flow, pc>>
  BY DEF CompleteSurgraphFlow, flowVars
<1> HIDE DEF cs
<1>3. /\ status' = [s \in Steps |-> status'[s]]
      /\ \A s \in Steps : status'[s] \in {status[s], "pending"}
      /\ \A s \in Steps : status[s] # "running" => status'[s] = status[s]
  BY <1>1, <1>2, RearmKeeps
<1> QED BY <1>2, <1>3 DEF Rows, Final, Kept

\* Whatever a sweeper read, what it writes leaves stopped rows alone.
LEMMA SweepKeeps ==
    ASSUME Rows, Sweep
    PROVE  Kept
PROOF
<1>1. ASSUME NEW p \in Sweepers, NEW s \in Steps, SelectWedged(p, s) PROVE Kept
  BY <1>1, StutterKeeps DEF SelectWedged, flowVars, stepVars
<1>2. ASSUME NEW p \in Sweepers, RecoverWedged(p) PROVE Kept
  <2> DEFINE cs == {c \in {hits[p]} : ReviveFence(c)}
  <2>1. \A c \in cs : status[c] = "running"
    BY DEF ReviveFence
  <2>2. PICK read \in {Latest(hits[p]), {}} :
           flow' = [f \in Flows |-> IF f \in read /\ Live(f) THEN "failed" ELSE flow[f]]
    BY <1>2 DEF RecoverWedged
  <2>3. Rearm(cs, status) /\ UNCHANGED pc
    BY <1>2 DEF RecoverWedged
  <2> HIDE DEF cs
  <2>4. /\ status' = [s \in Steps |-> status'[s]]
        /\ \A s \in Steps : status'[s] \in {status[s], "pending"}
        /\ \A s \in Steps : status[s] # "running" => status'[s] = status[s]
    BY <2>1, <2>3, RearmKeeps
  <2> QED BY <2>2, <2>3, <2>4 DEF Rows, Final, Kept, Live
<1>3. ASSUME NEW f \in Flows, ScanOrphan(f) PROVE Kept
  BY <1>3, StutterKeeps DEF ScanOrphan, flowVars, stepVars
<1>4. CASE TerminateSubtree
  <2>1. pc' = pc
    BY <1>4 DEF TerminateSubtree
  <2>2. CASE UNCHANGED <<flow, status>>
    BY <2>1, <2>2, StutterKeeps
  <2>3. CASE ~UNCHANGED <<flow, status>>
    BY <1>4, <2>1, <2>3 DEF TerminateSubtree, Rows, Final, Kept, Live
  <2> QED BY <2>2, <2>3
<1> QED BY <1>1, <1>2, <1>3, <1>4 DEF Sweep

\* A death or an overrun stops nothing and revives nothing that has stopped.
LEMMA MisfortuneKeeps ==
    ASSUME Rows, Misfortune
    PROVE  Kept
PROOF
<1>1. ASSUME NEW s \in Steps, DieParked(s) PROVE Kept
  BY <1>1, IdleKeeps DEF DieParked, flowVars, stepVars
<1>2. ASSUME NEW s \in Steps, LeaseExpires(s) PROVE Kept
  BY <1>2 DEF LeaseExpires, Rows, Final, Kept, flowVars
<1>3. ASSUME NEW f \in Flows, LoseRevive(f) PROVE Kept
  BY <1>3, StutterKeeps DEF LoseRevive, flowVars, stepVars
<1> QED BY <1>1, <1>2, <1>3 DEF Misfortune

\* The operations of the API: a Resume turns interrupted rows only.
LEMMA OperatorKeeps ==
    ASSUME Rows, Operator
    PROVE  Kept
PROOF
<1>1. CASE ReadChain
  BY <1>1, StutterKeeps DEF ReadChain, flowVars, stepVars
<1>2. CASE Resume
  <2>1. pc' = pc
    BY <1>2 DEF Resume
  <2>2. CASE UNCHANGED <<flow, status>>
    BY <2>1, <2>2, StutterKeeps
  <2>3. CASE ResumeGate
    <3>1. /\ status' = [s \in Steps |-> status'[s]]
          /\ \A s \in Steps : status[s] # "interrupted" => status'[s] = status[s]
          /\ \A s \in Steps : status'[s] \in {status[s], "running", "pending"}
      BY <1>2, <2>3 DEF Resume
    <3>2. /\ flow' = [f \in Flows |-> flow'[f]]
          /\ \A f \in Flows : flow[f] # "interrupted" => flow'[f] = flow[f]
      BY <1>2, <2>3 DEF Resume
    <3> QED BY <2>1, <3>1, <3>2 DEF Rows, Final, Kept
  <2> QED BY <1>2, <2>2, <2>3 DEF Resume
<1>3. CASE ScanTerminate
  BY <1>3, StutterKeeps DEF ScanTerminate, flowVars, stepVars
<1>4. CASE DeleteFlow
  BY <1>4 DEF DeleteFlow, Rows, Final, Kept, stepVars
<1>5. CASE ReapTree
  BY <1>5 DEF ReapTree, Delete, Rows, Final, Kept
<1> QED BY <1>1, <1>2, <1>3, <1>4, <1>5 DEF Operator

\* Every step of the system keeps the tables and the rows that have stopped.
LEMMA NextKeeps == Rows /\ [Next]_vars => Rows' /\ [Final]_vars
PROOF
<1> SUFFICES ASSUME Rows, [Next]_vars PROVE Kept
  BY DEF Kept
<1>1. CASE UNCHANGED vars
  BY <1>1, StutterKeeps DEF vars, flowVars, stepVars
<1>2. CASE Next
  BY <1>2, DispatchKeeps, ReleaseKeeps, SweepKeeps, MisfortuneKeeps, OperatorKeeps DEF Next
<1> QED BY <1>1, <1>2

\* A flow or step that completed, failed or was terminated never changes its
\* status again, except to be deleted: for trees of any size, any number of
\* sweeping replicas and any order of releases, Resumes and Terminates.
THEOREM StopIsFinal == Spec => TerminalIsFinal
PROOF
<1>1. Init => Rows
  BY InitRows
<1>2. Rows /\ [Next]_vars => Rows'
  BY NextKeeps
<1>3. Rows /\ [Next]_vars => [Final]_vars
  BY NextKeeps
<1> QED BY <1>1, <1>2, <1>3, PTL DEF Spec, TerminalIsFinal, Final

-----------------------------------------------------------------------------
(* The tree *)

\* A flow hangs under a step of an older one, for good; ids are given in order.
TreeShape ==
    /\ caller[Root] = 0 /\ flow[Root] # "none"
    /\ \A f \in Flows : flow[f] = "none" => caller[f] = 0 /\ \A g \in Flows : f < g => flow[g] = "none"
    /\ \A f \in Flows : f # Root /\ flow[f] # "none" =>
          caller[f] # 0 /\ owner[caller[f]] # 0 /\ owner[caller[f]] < f
    /\ \A s \in Steps : owner[s] = 0 <=> status[s] = "none"
    /\ \A s \in Steps : owner[s] # 0 => flow[owner[s]] # "none"
    /\ \A s \in Steps : status[s] = "none" => pc[s] = "idle" /\ ~done[s] /\ ~parked[s]

\* A flow is deleted with its steps and with everything below it.
GoneWhole ==
    /\ \A s \in Steps : owner[s] # 0 => (status[s] = "gone" <=> flow[owner[s]] = "gone")
    /\ \A f \in Flows : caller[f] # 0 /\ flow[owner[caller[f]]] = "gone" => flow[f] = "gone"

\* The steps of a flow that stopped: an end of its own finds them all ended; a
\* termination ends them, but for the root that was deleted while interrupted.
StoppedSteps ==
    \A s \in Steps : owner[s] # 0 =>
        /\ flow[owner[s]] \in {"completed", "failed"} => status[s] \in {"completed", "failed"}
        /\ flow[owner[s]] = "terminated" /\ owner[s] # Root => status[s] \notin LiveStep
        /\ status[s] = "terminated" => ~Live(owner[s])

\* Termination reaches a flow from above.
TerminatedFromAbove ==
    \A f \in Flows : flow[f] = "terminated" /\ caller[f] # 0 => flow[owner[caller[f]]] = "terminated"

\* A live child has a caller that waits for it, and is its only one; it is
\* interrupted if its caller is.
LiveChild ==
    \A f \in Flows : Live(f) /\ caller[f] # 0 =>
        /\ ~done[caller[f]] /\ pc[caller[f]] = "idle"
        /\ \/ status[caller[f]] = "running" /\ parked[caller[f]]
           \/ status[caller[f]] = "interrupted" /\ flow[f] = "interrupted"
           \/ status[caller[f]] = "terminated"
        /\ \A g \in Flows : g # f /\ caller[g] = caller[f] => ~Live(g) /\ flow[g] # "terminated"

Childless(s) == \A f \in Flows : caller[f] = s => ~Live(f) /\ flow[f] # "terminated"
NoLiveChild(s) == \A f \in Flows : caller[f] = s => ~Live(f)

\* What a dispatch that is not at rest may rely on.
DispatchShape ==
    \A s \in Steps :
        /\ status[s] = "running" /\ ~parked[s] => Childless(s)
        /\ pc[s] = "insert" =>
              /\ ~done[s] /\ Childless(s)
              /\ (status[s] = "running" /\ parked[s]) \/ status[s] \in {"terminated", "gone"}
        /\ pc[s] = "interrupt" =>
              ~parked[s] /\ status[s] \in {"running", "pending", "terminated", "gone"}

\* A release under way has a caller that waits for nothing else.
ReviveShape ==
    \A f \in revive :
        /\ flow[f] # "none" /\ caller[f] # 0 /\ Childless(caller[f]) /\ pc[caller[f]] = "idle"
        /\ \/ status[caller[f]] = "running" /\ parked[caller[f]]
           \/ status[caller[f]] \in {"terminated", "gone"}
        /\ \A g \in revive : caller[g] = caller[f] => g = f

\* The chain a Resume has read is the chain it writes.
PlanShape ==
    plan # NoPlan =>
        /\ plan.leaf \in Steps /\ plan.parks = CallersAbove(plan.leaf)
        /\ NoLiveChild(plan.leaf) /\ pc[plan.leaf] = "idle"
        /\ status[plan.leaf] \in {"interrupted", "terminated", "gone"}

\* The tree that a Terminate has read is closed upwards, up to what has stopped.
ScanShape ==
    \A f \in scan :
        /\ flow[f] # "none"
        /\ f = Root \/ owner[caller[f]] \in scan \/ flow[owner[caller[f]]] \in {"terminated", "gone"}

\* A flow that waits for a Resume has the step for it.
PausedShape ==
    \A f \in Flows : flow[f] = "interrupted" => \E s \in Branches(f) : status[s] = "interrupted"

IInv ==
    /\ TypeOK /\ TreeShape /\ GoneWhole /\ StoppedSteps /\ TerminatedFromAbove /\ LiveChild
    /\ DispatchShape /\ ReviveShape /\ PlanShape /\ ScanShape
    /\ PausedShape

-----------------------------------------------------------------------------
(* The selections of the sweeps *)

\* What a sweep may rely on while its caller has not parked again since it was
\* selected: no child has come, none is being inserted, and no release that was
\* owed then or since concerns it, whoever else has released the caller.
Selections ==
    /\ caller = [f \in Flows |-> caller[f]] /\ hits = [p \in Sweepers |-> hits[p]]
    /\ \A f \in Flows : f \in revive => flow[f] # "none"
    /\ \A p \in Sweepers : hits[p] # 0 /\ p \notin stale =>
          /\ hits[p] \in Steps /\ NoLiveChild(hits[p]) /\ pc[hits[p]] # "insert"
          /\ \A f \in Flows : f \in revive => caller[f] # hits[p]

\* What a step may do that concerns the selections: a flow comes to life by the
\* insert of a parked caller only, a release is owed for a live flow only, an
\* insert is begun by a park, which is younger than every selection.
Moves ==
    /\ caller' = [f \in Flows |-> caller'[f]] /\ hits' = [p \in Sweepers |-> hits'[p]]
    /\ \A f \in Flows :
          /\ flow[f] # "none" => flow'[f] # "none" /\ caller'[f] = caller[f]
          /\ flow'[f] \in LiveFlow =>
                flow[f] \in LiveFlow \/ (caller'[f] \in Steps /\ pc[caller'[f]] = "insert")
          /\ f \in revive' => f \in revive \/ flow[f] \in LiveFlow
    /\ \A s \in Steps : pc'[s] = "insert" =>
          pc[s] = "insert" \/ \A p \in Sweepers : hits[p] = s => p \in stale'
    /\ \A p \in Sweepers :
          \/ hits'[p] = 0
          \/ hits'[p] = hits[p] /\ (p \in stale => p \in stale')

LEMMA MovesKeep == Rows /\ Selections /\ Moves => Selections'
PROOF
<1> SUFFICES ASSUME Rows, Selections, Moves PROVE Selections'
  OBVIOUS
<1>1. \A f \in Flows : f \in revive' => flow'[f] # "none" /\ caller'[f] = caller[f]
  BY DEF Selections, Moves
<1>2. ASSUME NEW p \in Sweepers, hits'[p] # 0, p \notin stale'
      PROVE  /\ hits'[p] \in Steps /\ pc'[hits'[p]] # "insert"
             /\ \A f \in Flows : caller'[f] = hits'[p] => flow'[f] \notin LiveFlow
             /\ \A f \in Flows : f \in revive' => caller'[f] # hits'[p]
  <2>1. hits'[p] = hits[p] /\ p \notin stale
    BY <1>2 DEF Moves
  <2>2. /\ hits[p] \in Steps /\ NoLiveChild(hits[p]) /\ pc[hits[p]] # "insert"
        /\ \A f \in Flows : f \in revive => caller[f] # hits[p]
    BY <1>2, <2>1 DEF Selections
  <2>3. \A f \in Flows : caller'[f] = hits[p] => flow'[f] \notin LiveFlow
    BY <2>2 DEF Moves, NoLiveChild, Live
  <2>4. pc'[hits[p]] # "insert"
    BY <1>2, <2>2 DEF Moves
  <2>5. \A f \in Flows : f \in revive' => caller'[f] # hits[p]
    BY <1>1, <2>2 DEF Moves, NoLiveChild, Live
  <2> QED BY <2>1, <2>2, <2>3, <2>4, <2>5
<1> QED BY <1>1, <1>2 DEF Selections, Moves, NoLiveChild, Live

\* A step that gives no flow life, owes no release and begins no insert.
LEMMA IdleMoves ==
    ASSUME Selections, UNCHANGED <<caller, hits, stale>>, revive' \subseteq revive,
           \A f \in Flows : flow[f] # "none" => flow'[f] # "none",
           \A f \in Flows : flow'[f] \in LiveFlow => flow[f] \in LiveFlow,
           \A s \in Steps : pc'[s] = "insert" => pc[s] = "insert"
    PROVE  Moves
BY DEF Selections, Moves

\* The outcome of a step owes a release for its own flow if that was live.
LEMMA OutcomeMoves ==
    ASSUME Rows, Selections, NEW s \in Steps, NEW st, Outcome(s, st), UNCHANGED <<hits, stale>>,
           \A t \in Steps : pc'[t] = "insert" => pc[t] = "insert"
    PROVE  Moves
PROOF
<1>1. /\ caller' = caller
      /\ \A f \in Flows : f \in revive' => f \in revive \/ flow[f] \in LiveFlow
  BY DEF Outcome, Live
<1>2. \A f \in Flows : flow'[f] = flow[f] \/ (flow[f] \in LiveFlow /\ flow'[f] \in {"completed", "failed"})
  BY DEF Outcome, Live, Rows
<1> QED BY <1>1, <1>2 DEF Selections, Moves

LEMMA DispatchMoves ==
    ASSUME Rows, Selections, NEW s \in Steps, Dispatch(s)
    PROVE  Moves
PROOF
<1>1. CASE Claim(s)
  BY <1>1, IdleMoves DEF Claim, Rows, flowVars, history
<1>2. CASE Complete(s)
  BY <1>2, OutcomeMoves DEF Complete, history
<1>3. CASE FailStep(s)
  BY <1>3, OutcomeMoves DEF FailStep, history
<1>4. CASE Retry(s)
  BY <1>4, IdleMoves DEF Retry, Delete, Rows, history
<1>5. CASE ParkCaller(s)
  <2>1. /\ pc' = [pc EXCEPT ![s] = "insert"] /\ stale' = stale \cup {p \in Sweepers : hits[p] = s}
        /\ UNCHANGED <<flow, caller, revive, hits>>
    BY <1>5 DEF ParkCaller, flowVars
  <2> QED BY <2>1 DEF Selections, Moves, Rows
<1>6. CASE CreateSubgraphFlow(s)
  <2>1. /\ pc[s] = "insert" /\ pc' = [pc EXCEPT ![s] = "idle"] /\ UNCHANGED <<revive, hits, stale>>
    BY <1>6 DEF CreateSubgraphFlow, history
  <2>2. PICK f \in Flows :
           /\ flow[f] = "none"
           /\ flow' = [flow EXCEPT ![f] = "running"] /\ caller' = [caller EXCEPT ![f] = s]
    BY <1>6 DEF CreateSubgraphFlow, NextFlow
  <2>3. \A g \in Flows : g # f => flow'[g] = flow[g] /\ caller'[g] = caller[g]
    BY <2>2 DEF Rows, Selections
  <2>4. flow'[f] = "running" /\ caller'[f] = s
    BY <2>2 DEF Rows, Selections
  <2> QED BY <2>1, <2>2, <2>3, <2>4 DEF Selections, Moves, Rows
<1>7. CASE CreateFails(s)
  <2>1. pc' = [pc EXCEPT ![s] = "idle"] /\ UNCHANGED <<hits, stale>>
    BY <1>7 DEF CreateFails, history
  <2>2. CASE Outcome(s, "failed")
    BY <2>1, <2>2, OutcomeMoves DEF Rows
  <2>3. CASE UNCHANGED <<flow, caller, revive>>
    BY <2>1, <2>3, IdleMoves DEF Rows
  <2> QED BY <1>7, <2>2, <2>3 DEF CreateFails, flowVars
<1>8. CASE Interrupt(s)
  BY <1>8, IdleMoves DEF Interrupt, Rows, flowVars, history
<1>9. CASE HandleInterrupt(s)
  <2>1. pc' = [pc EXCEPT ![s] = "idle"] /\ UNCHANGED <<caller, revive, hits, stale>>
    BY <1>9 DEF HandleInterrupt, history
  <2>2. \A f \in Flows : flow'[f] = flow[f] \/ (flow[f] \in LiveFlow /\ flow'[f] = "interrupted")
    BY <1>9 DEF HandleInterrupt, Live
  <2> QED BY <2>1, <2>2, IdleMoves DEF Rows
<1> QED
  BY <1>1, <1>2, <1>3, <1>4, <1>5, <1>6, <1>7, <1>8, <1>9 DEF Dispatch

\* A caller that is selected anew has no live child, and its park is settled.
LEMMA SelectKeeps ==
    ASSUME Selections, NEW p \in Sweepers, NEW s \in Steps, SelectWedged(p, s)
    PROVE  Selections'
PROOF
<1>1. /\ hits' = [hits EXCEPT ![p] = s] /\ SettledPark(s) /\ Wedged(s)
      /\ UNCHANGED <<flow, caller, pc, revive, stale>>
  BY DEF SelectWedged, flowVars, stepVars, history
<1>2. hits'[p] = s /\ \A q \in Sweepers : q # p => hits'[q] = hits[q]
  BY <1>1 DEF Selections
<1>3. /\ NoLiveChild(s) /\ pc[s] # "insert"
      /\ \A f \in Flows : f \in revive => caller[f] # s
  BY <1>1 DEF NoLiveChild, Wedged, SettledPark, Children, Live
<1>4. \A q \in Sweepers : hits'[q] # 0 /\ q \notin stale =>
         /\ hits'[q] \in Steps /\ NoLiveChild(hits'[q]) /\ pc[hits'[q]] # "insert"
         /\ \A f \in Flows : f \in revive => caller[f] # hits'[q]
  BY <1>2, <1>3 DEF Selections
<1> QED BY <1>1, <1>4 DEF Selections, NoLiveChild, Live

\* What a sweep that comes back to its caller may do to the flows.
LEMMA RecoverIsHarmless ==
    ASSUME flow = [f \in Flows |-> flow[f]], Selections,
           NEW p \in Sweepers, RecoverWedged(p), p \notin stale
    PROVE  flow' = flow /\ NoLiveChild(hits[p])
PROOF
<1>1. PICK read \in {Latest(hits[p]), {}} :
         flow' = [f \in Flows |-> IF f \in read /\ Live(f) THEN "failed" ELSE flow[f]]
  BY DEF RecoverWedged
<1>2. NoLiveChild(hits[p])
  BY DEF RecoverWedged, Selections
<1>3. \A f \in Flows : ~(f \in read /\ Live(f))
  BY <1>2 DEF Latest, Children, NoLiveChild
<1> QED BY <1>1, <1>2, <1>3

LEMMA SweepMoves ==
    ASSUME Rows, Selections, Sweep, \A p \in Sweepers, s \in Steps : ~SelectWedged(p, s)
    PROVE  Moves
PROOF
<1>1. ASSUME NEW p \in Sweepers, RecoverWedged(p) PROVE Moves
  <2>1. /\ hits' = [hits EXCEPT ![p] = 0] /\ stale' = stale \ {p}
        /\ UNCHANGED <<caller, pc, revive>>
    BY <1>1 DEF RecoverWedged
  <2>2. hits'[p] = 0 /\ \A q \in Sweepers : q # p => hits'[q] = hits[q]
    BY <2>1 DEF Selections
  <2>3. \A f \in Flows : flow'[f] = flow[f] \/ (flow[f] \in LiveFlow /\ flow'[f] = "failed")
    BY <1>1 DEF RecoverWedged, Live
  <2> QED BY <2>1, <2>2, <2>3 DEF Selections, Moves
<1>2. ASSUME NEW f \in Flows, ScanOrphan(f) PROVE Moves
  BY <1>2, IdleMoves DEF ScanOrphan, flowVars, stepVars, history
<1>3. CASE TerminateSubtree
  <2>1. UNCHANGED <<caller, pc, revive, hits, stale>>
    BY <1>3 DEF TerminateSubtree, history
  <2>2. \A f \in Flows : flow'[f] = flow[f] \/ (flow[f] \in LiveFlow /\ flow'[f] = "terminated")
    BY <1>3 DEF TerminateSubtree, Live
  <2> QED BY <2>1, <2>2, IdleMoves
<1> QED BY <1>1, <1>2, <1>3 DEF Sweep

LEMMA OtherMoves ==
    ASSUME Rows, Selections,
           (\E f \in Flows : CompleteSurgraphFlow(f)) \/ Misfortune \/ Operator
    PROVE  Moves
PROOF
<1>1. ASSUME NEW f \in Flows, CompleteSurgraphFlow(f) PROVE Moves
  BY <1>1, IdleMoves DEF CompleteSurgraphFlow, flowVars, history
<1>2. ASSUME NEW s \in Steps, DieParked(s) PROVE Moves
  BY <1>2, IdleMoves DEF DieParked, flowVars, stepVars, history, Rows
<1>3. ASSUME NEW s \in Steps, LeaseExpires(s) PROVE Moves
  BY <1>3, IdleMoves DEF LeaseExpires, flowVars, history
<1>4. ASSUME NEW f \in Flows, LoseRevive(f) PROVE Moves
  BY <1>4, IdleMoves DEF LoseRevive, flowVars, stepVars, history
<1>5. CASE ReadChain
  BY <1>5, IdleMoves DEF ReadChain, flowVars, stepVars, history
<1>6. CASE Resume
  <2>1. UNCHANGED <<caller, pc, revive, hits, stale>>
    BY <1>6 DEF Resume, history
  <2>2. \A f \in Flows : flow'[f] = flow[f] \/ (flow[f] \in LiveFlow /\ flow'[f] = "running")
    BY <1>6 DEF Resume
  <2> QED BY <2>1, <2>2, IdleMoves
<1>7. CASE ScanTerminate
  BY <1>7, IdleMoves DEF ScanTerminate, flowVars, stepVars, history
<1>8. CASE DeleteFlow
  BY <1>8, IdleMoves DEF DeleteFlow, stepVars, history, Rows
<1>9. CASE ReapTree
  BY <1>9, IdleMoves DEF ReapTree, Delete, history
<1> QED
  BY <1>1, <1>2, <1>3, <1>4, <1>5, <1>6, <1>7, <1>8, <1>9 DEF Misfortune, Operator

\* Every step keeps what the sweeps rely on, however many of them there are.
LEMMA SelectionsKept == Rows /\ Selections /\ [Next]_vars => Selections'
PROOF
<1> SUFFICES ASSUME Rows, Selections, [Next]_vars PROVE Selections'
  OBVIOUS
<1>1. CASE UNCHANGED vars
  BY <1>1, IdleMoves, MovesKeep DEF vars, flowVars, stepVars, history
<1>2. ASSUME NEW s \in Steps, Dispatch(s) PROVE Selections'
  BY <1>2, DispatchMoves, MovesKeep
<1>3. CASE Sweep
  BY <1>3, SelectKeeps, SweepMoves, MovesKeep
<1>4. CASE (\E f \in Flows : CompleteSurgraphFlow(f)) \/ Misfortune \/ Operator
  BY <1>4, OtherMoves, MovesKeep
<1> QED BY <1>1, <1>2, <1>3, <1>4 DEF Next

LEMMA InitSelections == Init => Selections
BY DEF Init, Selections

\* For any number of sweeping replicas: a sweep that comes back to a caller which
\* has not parked again since the selection fails no live flow and finds no live
\* child to release the caller over, whatever the peers' sweeps, releases, retries
\* and interrupts did in between (recoverWedgedSubgraphParks, runRecoverySweep).
THEOREM LateSweepsAreHarmless == Spec => LateSweepIsHarmless
PROOF
<1> DEFINE Harmless ==
       \A p \in Sweepers : hits[p] # 0 /\ hits'[p] = 0 /\ p \notin stale =>
          /\ \A f \in Flows : Live(f) => flow'[f] = flow[f]
          /\ \A f \in Children(hits[p]) : ~Live(f)
<1>1. Rows /\ Selections /\ Next => Harmless
  <2> SUFFICES ASSUME Rows, Selections, Next, NEW p \in Sweepers, hits[p] # 0, hits'[p] = 0, p \notin stale
               PROVE  /\ \A f \in Flows : Live(f) => flow'[f] = flow[f]
                      /\ \A f \in Children(hits[p]) : ~Live(f)
    OBVIOUS
  <2>1. CASE RecoverWedged(p)
    BY <2>1, RecoverIsHarmless DEF Rows, NoLiveChild, Children
  <2>2. ASSUME NEW q \in Sweepers, RecoverWedged(q) PROVE q = p
    BY <2>2 DEF RecoverWedged, Selections
  <2>3. ASSUME NEW q \in Sweepers, NEW s \in Steps, SelectWedged(q, s) PROVE FALSE
    BY <2>3 DEF SelectWedged, Selections, Steps
  <2>4. CASE UNCHANGED hits
    BY <2>4
  <2>5. ASSUME NEW s \in Steps, Dispatch(s) PROVE UNCHANGED hits
    BY <2>5 DEF Dispatch, Claim, Complete, FailStep, Retry, ParkCaller, CreateSubgraphFlow,
                CreateFails, Interrupt, HandleInterrupt
  <2>6. ASSUME NEW f \in Flows, CompleteSurgraphFlow(f) PROVE UNCHANGED hits
    BY <2>6 DEF CompleteSurgraphFlow
  <2>7. CASE Misfortune
    BY <2>4, <2>7 DEF Misfortune, DieParked, LeaseExpires, LoseRevive
  <2>8. CASE Operator
    BY <2>4, <2>8 DEF Operator, ReadChain, Resume, ScanTerminate, DeleteFlow, ReapTree
  <2>9. CASE Sweep
    BY <2>1, <2>2, <2>3, <2>4, <2>9 DEF Sweep, ScanOrphan, TerminateSubtree
  <2> QED BY <2>4, <2>5, <2>6, <2>7, <2>8, <2>9 DEF Next
<1>2. Init => Rows /\ Selections
  BY InitRows, InitSelections
<1>3. Rows /\ Selections /\ [Next]_vars => (Rows /\ Selections)'
  BY NextKeeps, SelectionsKept
<1>4. Rows /\ Selections /\ [Next]_vars => [Harmless]_vars
  BY <1>1
<1> HIDE DEF Harmless
<1> QED BY <1>2, <1>3, <1>4, PTL DEF Spec, LateSweepIsHarmless, Harmless

-----------------------------------------------------------------------------
(* The flows above a flow *)

\* Every non-empty set of naturals has a smallest element: the argument that
\* walks up the tree.
LEMMA SmallestElement ==
  ASSUME NEW S, S \subseteq Nat, S # {}
  PROVE  \E x \in S : \A y \in S : x <= y
  <1> DEFINE Initials == {S \cap (0 .. x) : x \in S}
  <1>1. ASSUME NEW x \in Nat PROVE IsFiniteSet(S \cap (0 .. x))
    <2>1. IsFiniteSet(0 .. x)
      BY FS_Interval
    <2>2. S \cap (0 .. x) \in SUBSET (0 .. x)
      OBVIOUS
    <2> QED
      BY <2>1, <2>2, FS_Subset
  <1>2. Initials \subseteq FiniteSubsetsOf(Nat) /\ Initials # {}
    BY <1>1 DEF FiniteSubsetsOf
  <1>3. PICK T \in Initials : \A U \in Initials : <<U, T>> \notin StrictSubsetOrdering(Nat)
    <2> HIDE DEF Initials
    <2> QED
      BY <1>2, FS_StrictSubsetOrderingWellFounded, WFMin
  <1>4. PICK x \in S : T = S \cap (0 .. x)
    BY <1>3
  <1>5. ASSUME NEW y \in S, y < x PROVE FALSE
    <2> DEFINE U == S \cap (0 .. y)
    <2>1. U \in Initials /\ U \subseteq T /\ x \in T /\ x \notin U
      BY <1>4, <1>5
    <2>2. U \in SUBSET Nat /\ T \in SUBSET Nat
      BY <1>4
    <2> QED
      BY <1>3, <2>1, <2>2 DEF StrictSubsetOrdering
  <1> QED
    BY <1>5

\* A recursion along older flows defines a function.
LEMMA RecursionExists ==
    ASSUME NEW par, \A f \in Flows : par[f] = 0 \/ (par[f] \in Flows /\ par[f] < f)
    PROVE  \E g : g = [f \in Flows |-> IF par[f] = 0 THEN {} ELSE {par[f]} \cup g[par[f]]]
  <1> DEFINE Good(n) == \E g : g = [f \in 1..n |-> IF par[f] = 0 THEN {} ELSE {par[f]} \cup g[par[f]]]
             Bad == {n \in 0..MaxFlows : ~Good(n)}
  <1>1. MaxFlows \in Nat
    BY SubgraphAssumption
  <1>2. Bad = {}
    <2> SUFFICES ASSUME Bad # {} PROVE FALSE
      OBVIOUS
    <2>1. PICK n \in Bad : \A m \in Bad : n <= m
      <3>1. Bad \subseteq Nat
        BY <1>1
      <3> HIDE DEF Bad
      <3>2. QED
        BY <3>1, SmallestElement
    <2>2. n \in 0..MaxFlows /\ ~Good(n)
      OBVIOUS
    <2>3. n # 0
      <3>1. [f \in 1..0 |-> {}] = [f \in 1..0 |-> IF par[f] = 0 THEN {}
                                                  ELSE {par[f]} \cup [q \in 1..0 |-> {}][par[f]]]
        OBVIOUS
      <3>2. Good(0)
        BY <3>1
      <3>3. QED
        BY <2>2, <3>2
    <2>4. n - 1 \in 0..MaxFlows /\ n - 1 < n /\ n \in Flows
      BY <1>1, <2>2, <2>3 DEF Flows
    <2>5. Good(n - 1)
      <3>1. n - 1 \notin Bad
        <4> HIDE DEF Bad
        <4>1. QED
          BY <1>1, <2>1, <2>4, <2>2
      <3>2. QED
        BY <2>4, <3>1
    <2>6. PICK g : g = [f \in 1..(n - 1) |-> IF par[f] = 0 THEN {} ELSE {par[f]} \cup g[par[f]]]
      BY <2>5
    <2> DEFINE last == IF par[n] = 0 THEN {} ELSE {par[n]} \cup g[par[n]]
    <2>7. PICK h : h = [f \in 1..n |-> IF f < n THEN g[f] ELSE last]
      OBVIOUS
    <2>8. ASSUME NEW f \in 1..n
          PROVE  h[f] = IF par[f] = 0 THEN {} ELSE {par[f]} \cup h[par[f]]
      <3>1. f \in Flows /\ (par[f] = 0 \/ (par[f] \in 1..n /\ par[f] < f /\ par[f] < n))
        BY <1>1, <2>2 DEF Flows
      <3>2. ASSUME par[f] # 0 PROVE h[par[f]] = g[par[f]]
        <4> HIDE DEF last
        <4>1. QED
          BY <3>1, <3>2, <2>7
      <3>3. CASE f < n
        <4>1. f \in 1..(n - 1)
          BY <2>2, <3>3
        <4>2. g[f] = IF par[f] = 0 THEN {} ELSE {par[f]} \cup g[par[f]]
          BY <2>6, <4>1
        <4>3. h[f] = g[f]
          <5> HIDE DEF last
          <5>1. QED
            BY <2>7, <3>3
        <4>4. QED
          BY <3>2, <4>2, <4>3
      <3>4. CASE f = n
        <4>1. h[f] = last
          <5> HIDE DEF last
          <5>1. QED
            BY <2>2, <2>7, <3>4
        <4>2. QED
          BY <3>2, <3>4, <4>1
      <3>5. QED
        BY <2>2, <3>3, <3>4
    <2>9. h = [f \in 1..n |-> h[f]]
      <3> HIDE DEF last
      <3>1. QED
        BY <2>7
    <2>10. Good(n)
      <3>1. h = [f \in 1..n |-> IF par[f] = 0 THEN {} ELSE {par[f]} \cup h[par[f]]]
        BY <2>8, <2>9
      <3>2. QED
        BY <3>1
    <2>11. QED
      BY <2>2, <2>10
  <1>3. Good(MaxFlows)
    <2>1. MaxFlows \in 0..MaxFlows
      BY <1>1
    <2>2. MaxFlows \notin Bad
      <3> HIDE DEF Bad
      <3>1. QED
        BY <1>2
    <2>3. QED
      BY <2>1, <2>2
  <1>4. Flows = 1..MaxFlows
    BY DEF Flows
  <1>5. QED
    BY <1>3, <1>4

AboveUnfolded ==
    Above = [f \in Flows |-> IF Parent(f) = 0 THEN {} ELSE {Parent(f)} \cup Above[Parent(f)]]

\* The parent of a flow is an older flow.
LEMMA ParentIsOlder ==
    ASSUME TypeOK, TreeShape, NEW f \in Flows
    PROVE  /\ Parent(f) = 0 \/ (Parent(f) \in Flows /\ Parent(f) < f)
           /\ caller[f] # 0 <=> Parent(f) # 0
           /\ caller[f] # 0 => caller[f] \in Steps /\ Parent(f) = owner[caller[f]] /\ f # Root
           /\ caller[f] # 0 <=> (f # Root /\ flow[f] # "none")
  BY SubgraphAssumption DEF TypeOK, TreeShape, Parent, Flows, Root

\* In a tree the recursion of Above is well founded.
LEMMA AboveUnfolds == TypeOK /\ TreeShape => AboveUnfolded
  <1> SUFFICES ASSUME TypeOK, TreeShape PROVE AboveUnfolded
    OBVIOUS
  <1> DEFINE par == [f \in Flows |-> Parent(f)]
  <1>1. \A f \in Flows : par[f] = Parent(f) /\ (par[f] = 0 \/ (par[f] \in Flows /\ par[f] < f))
    BY ParentIsOlder
  <1>2. PICK g : g = [f \in Flows |-> IF par[f] = 0 THEN {} ELSE {par[f]} \cup g[par[f]]]
    <2> HIDE DEF par
    <2>1. QED
      BY <1>1, RecursionExists
  <1>3. g = [f \in Flows |-> IF Parent(f) = 0 THEN {} ELSE {Parent(f)} \cup g[Parent(f)]]
    BY <1>1, <1>2
  <1>4. QED
    BY <1>3 DEF AboveUnfolded, Above

LEMMA AboveUnfoldsNext == TypeOK' /\ TreeShape' => AboveUnfolded'
  BY AboveUnfolds, PTL

\* The flows above a flow, one step at a time.
LEMMA AboveStep ==
    ASSUME AboveUnfolded, NEW f \in Flows
    PROVE  /\ Parent(f) = 0 => Above[f] = {}
           /\ Parent(f) # 0 => Above[f] = {Parent(f)} \cup Above[Parent(f)]
  <1>1. PICK g : g = Above
    OBVIOUS
  <1>2. g = [q \in Flows |-> IF Parent(q) = 0 THEN {} ELSE {Parent(q)} \cup g[Parent(q)]]
    BY <1>1 DEF AboveUnfolded
  <1>3. g[f] = IF Parent(f) = 0 THEN {} ELSE {Parent(f)} \cup g[Parent(f)]
    BY <1>2
  <1>4. QED
    BY <1>1, <1>3

\* A set that is closed upwards holds everything above each of its members.
LEMMA AboveWithin ==
    ASSUME TypeOK, TreeShape, NEW S, S \subseteq Flows,
           \A f \in S : Parent(f) # 0 => Parent(f) \in S
    PROVE  \A f \in S : Above[f] \subseteq S
  <1> DEFINE Bad == {f \in S : ~(Above[f] \subseteq S)}
  <1> SUFFICES ASSUME Bad # {} PROVE FALSE
    OBVIOUS
  <1>1. Bad \subseteq Nat
    <2>1. Flows \subseteq Nat
      BY DEF Flows
    <2>2. QED
      BY <2>1
  <1>2. PICK f \in Bad : \A g \in Bad : f <= g
    <2> HIDE DEF Bad
    <2>1. QED
      BY <1>1, SmallestElement
  <1>3. f \in S /\ f \in Flows /\ ~(Above[f] \subseteq S)
    OBVIOUS
  <1>4. AboveUnfolded
    BY AboveUnfolds
  <1>5. Parent(f) # 0 /\ Above[f] = {Parent(f)} \cup Above[Parent(f)]
    BY <1>3, <1>4, AboveStep
  <1>6. Parent(f) \in S /\ Parent(f) \in Flows /\ Parent(f) < f
    BY <1>3, <1>5, ParentIsOlder
  <1>7. Parent(f) \notin Bad
    <2> HIDE DEF Bad
    <2>1. QED
      BY <1>2, <1>6, <1>3 DEF Flows
  <1>8. QED
    BY <1>3, <1>5, <1>6, <1>7

\* What is above a flow is older than it.
LEMMA AboveIsOlder ==
    ASSUME TypeOK, TreeShape, NEW f \in Flows, NEW g \in Above[f]
    PROVE  g \in Flows /\ g < f
  <1>1. AboveUnfolded
    BY AboveUnfolds
  <1>2. Parent(f) # 0 /\ Above[f] = {Parent(f)} \cup Above[Parent(f)]
    BY <1>1, AboveStep
  <1>3. Parent(f) \in Flows /\ Parent(f) < f
    BY <1>2, ParentIsOlder
  <1> DEFINE S == {h \in Flows : h <= Parent(f)}
  <1>4. ASSUME NEW h \in S, Parent(h) # 0 PROVE Parent(h) \in S
    BY <1>3, <1>4, ParentIsOlder DEF Flows
  <1>5. Parent(f) \in S
    BY <1>3 DEF Flows
  <1>6. Above[Parent(f)] \subseteq S
    <2> S \subseteq Flows
      OBVIOUS
    <2> HIDE DEF S
    <2>1. QED
      BY <1>4, <1>5, AboveWithin
  <1>7. QED
    BY <1>2, <1>3, <1>6 DEF Flows

\* The flows above a flow are closed upwards.
LEMMA AboveIsClosed ==
    ASSUME TypeOK, TreeShape
    PROVE  \A f \in Flows : \A g \in Above[f] : Parent(g) # 0 => Parent(g) \in Above[f]
  <1> DEFINE Bad == {f \in Flows : \E g \in Above[f] : Parent(g) # 0 /\ Parent(g) \notin Above[f]}
  <1> SUFFICES ASSUME Bad # {} PROVE FALSE
    OBVIOUS
  <1>1. Bad \subseteq Nat
    BY DEF Flows
  <1>2. PICK f \in Bad : \A g \in Bad : f <= g
    <2> HIDE DEF Bad
    <2>1. QED
      BY <1>1, SmallestElement
  <1>3. PICK g \in Above[f] : f \in Flows /\ Parent(g) # 0 /\ Parent(g) \notin Above[f]
    OBVIOUS
  <1>4. AboveUnfolded
    BY AboveUnfolds
  <1>5. Parent(f) # 0 /\ Above[f] = {Parent(f)} \cup Above[Parent(f)]
    BY <1>3, <1>4, AboveStep
  <1>6. Parent(f) \in Flows /\ Parent(f) < f
    BY <1>3, <1>5, ParentIsOlder
  <1>7. Parent(f) \notin Bad
    <2> HIDE DEF Bad
    <2>1. QED
      BY <1>2, <1>6, <1>3 DEF Flows
  <1>8. CASE g = Parent(f)
    BY <1>3, <1>4, <1>5, <1>6, <1>8, AboveStep
  <1>9. CASE g \in Above[Parent(f)]
    BY <1>3, <1>5, <1>6, <1>7, <1>9
  <1>10. QED
    BY <1>3, <1>5, <1>8, <1>9

\* Between a flow and one above it there is a child of the latter.
LEMMA AboveHasChild ==
    ASSUME TypeOK, TreeShape
    PROVE  \A f \in Flows : \A g \in Above[f] : \E h \in {f} \cup Above[f] : h \in Flows /\ Parent(h) = g
  <1> DEFINE Has(f, g) == \E h \in {f} \cup Above[f] : h \in Flows /\ Parent(h) = g
             Bad == {f \in Flows : \E g \in Above[f] : ~Has(f, g)}
  <1> SUFFICES ASSUME Bad # {} PROVE FALSE
    OBVIOUS
  <1>1. Bad \subseteq Nat
    BY DEF Flows
  <1>2. PICK f \in Bad : \A g \in Bad : f <= g
    <2> HIDE DEF Bad
    <2>1. QED
      BY <1>1, SmallestElement
  <1>3. PICK g \in Above[f] : f \in Flows /\ ~Has(f, g)
    OBVIOUS
  <1>4. AboveUnfolded
    BY AboveUnfolds
  <1>5. Parent(f) # 0 /\ Above[f] = {Parent(f)} \cup Above[Parent(f)]
    BY <1>3, <1>4, AboveStep
  <1>6. Parent(f) \in Flows /\ Parent(f) < f
    BY <1>3, <1>5, ParentIsOlder
  <1>7. Parent(f) \notin Bad
    <2> HIDE DEF Bad
    <2>1. QED
      BY <1>2, <1>6, <1>3 DEF Flows
  <1>8. g \in Above[Parent(f)]
    BY <1>3, <1>5
  <1>9. Has(Parent(f), g)
    BY <1>6, <1>7, <1>8
  <1>10. Has(f, g)
    BY <1>5, <1>9
  <1>11. QED
    BY <1>3, <1>10

\* A flow that there is hangs under flows that there are.
LEMMA AboveExists ==
    ASSUME TypeOK, TreeShape, NEW f \in Flows, flow[f] # "none"
    PROVE  \A g \in {f} \cup Above[f] : g \in Flows /\ flow[g] # "none"
  <1> DEFINE S == {g \in Flows : flow[g] # "none"}
  <1>1. ASSUME NEW g \in S, Parent(g) # 0 PROVE Parent(g) \in S
    BY <1>1, ParentIsOlder DEF TreeShape
  <1>2. Above[f] \subseteq S
    <2> f \in S /\ S \subseteq Flows
      OBVIOUS
    <2> HIDE DEF S
    <2>1. QED
      BY <1>1, AboveWithin
  <1>3. QED
    BY <1>2

\* What is above a flow stays above it when no flow moves.
LEMMA AboveIsKept ==
    ASSUME TypeOK, TreeShape, TypeOK', TreeShape',
           \A f \in Flows : flow[f] # "none" => Parent(f)' = Parent(f)
    PROVE  \A f \in Flows : flow[f] # "none" => Above'[f] = Above[f]
  <1> DEFINE Bad == {f \in Flows : flow[f] # "none" /\ Above'[f] # Above[f]}
  <1> SUFFICES ASSUME Bad # {} PROVE FALSE
    OBVIOUS
  <1>1. Bad \subseteq Nat
    BY DEF Flows
  <1>2. PICK f \in Bad : \A g \in Bad : f <= g
    <2> HIDE DEF Bad
    <2>1. QED
      BY <1>1, SmallestElement
  <1>3. f \in Flows /\ flow[f] # "none" /\ Above'[f] # Above[f]
    OBVIOUS
  <1>4. AboveUnfolded /\ AboveUnfolded'
    BY AboveUnfolds, AboveUnfoldsNext
  <1>5. Parent(f)' = Parent(f)
    BY <1>3
  <1>6. /\ Parent(f) = 0 => Above'[f] = {}
        /\ Parent(f) # 0 => Above'[f] = {Parent(f)} \cup Above'[Parent(f)]
    <2>1. PICK g : g = Above'
      OBVIOUS
    <2>2. g = [q \in Flows |-> IF Parent(q)' = 0 THEN {} ELSE {Parent(q)'} \cup g[Parent(q)']]
      BY <1>4, <2>1 DEF AboveUnfolded
    <2>3. g[f] = IF Parent(f)' = 0 THEN {} ELSE {Parent(f)'} \cup g[Parent(f)']
      BY <1>3, <2>2
    <2>4. QED
      BY <1>5, <2>1, <2>3
  <1>7. /\ Parent(f) = 0 => Above[f] = {}
        /\ Parent(f) # 0 => Above[f] = {Parent(f)} \cup Above[Parent(f)]
    BY <1>3, <1>4, AboveStep
  <1>8. Parent(f) # 0 /\ Above'[Parent(f)] # Above[Parent(f)]
    BY <1>3, <1>6, <1>7
  <1>9. Parent(f) \in Flows /\ Parent(f) < f /\ flow[Parent(f)] # "none"
    BY <1>3, <1>8, ParentIsOlder DEF TreeShape
  <1>10. Parent(f) \notin Bad
    <2> HIDE DEF Bad
    <2>1. QED
      BY <1>2, <1>9, <1>3 DEF Flows
  <1>11. QED
    BY <1>8, <1>9, <1>10

\* The callers above a step stay the same when no flow and no step moves.
LEMMA CallersAreKept ==
    ASSUME TypeOK, TreeShape, TypeOK', TreeShape',
           \A f \in Flows : flow[f] # "none" => caller'[f] = caller[f],
           \A s \in Steps : owner[s] # 0 => owner'[s] = owner[s],
           NEW s \in Steps, owner[s] # 0
    PROVE  Chain(s)' = Chain(s) /\ CallersAbove(s)' = CallersAbove(s)
  <1>1. ASSUME NEW f \in Flows, flow[f] # "none" PROVE Parent(f)' = Parent(f)
    BY <1>1, ParentIsOlder DEF TreeShape, Parent
  <1>2. owner[s] \in Flows /\ flow[owner[s]] # "none" /\ owner'[s] = owner[s]
    BY DEF TypeOK, TreeShape
  <1>3. Above'[owner[s]] = Above[owner[s]]
    BY <1>1, <1>2, AboveIsKept
  <1>4. Chain(s)' = Chain(s)
    BY <1>2, <1>3 DEF Chain
  <1>5. \A f \in Chain(s) : f \in Flows /\ flow[f] # "none"
    BY <1>2, AboveExists DEF Chain
  <1>6. CallersAbove(s)' = CallersAbove(s)
    BY <1>4, <1>5 DEF CallersAbove
  <1>7. QED
    BY <1>4, <1>6

\* The parent of a flow that a scan of the tree below f reaches is f, or is
\* reached as well.
LEMMA ScanIsClosed ==
    ASSUME TypeOK, TreeShape, NEW f \in Flows
    PROVE  \A g \in AllSubgraphFlows(f) :
              /\ g \in Flows /\ flow[g] # "none" /\ caller[g] # 0
              /\ owner[caller[g]] = f \/ owner[caller[g]] \in AllSubgraphFlows(f)
  <1> SUFFICES ASSUME NEW g \in AllSubgraphFlows(f)
               PROVE  /\ g \in Flows /\ flow[g] # "none" /\ caller[g] # 0
                      /\ owner[caller[g]] = f \/ owner[caller[g]] \in AllSubgraphFlows(f)
    OBVIOUS
  <1>1. /\ g \in Flows /\ f \in Above[g] /\ flow[g] # "gone"
        /\ \A h \in {g} \cup Above[g] : f \in Above[h] => Live(h)
    BY DEF AllSubgraphFlows, Below
  <1>2. Parent(g) # 0 /\ Above[g] = {Parent(g)} \cup Above[Parent(g)]
    BY <1>1, AboveUnfolds, AboveStep
  <1>3. caller[g] # 0 /\ Parent(g) = owner[caller[g]] /\ Parent(g) \in Flows /\ flow[g] # "none"
    BY <1>1, <1>2, ParentIsOlder DEF TreeShape
  <1>4. ASSUME Parent(g) # f PROVE Parent(g) \in AllSubgraphFlows(f)
    <2>1. f \in Above[Parent(g)]
      BY <1>1, <1>2, <1>4
    <2>2. \A h \in {Parent(g)} \cup Above[Parent(g)] : f \in Above[h] => Live(h)
      BY <1>1, <1>2
    <2>3. flow[Parent(g)] # "gone"
      BY <2>1, <2>2 DEF Live
    <2>4. QED
      BY <1>3, <2>1, <2>2, <2>3 DEF AllSubgraphFlows, Below
  <1>5. QED
    BY <1>1, <1>3, <1>4

-----------------------------------------------------------------------------
(* What the invariant says of a flow that has not stopped *)

\* The parent of a live flow is live, or terminated with what is below it to
\* follow; a step that is live has such a flow, and only the root can be a
\* stopped one.
LEMMA ParentIsUp ==
    ASSUME IInv
    PROVE  /\ \A f \in Flows : Live(f) /\ caller[f] # 0 =>
                 Live(owner[caller[f]]) \/ flow[owner[caller[f]]] = "terminated"
           /\ \A s \in Steps : status[s] \in LiveStep =>
                 Live(owner[s]) \/ (owner[s] = Root /\ flow[Root] = "terminated")
  <1>1. ASSUME NEW s \in Steps, status[s] \in LiveStep \cup {"terminated"}
        PROVE  owner[s] \in Flows /\ (Live(owner[s]) \/ flow[owner[s]] = "terminated")
    BY <1>1 DEF IInv, TypeOK, TreeShape, GoneWhole, StoppedSteps, Live
  <1>2. ASSUME NEW f \in Flows, Live(f), caller[f] # 0
        PROVE  caller[f] \in Steps /\ status[caller[f]] \in LiveStep \cup {"terminated"}
    BY <1>2 DEF IInv, TypeOK, LiveChild
  <1>3. ASSUME NEW s \in Steps, status[s] \in LiveStep
        PROVE  Live(owner[s]) \/ (owner[s] = Root /\ flow[Root] = "terminated")
    BY <1>1, <1>3 DEF IInv, TreeShape, StoppedSteps
  <1>4. QED
    BY <1>1, <1>2, <1>3

\* Everything above a live or terminated flow is live or terminated.
LEMMA ChainIsUp ==
    ASSUME IInv, NEW f \in Flows, Live(f) \/ flow[f] = "terminated"
    PROVE  \A g \in {f} \cup Above[f] : g \in Flows /\ (Live(g) \/ flow[g] = "terminated")
  <1> DEFINE S == {g \in Flows : Live(g) \/ flow[g] = "terminated"}
  <1>0. TypeOK /\ TreeShape
    BY DEF IInv
  <1>1. ASSUME NEW g \in S, Parent(g) # 0 PROVE Parent(g) \in S
    <2>1. caller[g] # 0 /\ Parent(g) = owner[caller[g]] /\ Parent(g) \in Flows
      BY <1>0, <1>1, ParentIsOlder
    <2>2. QED
      BY <2>1, ParentIsUp DEF IInv, TerminatedFromAbove
  <1>2. Above[f] \subseteq S
    <2> f \in S /\ S \subseteq Flows
      OBVIOUS
    <2> HIDE DEF S
    <2>1. QED
      BY <1>0, <1>1, AboveWithin
  <1>3. QED
    BY <1>2

\* Tables that are only marked keep their tree.
LEMMA TreeIsKept ==
    ASSUME TypeOK, TreeShape, UNCHANGED <<caller, owner>>,
           \A f \in Flows : flow'[f] = "none" <=> flow[f] = "none",
           \A s \in Steps : status'[s] = "none" <=> status[s] = "none",
           \A s \in Steps : status[s] = "none" => pc'[s] = "idle" /\ ~done'[s] /\ ~parked'[s]
    PROVE  TreeShape'
  <1>1. Root \in Flows /\ caller' = caller /\ owner' = owner
    BY SubgraphAssumption DEF Root, Flows
  <1>2. \A s \in Steps : owner[s] # 0 => owner[s] \in Flows
    BY DEF TypeOK
  <1>3. QED
    BY <1>1, <1>2 DEF TreeShape
-----------------------------------------------------------------------------
(* The steps that leave the status of every row alone *)

\* What the invariant says of the statuses alone.
LEMMA StatusesAreKept ==
    ASSUME IInv, UNCHANGED <<flow, caller, owner, status>>
    PROVE  GoneWhole' /\ StoppedSteps' /\ TerminatedFromAbove' /\ PausedShape'
  BY DEF IInv, GoneWhole, StoppedSteps, TerminatedFromAbove, PausedShape, Branches, Live

\* A Resume under way keeps its chain as long as its leaf stays what it is.
LEMMA PlanIsKept ==
    ASSUME IInv, TypeOK', TreeShape', plan' = plan,
           \A f \in Flows : flow[f] # "none" => caller'[f] = caller[f],
           \A s \in Steps : owner[s] # 0 => owner'[s] = owner[s],
           \A s \in Steps :
              NoLiveChild(s) /\ pc[s] = "idle" /\ status[s] \in {"interrupted", "terminated", "gone"} =>
              NoLiveChild(s)' /\ pc'[s] = "idle" /\ status'[s] \in {"interrupted", "terminated", "gone"}
    PROVE  PlanShape'
  <1> SUFFICES ASSUME plan # NoPlan PROVE PlanShape'
    BY DEF PlanShape
  <1>1. /\ plan.leaf \in Steps /\ plan.parks = CallersAbove(plan.leaf)
        /\ NoLiveChild(plan.leaf) /\ pc[plan.leaf] = "idle"
        /\ status[plan.leaf] \in {"interrupted", "terminated", "gone"}
    BY DEF IInv, PlanShape
  <1>2. owner[plan.leaf] # 0
    BY <1>1 DEF IInv, TreeShape
  <1>4. TypeOK /\ TreeShape
    BY DEF IInv
  <1>5. \A s \in Steps : owner[s] # 0 => CallersAbove(s)' = CallersAbove(s)
    BY <1>4, CallersAreKept
  <1>6. QED
    BY <1>1, <1>2, <1>5 DEF PlanShape

\* flow.Subgraph parks a caller without a live child.
LEMMA ParkCallerKeeps ==
    ASSUME IInv, NEW s \in Steps, ParkCaller(s)
    PROVE  IInv'
  <1>1. /\ status[s] = "running" /\ ~parked[s] /\ pc[s] = "idle" /\ ~done[s]
        /\ parked' = [parked EXCEPT ![s] = TRUE] /\ pc' = [pc EXCEPT ![s] = "insert"]
        /\ UNCHANGED <<flow, caller, doomed, owner, status, done, asked, revive, plan, scan, hits, budget, stray>>
        /\ stale' = stale \cup {p \in Sweepers : hits[p] = s}
    BY DEF ParkCaller, Executing, flowVars
  <1>2. TypeOK'
    BY <1>1 DEF IInv, TypeOK
  <1>3. parked \in [Steps -> BOOLEAN] /\ pc \in [Steps -> {"idle", "insert", "interrupt"}]
    BY DEF IInv, TypeOK
  <1>4. TreeShape'
    BY <1>1, <1>3, TreeIsKept DEF IInv, TreeShape
  <1>5. GoneWhole' /\ StoppedSteps' /\ TerminatedFromAbove' /\ PausedShape'
    BY <1>1, StatusesAreKept
  <1>6. Childless(s)
    BY <1>1 DEF IInv, DispatchShape
  <1>7. LiveChild'
    BY <1>1, <1>3, <1>6 DEF IInv, LiveChild, Live, Childless
  <1>8. DispatchShape'
    BY <1>1, <1>3, <1>6 DEF IInv, DispatchShape, Childless, Live
  <1>9. ReviveShape'
    BY <1>1, <1>3 DEF IInv, ReviveShape, Childless, Live, TypeOK
  <1>10. PlanShape'
    <2>1. \A t \in Steps :
             NoLiveChild(t) /\ pc[t] = "idle" /\ status[t] \in {"interrupted", "terminated", "gone"} =>
             NoLiveChild(t)' /\ pc'[t] = "idle" /\ status'[t] \in {"interrupted", "terminated", "gone"}
      BY <1>1, <1>3 DEF NoLiveChild, Live
    <2>2. QED
      BY <1>1, <1>2, <1>4, <2>1, PlanIsKept
  <1>11. ScanShape'
    BY <1>1 DEF IInv, ScanShape
  <1>12. QED
    BY <1>2, <1>4, <1>5, <1>7, <1>8, <1>9, <1>10, <1>11 DEF IInv
\* What a step may do that touches no row: withdraw a dispatch or turn it to an
\* interrupt, drop a release, and read what somebody is to act on later.
LEMMA QuietKeeps ==
    ASSUME IInv, TypeOK', UNCHANGED <<flow, caller, owner, status, parked, done>>,
           \A s \in Steps :
              \/ pc'[s] = pc[s] \/ pc'[s] = "idle"
              \/ pc'[s] = "interrupt" /\ pc[s] = "idle" /\ status[s] = "running" /\ ~parked[s],
           revive' \subseteq revive,
           plan' = plan \/ PlanShape', scan' = scan \/ ScanShape'
    PROVE  IInv'
  <1>1. TreeShape'
    BY TreeIsKept DEF IInv, TreeShape
  <1>2. GoneWhole' /\ StoppedSteps' /\ TerminatedFromAbove' /\ PausedShape'
    BY StatusesAreKept
  <1>3. \A s \in Steps : status[s] = "running" /\ ~parked[s] => Childless(s)
    BY DEF IInv, DispatchShape
  <1>4. LiveChild'
    BY <1>3 DEF IInv, TypeOK, LiveChild, Live, Childless
  <1>5. DispatchShape'
    BY <1>3 DEF IInv, DispatchShape, Childless, Live
  <1>6. ReviveShape'
    BY DEF IInv, ReviveShape, Childless, Live, TypeOK
  <1>7. PlanShape'
    <2>1. \A t \in Steps :
             NoLiveChild(t) /\ pc[t] = "idle" /\ status[t] \in {"interrupted", "terminated", "gone"} =>
             NoLiveChild(t)' /\ pc'[t] = "idle" /\ status'[t] \in {"interrupted", "terminated", "gone"}
      BY DEF NoLiveChild, Live
    <2>2. QED
      BY <1>1, <2>1, PlanIsKept
  <1>8. ScanShape'
    BY DEF IInv, ScanShape
  <1>9. QED
    BY <1>1, <1>2, <1>4, <1>5, <1>6, <1>7, <1>8 DEF IInv

LEMMA InterruptKeeps ==
    ASSUME IInv, NEW s \in Steps, Interrupt(s)
    PROVE  IInv'
  <1>1. /\ status[s] = "running" /\ ~parked[s] /\ pc[s] = "idle"
        /\ pc' = [pc EXCEPT ![s] = "interrupt"]
        /\ UNCHANGED <<flow, caller, doomed, owner, status, parked, done, asked, revive, plan, scan, hits, budget, stale, stray>>
    BY DEF Interrupt, Executing, flowVars, stepVars, history
  <1>2. TypeOK' /\ pc \in [Steps -> {"idle", "insert", "interrupt"}]
    BY <1>1 DEF IInv, TypeOK
  <1>3. QED
    BY <1>1, <1>2, QuietKeeps

LEMMA DieParkedKeeps ==
    ASSUME IInv, NEW s \in Steps, DieParked(s)
    PROVE  IInv'
  <1>1. /\ pc' = [pc EXCEPT ![s] = "idle"] /\ budget > 0 /\ budget' = budget - 1
        /\ UNCHANGED <<flow, caller, doomed, owner, status, parked, done, asked, revive, plan, scan, hits, stale, stray>>
    BY DEF DieParked, flowVars, stepVars, history
  <1>2. TypeOK' /\ pc \in [Steps -> {"idle", "insert", "interrupt"}]
    BY <1>1, SubgraphAssumption DEF IInv, TypeOK
  <1>3. QED
    BY <1>1, <1>2, QuietKeeps

LEMMA LoseReviveKeeps ==
    ASSUME IInv, NEW f \in Flows, LoseRevive(f)
    PROVE  IInv'
  <1>1. /\ revive' = revive \ {f} /\ budget > 0 /\ budget' = budget - 1
        /\ UNCHANGED <<flow, caller, doomed, owner, status, parked, done, asked, pc, plan, scan, hits, stale, stray>>
    BY DEF LoseRevive, flowVars, stepVars, history
  <1>2. TypeOK'
    BY <1>1, SubgraphAssumption DEF IInv, TypeOK
  <1>3. QED
    BY <1>1, <1>2, QuietKeeps

LEMMA SelectWedgedKeeps ==
    ASSUME IInv, NEW p \in Sweepers, NEW s \in Steps, SelectWedged(p, s)
    PROVE  IInv'
  <1>1. /\ hits' = [hits EXCEPT ![p] = s]
        /\ UNCHANGED <<flow, caller, doomed, owner, status, parked, done, asked, pc, revive, plan, scan, budget, stale, stray>>
    BY DEF SelectWedged, flowVars, stepVars, history
  <1>2. TypeOK'
    BY <1>1 DEF IInv, TypeOK
  <1>3. QED
    BY <1>1, <1>2, QuietKeeps

\* A Resume reads a chain whose leaf has no live child: one that is not
\* interrupted would have a caller that is not.
LEMMA ReadChainKeeps ==
    ASSUME IInv, ReadChain
    PROVE  IInv'
  <1>1. PICK s \in Steps :
           /\ status[s] = "interrupted"
           /\ \A f \in Children(s) : flow[f] # "interrupted"
           /\ plan' = [leaf |-> s, parks |-> CallersAbove(s)]
    BY DEF ReadChain
  <1>2. UNCHANGED <<flow, caller, doomed, owner, status, parked, done, asked, pc, revive, scan, hits, budget, stale, stray>>
    BY DEF ReadChain, flowVars, stepVars, history
  <1>3. TypeOK /\ TreeShape /\ s # 0 /\ owner[s] # 0 /\ owner[s] \in Flows /\ flow[owner[s]] # "none"
    BY <1>1 DEF IInv, TreeShape, TypeOK, Steps
  <1>4. CallersAbove(s) \subseteq Steps
    BY <1>3, AboveExists DEF CallersAbove, Chain, TypeOK
  <1>5. TypeOK'
    BY <1>1, <1>2, <1>3, <1>4 DEF TypeOK
  <1>6. NoLiveChild(s)
    BY <1>1, <1>3 DEF IInv, LiveChild, NoLiveChild, Live, Children
  <1>7. pc[s] = "idle"
    BY <1>1 DEF IInv, DispatchShape, TypeOK
  <1>8. TreeShape'
    BY <1>2, <1>5, TreeIsKept DEF IInv, TreeShape
  <1>9. CallersAbove(s)' = CallersAbove(s)
    BY <1>2, <1>3, <1>5, <1>8, CallersAreKept
  <1>10. PlanShape'
    BY <1>1, <1>2, <1>6, <1>7, <1>9 DEF PlanShape, NoLiveChild, Live
  <1>11. QED
    BY <1>2, <1>5, <1>10, QuietKeeps
\* The tree read by a Terminate: the root and, below it, whatever is reached
\* through live flows, so the parent of what is read is read.
LEMMA ScanTerminateKeeps ==
    ASSUME IInv, ScanTerminate
    PROVE  IInv'
  <1>1. /\ scan' = {Root} \cup AllSubgraphFlows(Root)
        /\ UNCHANGED <<flow, caller, doomed, owner, status, parked, done, asked, pc, revive, plan, hits, budget, stale, stray>>
    BY DEF ScanTerminate, flowVars, stepVars, history
  <1>2. TypeOK /\ TreeShape
    BY DEF IInv
  <1>3. Root \in Flows /\ flow[Root] # "none"
    BY <1>2, SubgraphAssumption DEF Root, Flows, TreeShape
  <1>4. TypeOK'
    BY <1>1, <1>2, <1>3 DEF TypeOK, AllSubgraphFlows, Below
  <1>5. ScanShape'
    BY <1>1, <1>2, <1>3, ScanIsClosed DEF ScanShape
  <1>6. QED
    BY <1>1, <1>4, <1>5, QuietKeeps

\* An orphan is live and its parent is terminated, never completed or failed.
LEMMA ScanOrphanKeeps ==
    ASSUME IInv, NEW f \in Flows, ScanOrphan(f)
    PROVE  IInv'
  <1>1. /\ scan' = {f} \cup AllSubgraphFlows(f) /\ Orphaned(f)
        /\ UNCHANGED <<flow, caller, doomed, owner, status, parked, done, asked, pc, revive, plan, hits, budget, stale, stray>>
    BY DEF ScanOrphan, flowVars, stepVars, history
  <1>2. TypeOK /\ TreeShape
    BY DEF IInv
  <1>3. TypeOK'
    BY <1>1, <1>2 DEF TypeOK, AllSubgraphFlows, Below
  <1>4. flow[f] # "none" /\ flow[owner[caller[f]]] = "terminated"
    <2>1. Live(f) /\ caller[f] # 0 /\ flow[owner[caller[f]]] \in TerminalFlow
      BY <1>1, <1>2, ParentIsOlder DEF Orphaned
    <2>2. QED
      BY <2>1, ParentIsUp DEF Live
  <1>5. ScanShape'
    BY <1>1, <1>2, <1>4, ScanIsClosed DEF ScanShape
  <1>6. QED
    BY <1>1, <1>3, <1>5, QuietKeeps
-----------------------------------------------------------------------------
(* The steps that move one row *)

\* A claim takes the row of a live flow, or of the root that was deleted while
\* it was interrupted.
LEMMA ClaimKeeps ==
    ASSUME IInv, NEW s \in Steps, Claim(s)
    PROVE  IInv'
  <1>1. /\ status[s] = "pending" /\ ~parked[s]
        /\ status' = [status EXCEPT ![s] = ClaimedAs(s)] /\ pc' = [pc EXCEPT ![s] = "idle"]
        /\ UNCHANGED <<flow, caller, doomed, owner, parked, done, asked, revive, plan, scan, hits, budget, stale, stray>>
    BY DEF Claim, flowVars, history
  <1>2. /\ status \in [Steps -> {"none", "gone"} \cup LiveStep \cup TerminalStep]
        /\ pc \in [Steps -> {"idle", "insert", "interrupt"}] /\ s # 0
    BY DEF IInv, TypeOK, Steps
  <1>3. owner[s] \in Flows
    BY <1>1 DEF IInv, TypeOK, TreeShape
  <1> DEFINE st == ClaimedAs(s)
  <1>4. \/ st = "running" /\ Live(owner[s])
        \/ st = "terminated" /\ owner[s] = Root /\ flow[Root] = "terminated"
    BY <1>1, ParentIsUp DEF ClaimedAs, Live
  <1>5. st = "running" => Childless(s)
    BY <1>1, <1>2, <1>4 DEF IInv, LiveChild, TerminatedFromAbove, Childless, Live
  <1>6. NoLiveChild(s)
    BY <1>1, <1>2 DEF IInv, LiveChild, NoLiveChild
  <1> HIDE DEF st
  <1>7. /\ status' = [status EXCEPT ![s] = st] /\ status'[s] = st /\ pc'[s] = "idle"
        /\ \A t \in Steps : t # s => status'[t] = status[t] /\ pc'[t] = pc[t]
        /\ \A t \in Steps : pc'[t] \in {pc[t], "idle"}
    BY <1>1, <1>2 DEF st
  <1>8. TypeOK'
    BY <1>1, <1>2, <1>4, <1>7 DEF IInv, TypeOK
  <1>9. TreeShape'
    BY <1>1, <1>4, <1>7, TreeIsKept DEF IInv, TreeShape
  <1>10. GoneWhole'
    BY <1>1, <1>4, <1>7 DEF IInv, GoneWhole, Live
  <1>11. StoppedSteps'
    BY <1>1, <1>4, <1>7 DEF IInv, StoppedSteps, Live, Root
  <1>12. TerminatedFromAbove'
    BY <1>1 DEF IInv, TerminatedFromAbove
  <1>13. LiveChild'
    BY <1>1, <1>6, <1>7 DEF IInv, TypeOK, LiveChild, NoLiveChild, Live
  <1>14. DispatchShape'
    BY <1>1, <1>4, <1>5, <1>7 DEF IInv, DispatchShape, Childless, Live
  <1>15. ReviveShape'
    BY <1>1, <1>7 DEF IInv, TypeOK, ReviveShape, Childless, Live
  <1>16. PlanShape'
    <2>1. \A t \in Steps :
             NoLiveChild(t) /\ pc[t] = "idle" /\ status[t] \in {"interrupted", "terminated", "gone"} =>
             NoLiveChild(t)' /\ pc'[t] = "idle" /\ status'[t] \in {"interrupted", "terminated", "gone"}
      BY <1>1, <1>7 DEF NoLiveChild, Live
    <2>2. QED
      BY <1>1, <1>8, <1>9, <2>1, PlanIsKept
  <1>17. ScanShape'
    BY <1>1 DEF IInv, ScanShape
  <1>18. PausedShape'
    <2>1. \A t \in Steps : status[t] = "interrupted" => status'[t] = "interrupted"
      BY <1>1, <1>7
    <2>2. QED
      BY <1>1, <2>1 DEF IInv, PausedShape, Branches
  <1>19. QED
    BY <1>8, <1>9, <1>10, <1>11, <1>12, <1>13, <1>14, <1>15, <1>16, <1>17, <1>18 DEF IInv

\* An expired lease takes the row of a dispatch without a child.
LEMMA LeaseExpiresKeeps ==
    ASSUME IInv, NEW s \in Steps, LeaseExpires(s)
    PROVE  IInv'
  <1>1. /\ status[s] = "running" /\ ~parked[s]
        /\ status' = [status EXCEPT ![s] = "pending"] /\ budget > 0 /\ budget' = budget - 1
        /\ UNCHANGED <<flow, caller, doomed, owner, parked, done, asked, pc, revive, plan, scan, hits, stale, stray>>
    BY DEF LeaseExpires, flowVars, history
  <1>2. /\ status \in [Steps -> {"none", "gone"} \cup LiveStep \cup TerminalStep] /\ s # 0
    BY DEF IInv, TypeOK, Steps
  <1>3. Childless(s)
    BY <1>1 DEF IInv, DispatchShape
  <1>4. status'[s] = "pending" /\ \A t \in Steps : t # s => status'[t] = status[t]
    BY <1>1, <1>2
  <1>5. TypeOK'
    BY <1>1, SubgraphAssumption DEF IInv, TypeOK
  <1>6. TreeShape'
    BY <1>1, <1>4, TreeIsKept DEF IInv, TreeShape
  <1>7. GoneWhole'
    BY <1>1, <1>4 DEF IInv, GoneWhole
  <1>8. StoppedSteps'
    BY <1>1, <1>4 DEF IInv, StoppedSteps, Live
  <1>9. TerminatedFromAbove'
    BY <1>1 DEF IInv, TerminatedFromAbove
  <1>10. LiveChild'
    BY <1>1, <1>3, <1>4 DEF IInv, TypeOK, LiveChild, Childless, Live
  <1>11. DispatchShape'
    BY <1>1, <1>4 DEF IInv, DispatchShape, Childless, Live
  <1>12. ReviveShape'
    BY <1>1, <1>4 DEF IInv, TypeOK, ReviveShape, Childless, Live
  <1>13. PlanShape'
    <2>1. \A t \in Steps :
             NoLiveChild(t) /\ pc[t] = "idle" /\ status[t] \in {"interrupted", "terminated", "gone"} =>
             NoLiveChild(t)' /\ pc'[t] = "idle" /\ status'[t] \in {"interrupted", "terminated", "gone"}
      BY <1>1, <1>4 DEF NoLiveChild, Live
    <2>2. QED
      BY <1>1, <1>5, <1>6, <2>1, PlanIsKept
  <1>14. ScanShape'
    BY <1>1 DEF IInv, ScanShape
  <1>15. PausedShape'
    <2>1. \A t \in Steps : status[t] = "interrupted" => status'[t] = "interrupted"
      BY <1>1, <1>4
    <2>2. QED
      BY <1>1, <2>1 DEF IInv, PausedShape, Branches
  <1>16. QED
    BY <1>5, <1>6, <1>7, <1>8, <1>9, <1>10, <1>11, <1>12, <1>13, <1>14, <1>15 DEF IInv
-----------------------------------------------------------------------------
(* The outcome of a step and the release of a caller *)

\* The rows that a re-arm of one caller leaves.
Rearmed(c, st) ==
    /\ UNCHANGED <<owner, asked>>
    /\ status' \in [Steps -> {"none", "gone"} \cup LiveStep \cup TerminalStep]
    /\ parked' \in [Steps -> BOOLEAN] /\ done' \in [Steps -> BOOLEAN]
    /\ status'[c] = "pending" /\ ~parked'[c] /\ done'[c]
    /\ \A t \in Steps : t # c => status'[t] = st[t] /\ (done'[t] <=> done[t])
    /\ \A t \in Steps : t # c => (parked'[t] <=> parked[t] /\ st[t] = status[t])

LEMMA RearmOne ==
    ASSUME TypeOK, NEW c \in Steps, NEW st \in [Steps -> {"none", "gone"} \cup LiveStep \cup TerminalStep],
           Rearm({c}, st)
    PROVE  Rearmed(c, st)
  BY DEF TypeOK, Rearm, Rearmed

LEMMA RearmNone ==
    ASSUME TypeOK, NEW st \in [Steps -> {"none", "gone"} \cup LiveStep \cup TerminalStep],
           Rearm({}, st)
    PROVE  /\ UNCHANGED <<owner, asked, done>> /\ status' = st
           /\ parked' \in [Steps -> BOOLEAN]
           /\ \A t \in Steps : parked'[t] <=> parked[t] /\ st[t] = status[t]
           /\ st = status => parked' = parked
  <1>1. UNCHANGED <<owner, asked>> /\ parked' \in [Steps -> BOOLEAN] /\ status' = st
    BY DEF TypeOK, Rearm
  <1>2. \A t \in Steps : parked'[t] <=> parked[t] /\ st[t] = status[t]
    BY DEF Rearm
  <1>3. done' = done
    <2>1. done' \in [Steps -> BOOLEAN] /\ done \in [Steps -> BOOLEAN]
      BY DEF TypeOK, Rearm
    <2>2. \A t \in Steps : done'[t] <=> done[t]
      BY DEF Rearm
    <2>3. QED
      BY <2>1, <2>2
  <1>4. st = status => parked' = parked
    BY <1>1, <1>2 DEF TypeOK
  <1>5. QED
    BY <1>1, <1>2, <1>3, <1>4

\* A release that finds its caller parked, without a live child, and nobody
\* else about to release it.
LEMMA ReleaseKeepsOne ==
    ASSUME IInv, NEW c \in Steps, ReviveFence(c), NoLiveChild(c), pc[c] = "idle",
           Rearm({c}, status), UNCHANGED <<flow, caller, doomed, pc, plan, scan, budget>>,
           revive' \subseteq revive, \A f \in revive' : caller[f] # c,
           hits' \in [Sweepers -> {0} \cup Steps], stale' \subseteq Sweepers, stray' \in BOOLEAN
    PROVE  IInv'
  <1>1. TypeOK /\ c # 0 /\ status[c] = "running" /\ parked[c]
        /\ status \in [Steps -> {"none", "gone"} \cup LiveStep \cup TerminalStep]
    BY DEF IInv, ReviveFence, TypeOK
  <1>2. /\ UNCHANGED <<owner, asked>>
        /\ status' \in [Steps -> {"none", "gone"} \cup LiveStep \cup TerminalStep]
        /\ parked' \in [Steps -> BOOLEAN] /\ done' \in [Steps -> BOOLEAN]
        /\ status'[c] = "pending" /\ ~parked'[c] /\ done'[c]
        /\ \A t \in Steps : t # c => status'[t] = status[t] /\ (done'[t] <=> done[t])
                                     /\ (parked'[t] <=> parked[t])
    BY <1>1, RearmOne DEF Rearmed
  <1>3. TypeOK'
    BY <1>1, <1>2 DEF TypeOK
  <1>4. TreeShape'
    BY <1>1, <1>2, TreeIsKept DEF IInv, TreeShape
  <1>5. GoneWhole'
    BY <1>1, <1>2 DEF IInv, GoneWhole
  <1>6. StoppedSteps'
    BY <1>1, <1>2 DEF IInv, StoppedSteps, Live
  <1>7. TerminatedFromAbove'
    BY <1>1, <1>2 DEF IInv, TerminatedFromAbove
  <1>8. LiveChild'
    BY <1>1, <1>2 DEF IInv, TypeOK, LiveChild, NoLiveChild, Live
  <1>9. DispatchShape'
    BY <1>1, <1>2 DEF IInv, DispatchShape, Childless, Live
  <1>10. ReviveShape'
    BY <1>1, <1>2 DEF IInv, TypeOK, ReviveShape, Childless, Live
  <1>11. PlanShape'
    <2>1. \A t \in Steps :
             NoLiveChild(t) /\ pc[t] = "idle" /\ status[t] \in {"interrupted", "terminated", "gone"} =>
             NoLiveChild(t)' /\ pc'[t] = "idle" /\ status'[t] \in {"interrupted", "terminated", "gone"}
      BY <1>1, <1>2 DEF NoLiveChild, Live
    <2>2. QED
      BY <1>1, <1>2, <1>3, <1>4, <2>1, PlanIsKept
  <1>12. ScanShape'
    BY <1>1, <1>2 DEF IInv, ScanShape
  <1>13. PausedShape'
    <2>1. \A t \in Steps : status[t] = "interrupted" => status'[t] = "interrupted"
      BY <1>1, <1>2
    <2>2. QED
      BY <1>2, <2>1 DEF IInv, PausedShape, Branches
  <1>14. QED
    BY <1>3, <1>4, <1>5, <1>6, <1>7, <1>8, <1>9, <1>10, <1>11, <1>12, <1>13 DEF IInv

\* The release of a completed child finds a caller that waits for nothing else,
\* or one that has stopped.
LEMMA CompleteSurgraphFlowKeeps ==
    ASSUME IInv, NEW f \in Flows, CompleteSurgraphFlow(f)
    PROVE  IInv'
  <1>1. /\ f \in revive /\ revive' = revive \ {f}
        /\ Rearm({c \in {caller[f]} : ReviveFence(c)}, status)
        /\ UNCHANGED <<flow, caller, doomed, pc, plan, scan, hits, budget, stale, stray>>
    BY DEF CompleteSurgraphFlow, flowVars, history
  <1>2. /\ TypeOK /\ status \in [Steps -> {"none", "gone"} \cup LiveStep \cup TerminalStep]
        /\ hits' \in [Sweepers -> {0} \cup Steps] /\ stale' \subseteq Sweepers /\ stray' \in BOOLEAN
    BY <1>1 DEF IInv, TypeOK
  <1>3. /\ caller[f] # 0 /\ caller[f] \in Steps /\ Childless(caller[f]) /\ pc[caller[f]] = "idle"
        /\ \A g \in revive : caller[g] = caller[f] => g = f
    BY <1>1 DEF IInv, TypeOK, ReviveShape
  <1>4. NoLiveChild(caller[f])
    BY <1>3 DEF Childless, NoLiveChild
  <1>5. CASE ReviveFence(caller[f])
    <2>1. Rearm({caller[f]}, status)
      <3>1. {c \in {caller[f]} : ReviveFence(c)} = {caller[f]}
        BY <1>5
      <3>2. QED
        BY <1>1, <3>1
    <2>2. \A g \in revive' : caller[g] # caller[f]
      BY <1>1, <1>3
    <2>3. QED
      BY <1>1, <1>2, <1>3, <1>4, <1>5, <2>1, <2>2, ReleaseKeepsOne
  <1>6. CASE ~ReviveFence(caller[f])
    <2>1. Rearm({}, status)
      <3>1. {c \in {caller[f]} : ReviveFence(c)} = {}
        BY <1>6
      <3>2. QED
        BY <1>1, <3>1
    <2>2. UNCHANGED <<owner, asked, done, status, parked>>
      BY <1>2, <2>1, RearmNone
    <2>3. TypeOK'
      BY <1>1, <1>2, <2>2 DEF TypeOK
    <2>4. QED
      BY <1>1, <2>2, <2>3, QuietKeeps
  <1>7. QED
    BY <1>5, <1>6
\* A sweep whose caller has not parked again since the selection finds the
\* caller wedged or gone on; the write of another one is a no-op, or strays.
LEMMA RecoverWedgedKeeps ==
    ASSUME IInv, Selections, NEW p \in Sweepers, RecoverWedged(p)
    PROVE  stray' \/ IInv'
  <1> SUFFICES ASSUME ~stray' PROVE IInv'
    OBVIOUS
  <1> DEFINE c == hits[p]
  <1>1. /\ c # 0 /\ hits' = [hits EXCEPT ![p] = 0]
        /\ Rearm({x \in {c} : ReviveFence(x)}, status)
        /\ stale' = stale \ {p}
        /\ stray' = (stray \/ (p \in stale /\ (flow' # flow \/ ReviveFence(c))))
        /\ UNCHANGED <<caller, doomed, pc, revive, plan, scan, budget>>
    BY DEF RecoverWedged
  <1>2. /\ TypeOK /\ status \in [Steps -> {"none", "gone"} \cup LiveStep \cup TerminalStep]
        /\ flow = [f \in Flows |-> flow[f]]
        /\ c \in Steps /\ hits' \in [Sweepers -> {0} \cup Steps]
        /\ stale' \subseteq Sweepers /\ stray' \in BOOLEAN
    BY <1>1 DEF IInv, TypeOK
  <1>3. p \in stale => flow' = flow /\ ~ReviveFence(c)
    BY <1>1
  <1>4. flow' = flow
    BY <1>2, <1>3, RecoverIsHarmless
  <1>5. CASE ReviveFence(c)
    <2>1. NoLiveChild(c) /\ pc[c] # "insert" /\ \A f \in revive' : caller[f] # c
      BY <1>1, <1>2, <1>3, <1>5 DEF Selections, TypeOK
    <2>2. pc[c] = "idle"
      BY <1>2, <1>5, <2>1 DEF IInv, TypeOK, DispatchShape, ReviveFence
    <2>3. Rearm({c}, status)
      <3>1. {x \in {c} : ReviveFence(x)} = {c}
        BY <1>5
      <3>2. QED
        BY <1>1, <3>1
    <2> HIDE DEF c
    <2>4. QED
      BY <1>1, <1>2, <1>4, <1>5, <2>1, <2>2, <2>3, ReleaseKeepsOne
  <1>6. CASE ~ReviveFence(c)
    <2>1. Rearm({}, status)
      <3>1. {x \in {c} : ReviveFence(x)} = {}
        BY <1>6
      <3>2. QED
        BY <1>1, <3>1
    <2>2. UNCHANGED <<owner, asked, done, status, parked>>
      BY <1>2, <2>1, RearmNone
    <2>3. TypeOK'
      BY <1>1, <1>2, <1>4, <2>2 DEF TypeOK
    <2>4. QED
      BY <1>1, <1>4, <2>2, <2>3, QuietKeeps
  <1>7. QED
    BY <1>5, <1>6
\* What an outcome does to the rows.
OutcomeOf(s, st) ==
    LET f == owner[s]
        c == caller[f]
        ended == \A t \in Steps : owner[t] = f /\ t # s => status[t] \in {"completed", "failed"}
        armed == c # 0 /\ c # s /\ status[c] = "running" /\ parked[c]
                    /\ status'[c] = "pending" /\ ~parked'[c] /\ flow'[f] \notin LiveFlow /\ revive' = revive
    IN  /\ UNCHANGED <<caller, doomed, owner, asked>>
        /\ flow' \in [Flows -> {"none", "gone"} \cup LiveFlow \cup TerminalFlow]
        /\ status' \in [Steps -> {"none", "gone"} \cup LiveStep \cup TerminalStep]
        /\ parked' \in [Steps -> BOOLEAN] /\ done' \in [Steps -> BOOLEAN]
        /\ status'[s] = st /\ ~parked'[s] /\ (done'[s] <=> done[s])
        /\ \A t \in Steps : t # s =>
              \/ status'[t] = status[t] /\ (parked'[t] <=> parked[t]) /\ (done'[t] <=> done[t])
              \/ t = c /\ armed
        /\ \A g \in Flows : g # f => flow'[g] = flow[g]
        /\ flow'[f] = flow[f] \/ (Live(f) /\ ended /\ flow'[f] \in {"completed", "failed"})
        /\ revive' = revive \/ (revive' = revive \cup {f} /\ Live(f) /\ ended /\ flow'[f] = "completed" /\ c # 0)
        /\ f \in Flows /\ (c # 0 => c \in Steps /\ c # s /\ owner[c] # f)
        /\ Live(f) \/ (f = Root /\ flow[Root] = "terminated" /\ c = 0)

LEMMA OutcomeIs ==
    ASSUME IInv, NEW s \in Steps, NEW st \in {"completed", "failed"},
           status[s] = "running", Outcome(s, st)
    PROVE  OutcomeOf(s, st)
  <1> DEFINE f == owner[s]
             c == caller[f]
             ended == \A t \in Steps : owner[t] = f /\ t # s => status[t] \in {"completed", "failed"}
             fails == Resolves(s, st) /\ Lost(s, st)
             wins == Resolves(s, st) /\ ~Lost(s, st) /\ Live(f)
             new == [status EXCEPT ![s] = st]
  <1>1. /\ flow' = [flow EXCEPT ![f] =
                       IF ~Live(f) THEN @ ELSE IF fails THEN "failed"
                       ELSE IF wins THEN "completed" ELSE @]
        /\ Rearm({x \in {c} : fails /\ ReviveFence(x)}, new)
        /\ revive' = IF wins /\ c # 0 THEN revive \cup {f} ELSE revive
        /\ UNCHANGED <<caller, doomed>>
    BY DEF Outcome
  <1>2. TypeOK /\ TreeShape
    BY DEF IInv
  <1>3. Live(f) \/ (f = Root /\ flow[Root] = "terminated")
    BY ParentIsUp
  <1>4. f \in Flows /\ flow[f] # "none" /\ flow[f] # "gone"
    BY <1>2, <1>3 DEF TypeOK, TreeShape, Live
  <1>5. c # 0 => c \in Steps /\ owner[c] < f /\ owner[c] \in Flows /\ f # Root
    BY <1>2, <1>4, ParentIsOlder
  <1>6. c # 0 => c # s /\ owner[c] # f
    BY <1>4, <1>5 DEF Flows
  <1>7. f = Root => c = 0
    BY <1>5
  <1>8. Resolves(s, st) => ended
    BY <1>4 DEF IInv, GoneWhole, Resolves, Branches, TreeShape
  <1>9. /\ new \in [Steps -> {"none", "gone"} \cup LiveStep \cup TerminalStep]
        /\ new[s] = st /\ \A t \in Steps : t # s => new[t] = status[t]
    BY <1>2 DEF TypeOK
  <1>10. /\ flow' \in [Flows -> {"none", "gone"} \cup LiveFlow \cup TerminalFlow]
         /\ \A g \in Flows : g # f => flow'[g] = flow[g]
         /\ flow'[f] = flow[f] \/ (Live(f) /\ Resolves(s, st) /\ flow'[f] \in {"completed", "failed"})
         /\ fails => flow'[f] \notin LiveFlow
         /\ wins => flow'[f] = "completed"
    <2> HIDE DEF fails
    <2>1. fails => ~wins
      BY DEF fails
    <2>2. wins => Resolves(s, st) /\ Live(f)
      OBVIOUS
    <2>3. fails => Resolves(s, st)
      BY DEF fails
    <2> DEFINE v == IF ~Live(f) THEN flow[f] ELSE IF fails THEN "failed"
                    ELSE IF wins THEN "completed" ELSE flow[f]
    <2>4. flow' = [flow EXCEPT ![f] = v]
      BY <1>1
    <2>5. /\ v = flow[f] \/ (Live(f) /\ Resolves(s, st) /\ v \in {"completed", "failed"})
          /\ fails => v \notin LiveFlow
          /\ wins => v = "completed"
      <3> HIDE DEF wins, f
      <3>1. QED
        BY <2>1, <2>2, <2>3 DEF Live
    <2> HIDE DEF wins, f, v
    <2>6. flow'[f] = v /\ \A g \in Flows : g # f => flow'[g] = flow[g]
      BY <1>2, <1>4, <2>4 DEF TypeOK
    <2>7. v \in {"none", "gone"} \cup LiveFlow \cup TerminalFlow
      BY <1>2, <1>4, <2>5 DEF TypeOK
    <2>8. flow' \in [Flows -> {"none", "gone"} \cup LiveFlow \cup TerminalFlow]
      BY <1>2, <2>4, <2>7 DEF TypeOK
    <2>9. QED
      BY <2>5, <2>6, <2>8 DEF Live
  <1>11. CASE fails /\ ReviveFence(c)
    <2>1. {x \in {c} : fails /\ ReviveFence(x)} = {c}
      BY <1>11
    <2>2. c # 0 /\ c \in Steps /\ c # s /\ status[c] = "running" /\ parked[c]
      BY <1>5, <1>6, <1>11 DEF ReviveFence
    <2>3. Rearm({c}, new)
      BY <1>1, <2>1
    <2>4. /\ UNCHANGED <<owner, asked>>
          /\ status' \in [Steps -> {"none", "gone"} \cup LiveStep \cup TerminalStep]
          /\ parked' \in [Steps -> BOOLEAN] /\ done' \in [Steps -> BOOLEAN]
          /\ status'[c] = "pending" /\ ~parked'[c] /\ done'[c]
          /\ \A t \in Steps : t # c => status'[t] = new[t] /\ (done'[t] <=> done[t])
          /\ \A t \in Steps : t # c => (parked'[t] <=> parked[t] /\ new[t] = status[t])
      <3> HIDE DEF c, new
      <3>1. Rearmed(c, new)
        BY <1>2, <1>9, <2>2, <2>3, RearmOne
      <3>2. QED
        BY <3>1 DEF Rearmed
    <2>5. revive' = revive
      BY <1>1, <1>11
    <2> HIDE DEF new, fails, wins, f, c, ended
    <2>6. QED
      BY <1>1, <1>3, <1>4, <1>5, <1>6, <1>7, <1>8, <1>9, <1>10, <1>11, <2>2, <2>4, <2>5
         DEF OutcomeOf, f, c, ended
  <1>12. CASE ~(fails /\ ReviveFence(c))
    <2>1. {x \in {c} : fails /\ ReviveFence(x)} = {}
      BY <1>12
    <2>2. Rearm({}, new)
      BY <1>1, <2>1
    <2>3. /\ UNCHANGED <<owner, asked, done>> /\ status' = new
          /\ parked' \in [Steps -> BOOLEAN]
          /\ \A t \in Steps : parked'[t] <=> parked[t] /\ new[t] = status[t]
      <3> HIDE DEF new
      <3>1. QED
        BY <1>2, <1>9, <2>2, RearmNone
    <2>4. done' \in [Steps -> BOOLEAN]
      BY <1>2, <2>3 DEF TypeOK
    <2>5. revive' = revive \/ (revive' = revive \cup {f} /\ wins /\ c # 0)
      BY <1>1
    <2>6. wins => Live(f) /\ Resolves(s, st)
      OBVIOUS
    <2> HIDE DEF new, fails, wins, f, c, ended
    <2>7. QED
      BY <1>1, <1>3, <1>4, <1>5, <1>6, <1>7, <1>8, <1>9, <1>10, <2>3, <2>4, <2>5, <2>6
         DEF OutcomeOf, f, c, ended
  <1>13. QED
    BY <1>11, <1>12
\* An outcome: the flow ends when no other step of it is still to end, its
\* caller waits for it alone, and is released or left to a release of its own.
LEMMA OutcomeKeepsAll ==
    ASSUME IInv, NEW s \in Steps, NEW st \in {"completed", "failed"}, OutcomeOf(s, st),
           status[s] = "running", (~parked[s] /\ pc[s] = "idle") \/ pc[s] = "insert",
           pc' \in [Steps -> {"idle", "insert", "interrupt"}],
           pc'[s] = "idle", \A t \in Steps : t # s => pc'[t] = pc[t],
           UNCHANGED <<plan, scan, hits, stale, stray>>, budget' \in 0..MaxBudget
    PROVE  IInv'
  <1>1. PICK f : f = owner[s]
    OBVIOUS
  <1>2. PICK c : c = caller[f]
    OBVIOUS
  <1> DEFINE ended == \A t \in Steps : owner[t] = f /\ t # s => status[t] \in {"completed", "failed"}
             armed == c # 0 /\ c # s /\ status[c] = "running" /\ parked[c]
                       /\ status'[c] = "pending" /\ ~parked'[c] /\ flow'[f] \notin LiveFlow /\ revive' = revive
  <1>3. /\ UNCHANGED <<caller, doomed, owner, asked, plan, scan, hits, stale, stray>>
        /\ flow' \in [Flows -> {"none", "gone"} \cup LiveFlow \cup TerminalFlow]
        /\ status' \in [Steps -> {"none", "gone"} \cup LiveStep \cup TerminalStep]
        /\ parked' \in [Steps -> BOOLEAN] /\ done' \in [Steps -> BOOLEAN]
        /\ status'[s] = st /\ ~parked'[s] /\ (done'[s] <=> done[s])
        /\ \A t \in Steps : t # s =>
              \/ status'[t] = status[t] /\ (parked'[t] <=> parked[t]) /\ (done'[t] <=> done[t])
              \/ t = c /\ armed
        /\ \A g \in Flows : g # f => flow'[g] = flow[g]
        /\ flow'[f] = flow[f] \/ (Live(f) /\ ended /\ flow'[f] \in {"completed", "failed"})
        /\ revive' = revive \/ (revive' = revive \cup {f} /\ Live(f) /\ ended /\ flow'[f] = "completed" /\ c # 0)
        /\ f \in Flows /\ (c # 0 => c \in Steps /\ c # s /\ owner[c] # f)
        /\ Live(f) \/ (f = Root /\ flow[Root] = "terminated" /\ c = 0)
    BY <1>1, <1>2 DEF OutcomeOf
  <1>4. TypeOK /\ TreeShape /\ \A t \in Steps : t # 0
    BY DEF IInv, Steps
  <1>5. Childless(s)
    BY DEF IInv, DispatchShape
  <1>6. ASSUME c # 0
        PROVE  /\ Live(f) /\ c \in Steps /\ c # s
               /\ ~done[c] /\ pc[c] = "idle"
               /\ \/ status[c] = "running" /\ parked[c]
                  \/ status[c] = "interrupted" /\ flow[f] = "interrupted"
                  \/ status[c] = "terminated"
               /\ \A g \in Flows : g # f /\ caller[g] = c => ~Live(g) /\ flow[g] # "terminated"
               /\ \A g \in revive : caller[g] # c
    <2>1. Live(f) /\ c \in Steps /\ c # s
      BY <1>3, <1>6
    <2>2. /\ ~done[c] /\ pc[c] = "idle"
          /\ \/ status[c] = "running" /\ parked[c]
             \/ status[c] = "interrupted" /\ flow[f] = "interrupted"
             \/ status[c] = "terminated"
          /\ \A g \in Flows : g # f /\ caller[g] = c => ~Live(g) /\ flow[g] # "terminated"
      BY <1>2, <1>3, <1>6, <2>1 DEF IInv, LiveChild
    <2>3. \A g \in revive : caller[g] # c
      BY <1>2, <1>3, <2>1 DEF IInv, ReviveShape, Childless
    <2>4. QED
      BY <2>1, <2>2, <2>3
  <1>7. ASSUME Live(f), ended PROVE flow[f] # "interrupted"
    BY <1>1, <1>3, <1>7 DEF IInv, PausedShape, Branches
  <1>8. TypeOK'
    BY <1>3, <1>4 DEF TypeOK
  <1> HIDE DEF ended, armed
  <1>9. /\ \A t \in Steps : t # s /\ t # c =>
              status'[t] = status[t] /\ (parked'[t] <=> parked[t]) /\ (done'[t] <=> done[t])
        /\ c # 0 /\ c # s => \/ status'[c] = status[c] /\ (parked'[c] <=> parked[c]) /\ (done'[c] <=> done[c])
                             \/ armed
    BY <1>3
  <1>10. TreeShape'
    <2>1. \A g \in Flows : flow'[g] = "none" <=> flow[g] = "none"
      BY <1>3 DEF Live
    <2>2. \A t \in Steps : status'[t] = "none" <=> status[t] = "none"
      BY <1>3 DEF armed
    <2>3. \A t \in Steps : status[t] = "none" => pc'[t] = "idle" /\ ~done'[t] /\ ~parked'[t]
      BY <1>3, <1>4 DEF TreeShape, armed
    <2>4. QED
      BY <1>3, <1>4, <2>1, <2>2, <2>3, TreeIsKept
  <1>11. GoneWhole'
    <2>1. \A t \in Steps : status'[t] = "gone" <=> status[t] = "gone"
      BY <1>3 DEF armed
    <2>2. \A g \in Flows : flow'[g] = "gone" <=> flow[g] = "gone"
      BY <1>3 DEF Live
    <2>3. \A t \in Steps : owner[t] # 0 => owner[t] \in Flows
      BY <1>4 DEF TypeOK
    <2>4. \A g \in Flows : caller[g] # 0 => owner[caller[g]] \in Flows
      BY <1>4, ParentIsOlder
    <2>5. QED
      BY <1>3, <2>1, <2>2, <2>3, <2>4 DEF IInv, GoneWhole
  <1>12. StoppedSteps'
    <2> SUFFICES ASSUME NEW t \in Steps, owner[t] # 0
                 PROVE  /\ flow'[owner[t]] \in {"completed", "failed"} => status'[t] \in {"completed", "failed"}
                        /\ flow'[owner[t]] = "terminated" /\ owner[t] # Root => status'[t] \notin LiveStep
                        /\ status'[t] = "terminated" => flow'[owner[t]] \notin LiveFlow
      BY <1>3 DEF StoppedSteps, Live
    <2>1. /\ flow[owner[t]] \in {"completed", "failed"} => status[t] \in {"completed", "failed"}
          /\ flow[owner[t]] = "terminated" /\ owner[t] # Root => status[t] \notin LiveStep
          /\ status[t] = "terminated" => flow[owner[t]] \notin LiveFlow
      BY DEF IInv, StoppedSteps, Live
    <2>2. owner[t] \in Flows
      BY <1>4 DEF TypeOK
    <2>3. CASE t = s
      BY <1>1, <1>3, <2>1, <2>3 DEF Live
    <2>4. CASE t # s /\ t = c
      BY <1>3, <1>4, <2>1, <2>2, <2>4 DEF armed, Live
    <2>5. CASE t # s /\ t # c
      BY <1>1, <1>3, <1>9, <2>1, <2>2, <2>5 DEF Live, ended
    <2>6. QED
      BY <2>3, <2>4, <2>5
  <1>13. TerminatedFromAbove'
    <2>1. \A g \in Flows : caller[g] # 0 => owner[caller[g]] \in Flows
      BY <1>4, ParentIsOlder
    <2>2. QED
      BY <1>3, <2>1 DEF IInv, TerminatedFromAbove, Live
  <1>14. LiveChild'
    <2> SUFFICES ASSUME NEW g \in Flows, flow'[g] \in LiveFlow, caller[g] # 0
                 PROVE  /\ ~done'[caller[g]] /\ pc'[caller[g]] = "idle"
                        /\ \/ status'[caller[g]] = "running" /\ parked'[caller[g]]
                           \/ status'[caller[g]] = "interrupted" /\ flow'[g] = "interrupted"
                           \/ status'[caller[g]] = "terminated"
                        /\ \A h \in Flows : h # g /\ caller[h] = caller[g] =>
                              flow'[h] \notin LiveFlow /\ flow'[h] # "terminated"
      BY <1>3 DEF LiveChild, Live
    <2>1. Live(g) /\ flow'[g] = flow[g] /\ caller[g] \in Steps
      BY <1>3, <1>4 DEF Live, TypeOK
    <2>2. /\ ~done[caller[g]] /\ pc[caller[g]] = "idle"
          /\ \/ status[caller[g]] = "running" /\ parked[caller[g]]
             \/ status[caller[g]] = "interrupted" /\ flow[g] = "interrupted"
             \/ status[caller[g]] = "terminated"
          /\ \A h \in Flows : h # g /\ caller[h] = caller[g] => ~Live(h) /\ flow[h] # "terminated"
      BY <2>1 DEF IInv, LiveChild
    <2>3. caller[g] # s
      BY <1>5, <2>1 DEF Childless
    <2>4. /\ status'[caller[g]] = status[caller[g]]
          /\ parked'[caller[g]] <=> parked[caller[g]]
          /\ done'[caller[g]] <=> done[caller[g]]
      <3>1. CASE caller[g] = c
        BY <1>6, <1>9, <2>1, <2>3, <3>1 DEF armed
      <3>2. CASE caller[g] # c
        BY <1>9, <2>1, <2>3, <3>2
      <3>3. QED
        BY <3>1, <3>2
    <2>5. \A h \in Flows : h # g /\ caller[h] = caller[g] => flow'[h] \notin LiveFlow /\ flow'[h] # "terminated"
      BY <1>3, <2>2 DEF Live
    <2>6. QED
      BY <2>1, <2>2, <2>3, <2>4, <2>5
  <1>15. ASSUME NEW t \in Steps
         PROVE  /\ Childless(t) => Childless(t)'
                /\ NoLiveChild(t) => NoLiveChild(t)'
    BY <1>3 DEF Childless, NoLiveChild, Live
  <1>16. DispatchShape'
    <2> SUFFICES ASSUME NEW t \in Steps
                 PROVE  /\ status'[t] = "running" /\ ~parked'[t] => Childless(t)'
                        /\ pc'[t] = "insert" =>
                              /\ ~done'[t] /\ Childless(t)'
                              /\ (status'[t] = "running" /\ parked'[t]) \/ status'[t] \in {"terminated", "gone"}
                        /\ pc'[t] = "interrupt" =>
                              ~parked'[t] /\ status'[t] \in {"running", "pending", "terminated", "gone"}
      BY DEF DispatchShape
    <2>1. /\ status[t] = "running" /\ ~parked[t] => Childless(t)
          /\ pc[t] = "insert" =>
                /\ ~done[t] /\ Childless(t)
                /\ (status[t] = "running" /\ parked[t]) \/ status[t] \in {"terminated", "gone"}
          /\ pc[t] = "interrupt" =>
                ~parked[t] /\ status[t] \in {"running", "pending", "terminated", "gone"}
      BY DEF IInv, DispatchShape
    <2>2. CASE t = s
      BY <1>3, <2>2
    <2>3. CASE t # s /\ t = c
      BY <1>4, <1>6, <1>9, <1>15, <2>1, <2>3 DEF armed, Steps
    <2>4. CASE t # s /\ t # c
      BY <1>9, <1>15, <2>1, <2>4
    <2>5. QED
      BY <2>2, <2>3, <2>4
  <1>17. ReviveShape'
    <2> SUFFICES ASSUME NEW g \in revive'
                 PROVE  /\ flow'[g] # "none" /\ caller[g] # 0 /\ pc'[caller[g]] = "idle"
                        /\ \A h \in Flows : caller[h] = caller[g] => flow'[h] \notin LiveFlow /\ flow'[h] # "terminated"
                        /\ \/ status'[caller[g]] = "running" /\ parked'[caller[g]]
                           \/ status'[caller[g]] \in {"terminated", "gone"}
                        /\ \A h \in revive' : caller[h] = caller[g] => h = g
      BY <1>3 DEF ReviveShape, Childless, Live
    <2>1. CASE g \in revive
      <3>1. /\ flow[g] # "none" /\ caller[g] # 0 /\ Childless(caller[g]) /\ pc[caller[g]] = "idle"
            /\ \/ status[caller[g]] = "running" /\ parked[caller[g]]
               \/ status[caller[g]] \in {"terminated", "gone"}
            /\ \A h \in revive : caller[h] = caller[g] => h = g
            /\ g \in Flows /\ caller[g] \in Steps
        BY <1>4, <2>1 DEF IInv, ReviveShape, TypeOK
      <3>2. caller[g] # s /\ caller[g] # c
        BY <1>6, <2>1, <3>1
      <3>3. /\ flow'[g] # "none"
            /\ \A h \in Flows : caller[h] = caller[g] => flow'[h] \notin LiveFlow /\ flow'[h] # "terminated"
        BY <1>3, <3>1 DEF Childless, Live
      <3>4. \A h \in revive' : caller[h] = caller[g] => h \in revive
        BY <1>2, <1>3, <3>2
      <3>5. QED
        BY <1>9, <3>1, <3>2, <3>3, <3>4
    <2>2. CASE g \notin revive
      <3>1. g = f /\ Live(f) /\ ended /\ flow'[f] = "completed" /\ c # 0 /\ revive' = revive \cup {f}
        BY <1>3, <2>2
      <3>2. status[c] # "interrupted"
        BY <1>6, <1>7, <3>1
      <3>3. \A h \in Flows : caller[h] = c => flow'[h] \notin LiveFlow /\ flow'[h] # "terminated"
        BY <1>2, <1>3, <1>6, <3>1 DEF Live
      <3>4. ~armed
        BY <2>2, <3>1 DEF armed
      <3>5. \A h \in revive' : caller[h] = caller[g] => h = g
        BY <1>2, <1>6, <3>1
      <3>6. QED
        BY <1>2, <1>6, <1>9, <3>1, <3>2, <3>3, <3>4, <3>5
    <2>3. QED
      BY <2>1, <2>2
  <1>18. PlanShape'
    <2>1. ASSUME NEW t \in Steps,
                 NoLiveChild(t) /\ pc[t] = "idle" /\ status[t] \in {"interrupted", "terminated", "gone"}
          PROVE  NoLiveChild(t)' /\ pc'[t] = "idle" /\ status'[t] \in {"interrupted", "terminated", "gone"}
      <3>1. t # s
        BY <2>1
      <3>2. t = c => ~armed
        BY <2>1 DEF armed
      <3>3. QED
        BY <1>3, <1>15, <2>1, <3>1, <3>2
    <2>2. QED
      BY <1>3, <1>8, <1>10, <2>1, PlanIsKept
  <1>19. ScanShape'
    <2>1. \A g \in Flows : flow[g] \in {"none", "terminated", "gone"} <=> flow'[g] \in {"none", "terminated", "gone"}
      BY <1>3 DEF Live
    <2>2. ASSUME NEW g \in scan
          PROVE  /\ flow'[g] # "none"
                 /\ g = Root \/ owner[caller[g]] \in scan \/ flow'[owner[caller[g]]] \in {"terminated", "gone"}
      <3>1. /\ g \in Flows /\ flow[g] # "none"
            /\ g = Root \/ owner[caller[g]] \in scan \/ flow[owner[caller[g]]] \in {"terminated", "gone"}
        BY <1>4 DEF IInv, ScanShape, TypeOK
      <3>2. g # Root => owner[caller[g]] \in Flows
        BY <1>4, <3>1, ParentIsOlder
      <3>3. QED
        BY <1>3, <3>1, <3>2 DEF Live
    <2>3. QED
      BY <1>3, <2>2 DEF ScanShape
  <1>20. PausedShape'
    <2>1. \A t \in Steps : status[t] = "interrupted" => status'[t] = "interrupted"
      BY <1>3 DEF armed
    <2>2. \A g \in Flows : flow'[g] = "interrupted" => flow[g] = "interrupted"
      BY <1>3
    <2>3. QED
      BY <1>3, <2>1, <2>2 DEF IInv, PausedShape, Branches
  <1>21. QED
    BY <1>8, <1>10, <1>11, <1>12, <1>13, <1>14, <1>16, <1>17, <1>18, <1>19, <1>20 DEF IInv
\* A step that ends its dispatch with an outcome.
LEMMA CompleteKeeps ==
    ASSUME IInv, NEW s \in Steps, NEW st \in {"completed", "failed"},
           Executing(s), Outcome(s, st), UNCHANGED <<pc, plan, scan, hits, budget, stale, stray>>
    PROVE  IInv'
  <1>1. status[s] = "running" /\ ~parked[s] /\ pc[s] = "idle"
    BY DEF Executing
  <1>2. OutcomeOf(s, st)
    BY <1>1, OutcomeIs
  <1>3. /\ pc' \in [Steps -> {"idle", "insert", "interrupt"}] /\ budget' \in 0..MaxBudget
        /\ pc'[s] = "idle" /\ \A t \in Steps : t # s => pc'[t] = pc[t]
    BY <1>1 DEF IInv, TypeOK
  <1>4. QED
    BY <1>1, <1>2, <1>3, OutcomeKeepsAll

\* A child that could not be inserted fails the parked caller, unless somebody
\* stopped it meanwhile.
LEMMA CreateFailsKeeps ==
    ASSUME IInv, NEW s \in Steps, CreateFails(s)
    PROVE  IInv'
  <1>1. /\ pc[s] = "insert" /\ pc' = [pc EXCEPT ![s] = "idle"]
        /\ budget' = budget \/ (budget > 0 /\ budget' = budget - 1)
        /\ UNCHANGED <<plan, scan, hits, stale, stray>>
    BY DEF CreateFails, history
  <1>2. /\ pc' \in [Steps -> {"idle", "insert", "interrupt"}]
        /\ pc'[s] = "idle" /\ \A t \in Steps : t # s => pc'[t] = pc[t]
        /\ budget' \in 0..MaxBudget
    BY <1>1, SubgraphAssumption DEF IInv, TypeOK
  <1>3. status[s] \in {"running", "terminated", "gone"}
    BY <1>1 DEF IInv, DispatchShape
  <1>4. CASE status[s] = "running"
    <2>1. Outcome(s, "failed")
      BY <1>4 DEF CreateFails
    <2>2. OutcomeOf(s, "failed")
      BY <1>4, <2>1, OutcomeIs
    <2>3. QED
      BY <1>1, <1>2, <1>4, <2>2, OutcomeKeepsAll
  <1>5. CASE status[s] # "running"
    <2>1. UNCHANGED <<flow, caller, doomed, owner, status, parked, done, asked, revive>>
      BY <1>3, <1>5 DEF CreateFails, flowVars, stepVars
    <2>2. TypeOK'
      BY <1>1, <1>2, <2>1 DEF IInv, TypeOK
    <2>3. QED
      BY <1>1, <1>2, <2>1, <2>2, QuietKeeps
  <1>6. QED
    BY <1>4, <1>5

-----------------------------------------------------------------------------
(* The steps that add or delete flows *)

\* What a retry deletes has ended, with everything below it: a live flow has
\* only live and terminated flows above it.
LEMMA DiscardedHasEnded ==
    ASSUME IInv, NEW s \in Steps, Childless(s)
    PROVE  /\ \A f \in Discarded(s) : f \in Flows /\ flow[f] \in {"completed", "failed"}
           /\ \A g \in Flows : caller[g] # 0 /\ owner[caller[g]] \in Discarded(s) =>
                 flow[g] = "gone" \/ g \in Discarded(s)
  <1>1. TypeOK /\ TreeShape
    BY DEF IInv
  <1>2. ASSUME NEW f \in Children(s)
        PROVE  f \in Flows /\ flow[f] \in {"completed", "failed"}
    BY <1>1 DEF Children, Childless, Live, TypeOK
  <1>3. ASSUME NEW f \in Children(s), NEW g \in Below(f)
        PROVE  g \in Flows /\ flow[g] \in {"completed", "failed"}
    <2>1. g \in Flows /\ f \in Above[g] /\ flow[g] # "gone"
      BY DEF Below
    <2>2. ~Live(g) /\ flow[g] # "terminated"
      BY <1>2, <2>1, ChainIsUp DEF Live
    <2>3. flow[g] # "none"
      BY <1>1, <2>1, AboveUnfolds, AboveStep, ParentIsOlder
    <2>4. QED
      BY <1>1, <2>1, <2>2, <2>3 DEF TypeOK, Live
  <1>4. ASSUME NEW g \in Flows, caller[g] # 0, owner[caller[g]] \in Discarded(s), flow[g] # "gone"
        PROVE  g \in Discarded(s)
    <2>1. PICK f \in Children(s) : owner[caller[g]] \in {f} \cup Below(f)
      BY <1>4 DEF Discarded
    <2>2. Parent(g) = owner[caller[g]] /\ Parent(g) # 0
      BY <1>1, <1>4, ParentIsOlder
    <2>3. Above[g] = {Parent(g)} \cup Above[Parent(g)]
      BY <1>1, <2>2, AboveUnfolds, AboveStep
    <2>4. f \in Above[g]
      BY <2>1, <2>2, <2>3 DEF Below
    <2>5. QED
      BY <1>4, <2>4 DEF Below, Discarded
  <1>5. QED
    BY <1>2, <1>3, <1>4 DEF Discarded

\* flow.Retry rewinds a step whose children have ended, and deletes these.
LEMMA RetryKeeps ==
    ASSUME IInv, NEW s \in Steps, Retry(s)
    PROVE  IInv'
  <1> DEFINE fs == Discarded(s)
  <1>1. /\ status[s] = "running" /\ ~parked[s] /\ pc[s] = "idle"
        /\ flow' = [f \in Flows |-> IF f \in fs THEN "gone" ELSE flow[f]]
        /\ status' = [t \in Steps |-> IF t \in DeletedSteps(fs) THEN "gone"
                                      ELSE IF t = s THEN "pending" ELSE status[t]]
        /\ parked' = [t \in Steps |-> parked[t] /\ t \notin DeletedSteps(fs)]
        /\ done' = [done EXCEPT ![s] = FALSE] /\ asked' = [asked EXCEPT ![s] = FALSE]
        /\ budget > 0 /\ budget' = budget - 1
        /\ UNCHANGED <<caller, doomed, owner, pc, revive, plan, scan, hits, stale, stray>>
    BY DEF Retry, Executing, Delete, history
  <1>2. TypeOK /\ TreeShape /\ \A t \in Steps : t # 0
    BY DEF IInv, Steps
  <1>3. Childless(s)
    BY <1>1 DEF IInv, DispatchShape
  <1>4. /\ \A f \in fs : f \in Flows /\ flow[f] \in {"completed", "failed"}
        /\ \A g \in Flows : caller[g] # 0 /\ owner[caller[g]] \in fs => flow[g] = "gone" \/ g \in fs
    BY <1>3, DiscardedHasEnded
  <1> HIDE DEF fs
  <1>5. ASSUME NEW t \in Steps, owner[t] \in fs
        PROVE  t # s /\ status[t] \in {"completed", "failed"}
    <2>1. owner[t] # 0
      BY <1>4, <1>5 DEF Flows
    <2>2. QED
      BY <1>1, <1>4, <1>5, <2>1 DEF IInv, StoppedSteps
  <1>6. /\ \A f \in Flows : \/ f \in fs /\ flow[f] \in {"completed", "failed"} /\ flow'[f] = "gone"
                            \/ f \notin fs /\ flow'[f] = flow[f]
        /\ status'[s] = "pending" /\ owner[s] \notin fs /\ ~parked'[s] /\ ~done'[s]
        /\ \A t \in Steps : t # s /\ owner[t] \in fs =>
              status[t] \in {"completed", "failed"} /\ status'[t] = "gone" /\ ~parked'[t] /\ (done'[t] <=> done[t])
        /\ \A t \in Steps : t # s /\ owner[t] \notin fs =>
              status'[t] = status[t] /\ (parked'[t] <=> parked[t]) /\ (done'[t] <=> done[t])
    BY <1>1, <1>2, <1>4, <1>5 DEF DeletedSteps, TypeOK
  <1>7. TypeOK'
    BY <1>1, <1>2, SubgraphAssumption DEF TypeOK
  <1>8. TreeShape'
    <2>1. \A f \in Flows : flow'[f] = "none" <=> flow[f] = "none"
      BY <1>6
    <2>2. \A t \in Steps : status'[t] = "none" <=> status[t] = "none"
      BY <1>1, <1>6
    <2>3. \A t \in Steps : status[t] = "none" => pc'[t] = "idle" /\ ~done'[t] /\ ~parked'[t]
      BY <1>1, <1>2, <1>6 DEF TreeShape
    <2>4. QED
      BY <1>1, <1>2, <2>1, <2>2, <2>3, TreeIsKept
  <1>9. \A t \in Steps : owner[t] # 0 => owner[t] \in Flows
    BY <1>2 DEF TypeOK
  <1>10. \A g \in Flows : caller[g] # 0 => caller[g] \in Steps /\ owner[caller[g]] \in Flows
    BY <1>2, ParentIsOlder
  <1>11. GoneWhole'
    BY <1>1, <1>4, <1>6, <1>9, <1>10 DEF IInv, GoneWhole
  <1>12. StoppedSteps'
    BY <1>1, <1>6, <1>9 DEF IInv, StoppedSteps, Live
  <1>13. TerminatedFromAbove'
    BY <1>1, <1>6, <1>10 DEF IInv, TerminatedFromAbove
  <1>14. ASSUME NEW t \in Steps
         PROVE  /\ Childless(t) => Childless(t)'
                /\ NoLiveChild(t) => NoLiveChild(t)'
    BY <1>1, <1>6 DEF Childless, NoLiveChild, Live
  <1>15. LiveChild'
    BY <1>1, <1>3, <1>6, <1>10 DEF IInv, LiveChild, Childless, Live
  <1>16. DispatchShape'
    BY <1>1, <1>6, <1>14 DEF IInv, DispatchShape
  <1>17. ReviveShape'
    <2>1. \A f \in revive : f \in Flows
      BY <1>2 DEF TypeOK
    <2>2. QED
      BY <1>1, <1>6, <1>10, <2>1 DEF IInv, ReviveShape, Childless, Live
  <1>18. PlanShape'
    <2>1. \A t \in Steps :
             NoLiveChild(t) /\ pc[t] = "idle" /\ status[t] \in {"interrupted", "terminated", "gone"} =>
             NoLiveChild(t)' /\ pc'[t] = "idle" /\ status'[t] \in {"interrupted", "terminated", "gone"}
      BY <1>1, <1>6, <1>14
    <2>2. QED
      BY <1>1, <1>7, <1>8, <2>1, PlanIsKept
  <1>19. ScanShape'
    <2>1. \A g \in scan : g \in Flows /\ flow[g] # "none"
      BY <1>2 DEF IInv, ScanShape, TypeOK
    <2>2. \A g \in scan : g # Root => owner[caller[g]] \in Flows
      BY <1>2, <2>1, ParentIsOlder
    <2>3. QED
      BY <1>1, <1>6, <2>1, <2>2 DEF IInv, ScanShape
  <1>20. PausedShape'
    <2>1. \A t \in Steps : status[t] = "interrupted" => status'[t] = "interrupted"
      BY <1>1, <1>6
    <2>2. \A f \in Flows : flow'[f] = "interrupted" => flow[f] = "interrupted"
      BY <1>6
    <2>3. QED
      BY <1>1, <2>1, <2>2 DEF IInv, PausedShape, Branches
  <1>21. QED
    BY <1>7, <1>8, <1>11, <1>12, <1>13, <1>15, <1>16, <1>17, <1>18, <1>19, <1>20 DEF IInv
\* A deletion of the whole tree leaves nothing to keep.
LEMMA ReapTreeKeeps ==
    ASSUME IInv, ReapTree
    PROVE  IInv'
  <1>1. /\ flow' = [f \in Flows |-> IF f \in {g \in Flows : flow[g] # "none"} THEN "gone" ELSE flow[f]]
        /\ status' = [s \in Steps |-> IF status[s] = "none" THEN "none" ELSE "gone"]
        /\ parked' = [s \in Steps |-> FALSE]
        /\ UNCHANGED <<caller, doomed, owner, done, asked, pc, revive, plan, scan, hits, budget, stale, stray>>
    BY DEF ReapTree, Delete, history
  <1>2. TypeOK /\ TreeShape /\ \A t \in Steps : t # 0
    BY DEF IInv, Steps
  <1>3. /\ \A f \in Flows : IF flow[f] = "none" THEN flow'[f] = "none" ELSE flow'[f] = "gone"
        /\ \A t \in Steps : IF status[t] = "none" THEN status'[t] = "none" ELSE status'[t] = "gone"
        /\ \A t \in Steps : ~parked'[t]
    BY <1>1
  <1>4. TypeOK'
    BY <1>1, <1>2 DEF TypeOK
  <1>5. TreeShape'
    BY <1>1, <1>2, <1>3, TreeIsKept DEF TreeShape
  <1>6. \A t \in Steps : owner[t] # 0 => owner[t] \in Flows /\ flow[owner[t]] # "none" /\ status[t] # "none"
    BY <1>2 DEF TypeOK, TreeShape
  <1>7. \A g \in Flows : caller[g] # 0 => caller[g] \in Steps /\ owner[caller[g]] \in Flows /\ flow[g] # "none"
    BY <1>2, ParentIsOlder
  <1>8. GoneWhole' /\ StoppedSteps' /\ TerminatedFromAbove' /\ LiveChild' /\ PausedShape'
    <2>1. GoneWhole'
      BY <1>1, <1>3, <1>6, <1>7 DEF GoneWhole
    <2>2. StoppedSteps'
      BY <1>1, <1>3, <1>6 DEF StoppedSteps
    <2>3. TerminatedFromAbove' /\ LiveChild' /\ PausedShape'
      BY <1>1, <1>3 DEF TerminatedFromAbove, LiveChild, PausedShape, Live
    <2>4. QED
      BY <2>1, <2>2, <2>3
  <1>9. \A t \in Steps : Childless(t)' /\ NoLiveChild(t)'
    BY <1>3 DEF Childless, NoLiveChild, Live
  <1>10. DispatchShape'
    BY <1>1, <1>2, <1>3, <1>9 DEF IInv, DispatchShape, TreeShape
  <1>11. ReviveShape'
    <2>1. \A f \in revive : f \in Flows
      BY <1>2 DEF TypeOK
    <2>2. QED
      BY <1>1, <1>3, <1>7, <2>1 DEF IInv, ReviveShape, Childless, Live
  <1>12. PlanShape'
    <2>1. \A t \in Steps :
             NoLiveChild(t) /\ pc[t] = "idle" /\ status[t] \in {"interrupted", "terminated", "gone"} =>
             NoLiveChild(t)' /\ pc'[t] = "idle" /\ status'[t] \in {"interrupted", "terminated", "gone"}
      BY <1>1, <1>3, <1>9
    <2>2. QED
      BY <1>1, <1>4, <1>5, <2>1, PlanIsKept
  <1>13. ScanShape'
    <2>1. \A g \in scan : g \in Flows /\ flow[g] # "none"
      BY <1>2 DEF IInv, ScanShape, TypeOK
    <2>2. \A g \in scan : g # Root => owner[caller[g]] \in Flows
      BY <1>2, <2>1, ParentIsOlder
    <2>3. QED
      BY <1>1, <1>3, <2>1, <2>2 DEF IInv, ScanShape
  <1>14. QED
    BY <1>4, <1>5, <1>8, <1>10, <1>11, <1>12, <1>13 DEF IInv

\* A Delete of an interrupted root terminates the root and nothing below it.
LEMMA DeleteFlowKeeps ==
    ASSUME IInv, DeleteFlow
    PROVE  IInv'
  <1>1. /\ flow' = [flow EXCEPT ![Root] = IF flow[Root] = "interrupted" THEN "terminated" ELSE flow[Root]]
        /\ doomed' = TRUE
        /\ UNCHANGED <<caller, owner, status, parked, done, asked, pc, revive, plan, scan, hits, budget, stale, stray>>
    BY DEF DeleteFlow, stepVars, history
  <1>2. TypeOK /\ TreeShape /\ Root \in Flows /\ caller[Root] = 0 /\ \A t \in Steps : t # 0
    BY SubgraphAssumption DEF IInv, Steps, TreeShape, Root, Flows
  <1>3. /\ \A f \in Flows : f # Root => flow'[f] = flow[f]
        /\ flow'[Root] = flow[Root] \/ (flow[Root] = "interrupted" /\ flow'[Root] = "terminated")
    BY <1>1, <1>2 DEF TypeOK
  <1>4. TypeOK'
    BY <1>1, <1>2, <1>3 DEF TypeOK
  <1>5. TreeShape'
    <2>1. \A f \in Flows : flow'[f] = "none" <=> flow[f] = "none"
      BY <1>3
    <2>2. QED
      BY <1>1, <1>2, <2>1, TreeIsKept DEF TreeShape
  <1>6. \A t \in Steps : owner[t] # 0 => owner[t] \in Flows
    BY <1>2 DEF TypeOK
  <1>7. \A g \in Flows : caller[g] # 0 => caller[g] \in Steps /\ owner[caller[g]] \in Flows /\ g # Root
    BY <1>2, ParentIsOlder
  <1>8. GoneWhole'
    BY <1>1, <1>3, <1>6, <1>7 DEF IInv, GoneWhole
  <1>9. StoppedSteps'
    BY <1>1, <1>3, <1>6 DEF IInv, StoppedSteps, Live
  <1>10. TerminatedFromAbove'
    BY <1>1, <1>3, <1>7 DEF IInv, TerminatedFromAbove
  <1>11. LiveChild'
    BY <1>1, <1>3, <1>7 DEF IInv, LiveChild, Live
  <1>12. ASSUME NEW t \in Steps
         PROVE  /\ Childless(t) => Childless(t)'
                /\ NoLiveChild(t) => NoLiveChild(t)'
    BY <1>1, <1>2, <1>3 DEF Childless, NoLiveChild, Live
  <1>13. DispatchShape'
    BY <1>1, <1>12 DEF IInv, DispatchShape
  <1>14. ReviveShape'
    <2>1. \A f \in revive : f \in Flows
      BY <1>2 DEF TypeOK
    <2>2. QED
      BY <1>1, <1>3, <1>7, <2>1 DEF IInv, ReviveShape, Childless, Live
  <1>15. PlanShape'
    <2>1. \A t \in Steps :
             NoLiveChild(t) /\ pc[t] = "idle" /\ status[t] \in {"interrupted", "terminated", "gone"} =>
             NoLiveChild(t)' /\ pc'[t] = "idle" /\ status'[t] \in {"interrupted", "terminated", "gone"}
      BY <1>1, <1>12
    <2>2. QED
      BY <1>1, <1>4, <1>5, <2>1, PlanIsKept
  <1>16. ScanShape'
    <2>1. \A g \in scan : g \in Flows /\ flow[g] # "none"
      BY <1>2 DEF IInv, ScanShape, TypeOK
    <2>2. \A g \in scan : g # Root => owner[caller[g]] \in Flows
      BY <1>2, <2>1, ParentIsOlder
    <2>3. QED
      BY <1>1, <1>3, <2>1, <2>2 DEF IInv, ScanShape
  <1>17. PausedShape'
    <2>1. \A f \in Flows : flow'[f] = "interrupted" => flow[f] = "interrupted"
      BY <1>3
    <2>2. QED
      BY <1>1, <2>1 DEF IInv, PausedShape, Branches
  <1>18. QED
    BY <1>4, <1>5, <1>8, <1>9, <1>10, <1>11, <1>13, <1>14, <1>15, <1>16, <1>17 DEF IInv

\* The insert hangs a new flow under a caller that waits for one, or that was
\* terminated before the insert came.
LEMMA CreateSubgraphFlowKeeps ==
    ASSUME IInv, NEW s \in Steps, CreateSubgraphFlow(s)
    PROVE  IInv'
  <1>1. PICK f \in Flows, new \in SUBSET Unused :
           /\ NextFlow(f)
           /\ Cardinality(new) \in 1..MaxWidth /\ Cardinality(new) <= budget + 1
           /\ flow' = [flow EXCEPT ![f] = "running"]
           /\ caller' = [caller EXCEPT ![f] = s]
           /\ owner' = [t \in Steps |-> IF t \in new THEN f ELSE owner[t]]
           /\ status' = [t \in Steps |-> IF t \in new THEN "pending" ELSE status[t]]
           /\ budget' = budget + 1 - Cardinality(new)
    BY DEF CreateSubgraphFlow
  <1>2. /\ pc[s] = "insert" /\ flow[owner[s]] # "gone" /\ pc' = [pc EXCEPT ![s] = "idle"]
        /\ UNCHANGED <<doomed, parked, done, asked, revive, plan, scan, hits, stale, stray>>
    BY DEF CreateSubgraphFlow, history
  <1>3. TypeOK /\ TreeShape /\ \A t \in Steps : t # 0
    BY DEF IInv, Steps
  <1>4. /\ ~done[s] /\ Childless(s)
        /\ (status[s] = "running" /\ parked[s]) \/ status[s] \in {"terminated", "gone"}
    BY <1>2 DEF IInv, DispatchShape
  <1>5. owner[s] # 0 /\ owner[s] \in Flows /\ status[s] # "gone" /\ flow[owner[s]] # "none"
    BY <1>2, <1>3, <1>4 DEF IInv, TypeOK, TreeShape, GoneWhole
  <1>6. flow[f] = "none" /\ caller[f] = 0 /\ f # Root /\ \A g \in Flows : g < f <=> flow[g] # "none"
    BY <1>1, <1>3 DEF NextFlow, TreeShape, Flows
  <1>7. \A t \in new : t \in Steps /\ status[t] = "none" /\ owner[t] = 0 /\ t # s
                       /\ pc[t] = "idle" /\ ~done[t] /\ ~parked[t]
    BY <1>1, <1>3, <1>5 DEF Unused, TreeShape
  <1>8. /\ flow'[f] = "running" /\ caller'[f] = s
        /\ \A g \in Flows : g # f => flow'[g] = flow[g] /\ caller'[g] = caller[g]
        /\ \A t \in new : owner'[t] = f /\ status'[t] = "pending"
        /\ \A t \in Steps : t \notin new => owner'[t] = owner[t] /\ status'[t] = status[t]
        /\ pc'[s] = "idle" /\ \A t \in Steps : t # s => pc'[t] = pc[t]
    BY <1>1, <1>2, <1>3, <1>7 DEF TypeOK
  <1>9. TypeOK'
    <2>1. flow' \in [Flows -> {"none", "gone"} \cup LiveFlow \cup TerminalFlow]
          /\ caller' \in [Flows -> {0} \cup Steps]
      BY <1>1, <1>3 DEF TypeOK
    <2>2. owner' \in [Steps -> {0} \cup Flows]
      BY <1>1, <1>3 DEF TypeOK
    <2>3. status' \in [Steps -> {"none", "gone"} \cup LiveStep \cup TerminalStep]
      BY <1>1, <1>3 DEF TypeOK
    <2>4. pc' \in [Steps -> {"idle", "insert", "interrupt"}]
      BY <1>2, <1>3 DEF TypeOK
    <2>5. budget' \in 0..MaxBudget
      <3>1. budget \in 0..MaxBudget /\ MaxBudget \in Nat /\ MaxWidth \in Nat
        BY <1>3, SubgraphAssumption DEF TypeOK
      <3>2. QED
        BY <1>1, <3>1
    <2>6. QED
      BY <1>2, <1>3, <2>1, <2>2, <2>3, <2>4, <2>5 DEF TypeOK
  <1>10. \A g \in Flows : caller[g] # 0 =>
            caller[g] \in Steps /\ caller[g] \notin new /\ owner[caller[g]] \in Flows
            /\ owner[caller[g]] # f /\ flow[g] # "none" /\ g # f
    BY <1>3, <1>6, <1>7, ParentIsOlder DEF TreeShape
  <1>11. TreeShape'
    <2>1. caller'[Root] = 0 /\ flow'[Root] # "none"
      BY <1>3, <1>6, <1>8, SubgraphAssumption DEF TreeShape, Root, Flows
    <2>2. \A g \in Flows : flow'[g] = "none" => caller'[g] = 0 /\ \A h \in Flows : g < h => flow'[h] = "none"
      BY <1>3, <1>6, <1>8 DEF TreeShape
    <2>3. \A g \in Flows : g # Root /\ flow'[g] # "none" =>
             caller'[g] # 0 /\ owner'[caller'[g]] # 0 /\ owner'[caller'[g]] < g
      BY <1>3, <1>5, <1>6, <1>7, <1>8, <1>10 DEF TreeShape
    <2>4. \A t \in Steps : owner'[t] = 0 <=> status'[t] = "none"
      <3>1. f # 0
        BY DEF Flows
      <3>2. QED
        BY <1>3, <1>8, <3>1 DEF TreeShape
    <2>5. \A t \in Steps : owner'[t] # 0 => flow'[owner'[t]] # "none"
      BY <1>3, <1>6, <1>8 DEF TreeShape, TypeOK
    <2>6. \A t \in Steps : status'[t] = "none" => pc'[t] = "idle" /\ ~done'[t] /\ ~parked'[t]
      BY <1>2, <1>3, <1>8 DEF TreeShape
    <2>7. QED
      BY <2>1, <2>2, <2>3, <2>4, <2>5, <2>6 DEF TreeShape
  <1>12. \A t \in Steps : t \notin new /\ owner[t] # 0 =>
            owner[t] \in Flows /\ owner[t] # f /\ owner'[t] = owner[t] /\ status'[t] = status[t]
    BY <1>3, <1>6, <1>8 DEF TypeOK, TreeShape
  <1>13. \A g \in Flows : caller[g] # 0 => caller'[g] = caller[g] /\ owner'[caller[g]] = owner[caller[g]]
                                           /\ status'[caller[g]] = status[caller[g]]
                                           /\ flow'[owner[caller[g]]] = flow[owner[caller[g]]]
    BY <1>8, <1>10
  <1>14. \A g \in Flows : g # f /\ caller'[g] # 0 => caller[g] # 0
    BY <1>8
  <1>15. owner'[s] = owner[s] /\ status'[s] = status[s] /\ flow'[owner[s]] = flow[owner[s]]
    BY <1>5, <1>6, <1>7, <1>8
  <1>16. GoneWhole'
    <2>1. \A t \in Steps : owner'[t] # 0 => (status'[t] = "gone" <=> flow'[owner'[t]] = "gone")
      BY <1>3, <1>8, <1>12 DEF IInv, GoneWhole
    <2>2. \A g \in Flows : caller'[g] # 0 /\ flow'[owner'[caller'[g]]] = "gone" => flow'[g] = "gone"
      BY <1>2, <1>8, <1>13, <1>14, <1>15 DEF IInv, GoneWhole
    <2>3. QED
      BY <2>1, <2>2 DEF GoneWhole
  <1>17. StoppedSteps'
    <2>1. \A t \in Steps : owner'[t] # 0 =>
             /\ flow'[owner'[t]] \in {"completed", "failed"} => status'[t] \in {"completed", "failed"}
             /\ flow'[owner'[t]] = "terminated" /\ owner'[t] # Root => status'[t] \notin LiveStep
             /\ status'[t] = "terminated" => flow'[owner'[t]] \notin LiveFlow
      BY <1>3, <1>8, <1>12 DEF IInv, StoppedSteps, Live
    <2>2. QED
      BY <2>1 DEF StoppedSteps, Live
  <1>18. TerminatedFromAbove'
    BY <1>8, <1>13, <1>14 DEF IInv, TerminatedFromAbove
  <1>19. LiveChild'
    <2> SUFFICES ASSUME NEW g \in Flows, flow'[g] \in LiveFlow, caller'[g] # 0
                 PROVE  /\ ~done[caller'[g]] /\ pc'[caller'[g]] = "idle"
                        /\ \/ status'[caller'[g]] = "running" /\ parked[caller'[g]]
                           \/ status'[caller'[g]] = "interrupted" /\ flow'[g] = "interrupted"
                           \/ status'[caller'[g]] = "terminated"
                        /\ \A h \in Flows : h # g /\ caller'[h] = caller'[g] =>
                              flow'[h] \notin LiveFlow /\ flow'[h] # "terminated"
      BY <1>2 DEF LiveChild, Live
    <2>1. CASE g = f
      BY <1>4, <1>5, <1>8, <1>15, <2>1 DEF Childless, Live
    <2>2. CASE g # f
      <3>1. caller[g] # 0 /\ caller'[g] = caller[g] /\ flow'[g] = flow[g] /\ status'[caller[g]] = status[caller[g]]
        BY <1>8, <1>13, <1>14, <2>2
      <3>2. caller[g] # s
        BY <1>4, <3>1 DEF Childless, Live
      <3>3. caller[g] \in Steps
        BY <1>10, <3>1
      <3>4. QED
        BY <1>8, <3>1, <3>2, <3>3 DEF IInv, LiveChild, Live
    <2>3. QED
      BY <2>1, <2>2
  <1>20. ASSUME NEW t \in Steps, t # s
         PROVE  /\ Childless(t) => Childless(t)'
                /\ NoLiveChild(t) => NoLiveChild(t)'
    BY <1>8, <1>20 DEF Childless, NoLiveChild, Live
  <1>21. DispatchShape'
    <2> SUFFICES ASSUME NEW t \in Steps
                 PROVE  /\ status'[t] = "running" /\ ~parked'[t] => Childless(t)'
                        /\ pc'[t] = "insert" =>
                              /\ ~done'[t] /\ Childless(t)'
                              /\ (status'[t] = "running" /\ parked'[t]) \/ status'[t] \in {"terminated", "gone"}
                        /\ pc'[t] = "interrupt" =>
                              ~parked'[t] /\ status'[t] \in {"running", "pending", "terminated", "gone"}
      BY DEF DispatchShape
    <2>1. CASE t = s
      BY <1>2, <1>4, <1>8, <1>15, <2>1
    <2>2. CASE t \in new
      BY <1>7, <1>8, <2>2
    <2>3. CASE t # s /\ t \notin new
      BY <1>2, <1>8, <1>20, <2>3 DEF IInv, DispatchShape
    <2>4. QED
      BY <2>1, <2>2, <2>3
  <1>22. ReviveShape'
    <2>1. \A g \in revive : g \in Flows
      BY <1>3 DEF TypeOK
    <2>2. \A g \in revive : flow[g] # "none" /\ caller[g] # 0 /\ caller[g] # s
      BY <1>2 DEF IInv, ReviveShape
    <2>3. \A g \in revive : caller'[g] = caller[g] /\ flow'[g] = flow[g] /\ caller[g] \in Steps
                            /\ status'[caller[g]] = status[caller[g]]
      BY <1>6, <1>8, <1>10, <1>13, <2>1, <2>2
    <2>4. \A g \in revive : \A h \in Flows : caller'[h] = caller[g] => flow'[h] \notin LiveFlow /\ flow'[h] # "terminated"
      BY <1>8, <2>2 DEF IInv, ReviveShape, Childless, Live
    <2>5. QED
      BY <1>2, <1>8, <2>2, <2>3, <2>4 DEF IInv, ReviveShape, Childless, Live
  <1>23. PlanShape'
    <2>1. \A t \in Steps :
             NoLiveChild(t) /\ pc[t] = "idle" /\ status[t] \in {"interrupted", "terminated", "gone"} =>
             NoLiveChild(t)' /\ pc'[t] = "idle" /\ status'[t] \in {"interrupted", "terminated", "gone"}
      BY <1>2, <1>7, <1>8, <1>20
    <2>2. \A g \in Flows : flow[g] # "none" => caller'[g] = caller[g]
      BY <1>6, <1>8
    <2>3. \A t \in Steps : owner[t] # 0 => owner'[t] = owner[t]
      BY <1>7, <1>8
    <2>4. QED
      BY <1>2, <1>9, <1>11, <2>1, <2>2, <2>3, PlanIsKept
  <1>24. ScanShape'
    <2>1. \A g \in scan : g \in Flows /\ flow[g] # "none" /\ g # f
      BY <1>3, <1>6 DEF IInv, ScanShape, TypeOK
    <2>2. \A g \in scan : g # Root => caller[g] # 0
      BY <1>3, <2>1, ParentIsOlder
    <2>3. QED
      BY <1>2, <1>8, <1>13, <2>1, <2>2 DEF IInv, ScanShape
  <1>25. PausedShape'
    <2>1. \A t \in Steps : status[t] = "interrupted" => status'[t] = "interrupted" /\ owner'[t] = owner[t]
      BY <1>7, <1>8
    <2>2. \A g \in Flows : flow'[g] = "interrupted" => flow[g] = "interrupted"
      BY <1>8
    <2>3. QED
      BY <2>1, <2>2 DEF IInv, PausedShape, Branches
  <1>26. QED
    BY <1>9, <1>11, <1>16, <1>17, <1>18, <1>19, <1>21, <1>22, <1>23, <1>24, <1>25 DEF IInv
-----------------------------------------------------------------------------
(* The steps that move a chain or a subtree *)

\* The caller above a leaf that its chain names has, in the chain, a child that
\* is live or terminated.
LEMMA CallerHasChild ==
    ASSUME IInv, NEW s \in Steps, owner[s] \in Flows,
           Live(owner[s]) \/ flow[owner[s]] = "terminated", NEW t \in CallersAbove(s)
    PROVE  /\ t \in Steps /\ t # 0
           /\ \E g \in Chain(s) : g \in Flows /\ caller[g] = t /\ (Live(g) \/ flow[g] = "terminated")
  <1>1. PICK g \in Chain(s) : t = caller[g] /\ t # 0
    BY DEF CallersAbove
  <1>3. g \in Flows /\ (Live(g) \/ flow[g] = "terminated")
    BY ChainIsUp DEF Chain
  <1>4. t \in Steps
    BY <1>1, <1>3 DEF IInv, TypeOK
  <1>5. QED
    BY <1>1, <1>3, <1>4

\* A live flow of the chain of a leaf has the leaf, or the caller of the next
\* flow down, and that caller waits.
LEMMA ChainHasRow ==
    ASSUME IInv, NEW s \in Steps, owner[s] \in Flows, Live(owner[s]), NEW f \in Chain(s), Live(f)
    PROVE  \/ f = owner[s]
           \/ \E t \in CallersAbove(s) : t \in Steps /\ owner[t] = f /\ status[t] \in {"running", "interrupted"}
  <1>1. TypeOK /\ TreeShape
    BY DEF IInv
  <1> SUFFICES ASSUME f # owner[s]
               PROVE  \E t \in CallersAbove(s) : t \in Steps /\ owner[t] = f /\ status[t] \in {"running", "interrupted"}
    OBVIOUS
  <1>2. f \in Above[owner[s]] /\ f \in Flows
    BY <1>1, AboveIsOlder DEF Chain
  <1>3. PICK h \in {owner[s]} \cup Above[owner[s]] : h \in Flows /\ Parent(h) = f
    BY <1>1, <1>2, AboveHasChild
  <1>4. f # 0
    BY <1>2 DEF Flows
  <1>5. caller[h] # 0 /\ caller[h] \in Steps /\ owner[caller[h]] = f
    BY <1>1, <1>3, <1>4, ParentIsOlder
  <1>6. caller[h] \in CallersAbove(s)
    BY <1>3, <1>5 DEF CallersAbove, Chain
  <1>7. Live(h) \/ flow[h] = "terminated"
    BY <1>1, <1>3, ChainIsUp
  <1>8. Live(h)
    BY <1>3, <1>5, <1>7 DEF IInv, TerminatedFromAbove, Live
  <1>9. status[caller[h]] \in {"running", "interrupted", "terminated"}
    BY <1>3, <1>5, <1>8 DEF IInv, LiveChild
  <1>10. status[caller[h]] # "terminated"
    BY <1>4, <1>5 DEF IInv, StoppedSteps
  <1>11. QED
    BY <1>5, <1>6, <1>9, <1>10

\* An interrupt turns the leaf and the callers above it, each with its flow:
\* a caller above a live child is turned with the child.
LEMMA HandleInterruptKeeps ==
    ASSUME IInv, NEW s \in Steps, HandleInterrupt(s)
    PROVE  IInv'
  <1> DEFINE rows == {t \in {s} \cup CallersAbove(s) : status[t] \in {"running", "interrupted"}}
  <1>1. /\ pc[s] = "interrupt" /\ pc' = [pc EXCEPT ![s] = "idle"]
        /\ UNCHANGED <<caller, doomed, owner, done, revive, plan, scan, hits, budget, stale, stray>>
    BY DEF HandleInterrupt, history
  <1>2. TypeOK /\ TreeShape /\ \A t \in Steps : t # 0
    BY DEF IInv, Steps
  <1>3. ~parked[s] /\ status[s] \in {"running", "pending", "terminated", "gone"}
    BY <1>1 DEF IInv, DispatchShape
  <1>4. pc' \in [Steps -> {"idle", "insert", "interrupt"}] /\ pc'[s] = "idle"
        /\ \A t \in Steps : t # s => pc'[t] = pc[t]
    BY <1>1, <1>2 DEF TypeOK
  <1>5. CASE ~InterruptFence(s)
    <2>1. UNCHANGED <<flow, status, parked, asked>>
      BY <1>5 DEF HandleInterrupt
    <2>2. TypeOK'
      BY <1>1, <1>2, <1>4, <2>1 DEF TypeOK
    <2>3. QED
      BY <1>1, <1>4, <2>1, <2>2, QuietKeeps
  <1>6. CASE InterruptFence(s)
    <2>1. /\ status' = [t \in Steps |-> IF t \in rows THEN "interrupted" ELSE status[t]]
          /\ parked' = [t \in Steps |-> parked[t] /\ t \notin rows]
          /\ asked' = [asked EXCEPT ![s] = TRUE]
          /\ flow' = [f \in Flows |-> IF f \in Chain(s) /\ Live(f) THEN "interrupted" ELSE flow[f]]
      BY <1>6 DEF HandleInterrupt
    <2>2. status[s] = "running" /\ Childless(s)
      BY <1>3, <1>6 DEF InterruptFence, IInv, DispatchShape
    <2>3. owner[s] \in Flows /\ (Live(owner[s]) \/ (owner[s] = Root /\ flow[Root] = "terminated"))
      BY <1>2, <2>2, ParentIsUp DEF TypeOK, TreeShape
    <2>4. ASSUME NEW t \in rows, t # s
          PROVE  /\ t \in Steps /\ status[t] \in {"running", "interrupted"} /\ pc[t] = "idle"
                 /\ status[t] = "running" => parked[t]
                 /\ \E g \in Chain(s) : g \in Flows /\ caller[g] = t /\ (Live(g) \/ flow[g] = "terminated")
      <3>1. t \in CallersAbove(s) /\ status[t] \in {"running", "interrupted"}
        BY <2>4
      <3>2. /\ t \in Steps
            /\ \E g \in Chain(s) : g \in Flows /\ caller[g] = t /\ (Live(g) \/ flow[g] = "terminated")
        BY <2>3, <3>1, CallerHasChild
      <3>3. ~Childless(t)
        BY <3>2 DEF Childless
      <3>4. pc[t] = "idle" /\ (status[t] = "running" => parked[t])
        BY <1>2, <3>1, <3>2, <3>3 DEF IInv, DispatchShape, TypeOK
      <3>5. QED
        BY <3>1, <3>2, <3>4
    <2>5. s \in rows
      BY <2>2
    <2>6. \A g \in Flows : caller[g] \in rows /\ Live(g) => g \in Chain(s)
      <3> SUFFICES ASSUME NEW g \in Flows, caller[g] \in rows, Live(g) PROVE g \in Chain(s)
        OBVIOUS
      <3>1. caller[g] # s
        BY <2>2 DEF Childless
      <3>2. PICK h \in Chain(s) : h \in Flows /\ caller[h] = caller[g] /\ (Live(h) \/ flow[h] = "terminated")
        BY <2>4, <3>1
      <3>3. caller[g] # 0
        BY <1>2, <2>4, <3>1
      <3>4. h = g
        BY <3>2, <3>3 DEF IInv, LiveChild
      <3>5. QED
        BY <3>2, <3>4
    <2>7. \A f \in Chain(s) : f \in Flows /\ Live(f) => \E t \in rows : t \in Steps /\ owner[t] = f
      <3> SUFFICES ASSUME NEW f \in Chain(s), f \in Flows, Live(f)
                   PROVE  \E t \in rows : t \in Steps /\ owner[t] = f
        OBVIOUS
      <3>1. CASE f = owner[s]
        BY <2>5, <3>1
      <3>2. CASE f # owner[s]
        <4>1. Live(owner[s])
          <5>1. owner[s] = Root => Above[owner[s]] = {}
            BY <1>2, <2>3, AboveUnfolds, AboveStep, ParentIsOlder
          <5>2. QED
            BY <2>3, <3>2, <5>1 DEF Chain
        <4>2. QED
          BY <2>3, <3>2, <4>1, ChainHasRow
      <3>3. QED
        BY <3>1, <3>2
    <2> HIDE DEF rows
    <2>8. /\ \A t \in Steps : t \in rows =>
                status[t] \in {"running", "interrupted"} /\ status'[t] = "interrupted" /\ ~parked'[t]
          /\ \A t \in Steps : t \notin rows => status'[t] = status[t] /\ (parked'[t] <=> parked[t])
          /\ \A f \in Flows : \/ f \in Chain(s) /\ Live(f) /\ flow'[f] = "interrupted"
                              \/ ~(f \in Chain(s) /\ Live(f)) /\ flow'[f] = flow[f]
      BY <2>1, <2>2, <2>4
    <2>9. \A f \in Flows : /\ flow'[f] \in LiveFlow <=> flow[f] \in LiveFlow
                           /\ flow[f] \notin LiveFlow => flow'[f] = flow[f]
                           /\ flow[f] = "interrupted" => flow'[f] = "interrupted"
      BY <2>8 DEF Live
    <2>10. TypeOK'
      BY <1>1, <1>2, <1>4, <2>1 DEF TypeOK
    <2>11. TreeShape'
      <3>1. \A f \in Flows : flow'[f] = "none" <=> flow[f] = "none"
        BY <2>9
      <3>2. \A t \in Steps : status'[t] = "none" <=> status[t] = "none"
        BY <2>8
      <3>3. \A t \in Steps : status[t] = "none" => pc'[t] = "idle" /\ ~done'[t] /\ ~parked'[t]
        BY <1>1, <1>2, <1>4, <2>8 DEF TreeShape
      <3>4. QED
        BY <1>1, <1>2, <3>1, <3>2, <3>3, TreeIsKept
    <2>12. \A t \in Steps : owner[t] # 0 => owner[t] \in Flows
      BY <1>2 DEF TypeOK
    <2>13. \A g \in Flows : caller[g] # 0 => caller[g] \in Steps /\ owner[caller[g]] \in Flows
      BY <1>2, ParentIsOlder
    <2>14. GoneWhole'
      <3>1. \A t \in Steps : status'[t] = "gone" <=> status[t] = "gone"
        BY <2>8
      <3>2. \A f \in Flows : flow'[f] = "gone" <=> flow[f] = "gone"
        BY <2>9
      <3>3. QED
        BY <1>1, <2>12, <2>13, <3>1, <3>2 DEF IInv, GoneWhole
    <2>15. StoppedSteps'
      BY <1>1, <2>8, <2>9, <2>12 DEF IInv, StoppedSteps, Live
    <2>16. TerminatedFromAbove'
      BY <1>1, <2>9, <2>13 DEF IInv, TerminatedFromAbove
    <2>17. LiveChild'
      <3> SUFFICES ASSUME NEW g \in Flows, flow'[g] \in LiveFlow, caller[g] # 0
                   PROVE  /\ ~done[caller[g]] /\ pc'[caller[g]] = "idle"
                          /\ \/ status'[caller[g]] = "running" /\ parked'[caller[g]]
                             \/ status'[caller[g]] = "interrupted" /\ flow'[g] = "interrupted"
                             \/ status'[caller[g]] = "terminated"
                          /\ \A h \in Flows : h # g /\ caller[h] = caller[g] =>
                                flow'[h] \notin LiveFlow /\ flow'[h] # "terminated"
        BY <1>1 DEF LiveChild, Live
      <3>1. Live(g) /\ caller[g] \in Steps
        BY <2>9, <2>13 DEF Live
      <3>2. /\ ~done[caller[g]] /\ pc[caller[g]] = "idle"
            /\ \/ status[caller[g]] = "running" /\ parked[caller[g]]
               \/ status[caller[g]] = "interrupted" /\ flow[g] = "interrupted"
               \/ status[caller[g]] = "terminated"
            /\ \A h \in Flows : h # g /\ caller[h] = caller[g] => ~Live(h) /\ flow[h] # "terminated"
        BY <3>1 DEF IInv, LiveChild
      <3>3. pc'[caller[g]] = "idle"
        BY <1>4, <3>1, <3>2
      <3>4. \A h \in Flows : h # g /\ caller[h] = caller[g] => flow'[h] \notin LiveFlow /\ flow'[h] # "terminated"
        BY <2>9, <3>2 DEF Live
      <3>5. CASE caller[g] \in rows
        <4>1. flow'[g] = "interrupted" /\ status'[caller[g]] = "interrupted"
          BY <2>6, <2>8, <3>1, <3>5
        <4>2. QED
          BY <3>2, <3>3, <3>4, <4>1
      <3>6. CASE caller[g] \notin rows
        BY <2>8, <2>9, <3>1, <3>2, <3>3, <3>4, <3>6
      <3>7. QED
        BY <3>5, <3>6
    <2>18. ASSUME NEW t \in Steps
           PROVE  /\ Childless(t) => Childless(t)'
                  /\ NoLiveChild(t) => NoLiveChild(t)'
      BY <1>1, <2>9 DEF Childless, NoLiveChild, Live
    <2>19. DispatchShape'
      <3> SUFFICES ASSUME NEW t \in Steps
                   PROVE  /\ status'[t] = "running" /\ ~parked'[t] => Childless(t)'
                          /\ pc'[t] = "insert" =>
                                /\ ~done'[t] /\ Childless(t)'
                                /\ (status'[t] = "running" /\ parked'[t]) \/ status'[t] \in {"terminated", "gone"}
                          /\ pc'[t] = "interrupt" =>
                                ~parked'[t] /\ status'[t] \in {"running", "pending", "terminated", "gone"}
        BY DEF DispatchShape
      <3>1. CASE t \in rows
        <4>1. pc'[t] = "idle"
          BY <1>4, <2>4, <3>1
        <4>2. QED
          BY <2>8, <3>1, <4>1
      <3>2. CASE t \notin rows
        BY <1>1, <1>4, <2>5, <2>8, <2>18, <3>2 DEF IInv, DispatchShape
      <3>3. QED
        BY <3>1, <3>2
    <2>20. ReviveShape'
      <3> SUFFICES ASSUME NEW g \in revive
                   PROVE  /\ flow'[g] # "none" /\ caller[g] # 0 /\ pc'[caller[g]] = "idle"
                          /\ \A h \in Flows : caller[h] = caller[g] => flow'[h] \notin LiveFlow /\ flow'[h] # "terminated"
                          /\ \/ status'[caller[g]] = "running" /\ parked'[caller[g]]
                             \/ status'[caller[g]] \in {"terminated", "gone"}
                          /\ \A h \in revive : caller[h] = caller[g] => h = g
        BY <1>1 DEF ReviveShape, Childless, Live
      <3>1. /\ flow[g] # "none" /\ caller[g] # 0 /\ Childless(caller[g]) /\ pc[caller[g]] = "idle"
            /\ \/ status[caller[g]] = "running" /\ parked[caller[g]]
               \/ status[caller[g]] \in {"terminated", "gone"}
            /\ \A h \in revive : caller[h] = caller[g] => h = g
            /\ g \in Flows /\ caller[g] \in Steps
        BY <1>2 DEF IInv, ReviveShape, TypeOK
      <3>2. caller[g] \notin rows
        BY <1>3, <2>2, <2>4, <3>1 DEF Childless
      <3>3. \A h \in Flows : caller[h] = caller[g] => flow'[h] \notin LiveFlow /\ flow'[h] # "terminated"
        BY <2>9, <3>1 DEF Childless, Live
      <3>4. QED
        BY <1>4, <2>8, <2>9, <3>1, <3>2, <3>3
    <2>21. PlanShape'
      <3>1. \A t \in Steps :
               NoLiveChild(t) /\ pc[t] = "idle" /\ status[t] \in {"interrupted", "terminated", "gone"} =>
               NoLiveChild(t)' /\ pc'[t] = "idle" /\ status'[t] \in {"interrupted", "terminated", "gone"}
        BY <1>4, <2>8, <2>18
      <3>2. QED
        BY <1>1, <2>10, <2>11, <3>1, PlanIsKept
    <2>22. ScanShape'
      <3>1. \A g \in scan : g \in Flows /\ flow[g] # "none"
        BY <1>2 DEF IInv, ScanShape, TypeOK
      <3>2. \A g \in scan : g # Root => owner[caller[g]] \in Flows
        BY <1>2, <3>1, ParentIsOlder
      <3>3. QED
        BY <1>1, <2>9, <3>1, <3>2 DEF IInv, ScanShape
    <2>23. PausedShape'
      <3> SUFFICES ASSUME NEW f \in Flows, flow'[f] = "interrupted"
                   PROVE  \E t \in Steps : owner[t] = f /\ status'[t] = "interrupted"
        BY <1>1 DEF PausedShape, Branches
      <3>1. CASE f \in Chain(s) /\ Live(f)
        BY <2>7, <2>8, <3>1
      <3>2. CASE ~(f \in Chain(s) /\ Live(f))
        <4>1. flow[f] = "interrupted"
          BY <2>8, <3>2
        <4>2. PICK t \in Steps : owner[t] = f /\ status[t] = "interrupted"
          BY <4>1 DEF IInv, PausedShape, Branches
        <4>3. status'[t] = "interrupted"
          BY <2>8, <4>2
        <4>4. QED
          BY <4>2, <4>3
      <3>3. QED
        BY <3>1, <3>2
    <2>24. QED
      BY <2>10, <2>11, <2>14, <2>15, <2>16, <2>17, <2>19, <2>20, <2>21, <2>22, <2>23 DEF IInv
  <1>7. QED
    BY <1>5, <1>6
\* The leaf of a chain is not one of the callers above it.
LEMMA LeafIsNoCaller ==
    ASSUME TypeOK, TreeShape, NEW s \in Steps, owner[s] # 0
    PROVE  \A t \in CallersAbove(s) : t \in Steps /\ t # s /\ owner[t] \in Chain(s)
  <1>1. owner[s] \in Flows /\ flow[owner[s]] # "none"
    BY DEF TypeOK, TreeShape
  <1> SUFFICES ASSUME NEW g \in Chain(s), caller[g] # 0
               PROVE  caller[g] \in Steps /\ caller[g] # s /\ owner[caller[g]] \in Chain(s)
    BY DEF CallersAbove
  <1>2. g \in Flows /\ (g = owner[s] \/ g < owner[s])
    BY <1>1, AboveIsOlder DEF Chain
  <1>3. caller[g] \in Steps /\ Parent(g) = owner[caller[g]] /\ Parent(g) # 0 /\ Parent(g) \in Flows /\ Parent(g) < g
    BY <1>2, ParentIsOlder
  <1>4. caller[g] # s
    BY <1>1, <1>2, <1>3 DEF Flows
  <1>5. CASE g = owner[s]
    BY <1>1, <1>2, <1>3, <1>4, <1>5, AboveUnfolds, AboveStep DEF Chain
  <1>6. CASE g \in Above[owner[s]]
    BY <1>1, <1>3, <1>4, <1>6, AboveIsClosed DEF Chain
  <1>7. QED
    BY <1>5, <1>6 DEF Chain

\* A Resume parks the callers of the chain again and lets the leaf go on; it
\* may find that the leaf has stopped, and then parks callers that a sweep will
\* find wedged.
LEMMA ResumeKeeps ==
    ASSUME IInv, Resume
    PROVE  IInv'
  <1> DEFINE leaf == plan.leaf
             parks == plan.parks
             st == [s \in Steps |-> IF status[s] # "interrupted" THEN status[s]
                                    ELSE IF s \in parks THEN "running"
                                    ELSE IF s = leaf THEN "pending" ELSE status[s]]
             Left(f) == {s \in Branches(f) : st[s] = "interrupted"}
  <1>1. /\ plan # NoPlan /\ plan' = NoPlan
        /\ UNCHANGED <<caller, doomed, owner, done, asked, pc, revive, scan, hits, budget, stale, stray>>
    BY DEF Resume, history
  <1>2. TypeOK /\ TreeShape /\ \A t \in Steps : t # 0
    BY DEF IInv, Steps
  <1>3. /\ leaf \in Steps /\ parks = CallersAbove(leaf)
        /\ NoLiveChild(leaf) /\ pc[leaf] = "idle"
        /\ status[leaf] \in {"interrupted", "terminated", "gone"}
    BY <1>1 DEF IInv, PlanShape
  <1>4. PlanShape'
    BY <1>1 DEF PlanShape
  <1>5. NoPlan \in [leaf : {0} \cup Steps, parks : SUBSET Steps]
    BY DEF NoPlan
  <1>6. CASE ~ResumeGate
    <2>1. UNCHANGED <<flow, status, parked>>
      BY <1>6 DEF Resume
    <2>2. TypeOK'
      BY <1>1, <1>2, <1>5, <2>1 DEF TypeOK
    <2>3. QED
      BY <1>1, <1>4, <2>1, <2>2, QuietKeeps
  <1>7. CASE ResumeGate
    <2>1. /\ status' = st
          /\ parked' = [s \in Steps |-> parked[s] \/ (s \in parks /\ status[s] = "interrupted")]
          /\ flow' = [f \in Flows |->
                IF f \in Chain(leaf) /\ flow[f] = "interrupted" /\ Left(f) = {} THEN "running" ELSE flow[f]]
      BY <1>7 DEF Resume
    <2>2. owner[leaf] # 0
      BY <1>2, <1>3 DEF TreeShape
    <2>3. \A t \in parks : t \in Steps /\ t # leaf /\ owner[t] \in Chain(leaf)
      BY <1>2, <1>3, <2>2, LeafIsNoCaller
    <2>4. \A g \in Flows : g \in Chain(leaf) /\ caller[g] # 0 => caller[g] \in parks
      BY <1>3 DEF CallersAbove
    <2>5. /\ \A t \in Steps :
                \/ status'[t] = status[t] /\ (parked'[t] <=> parked[t]) /\ t \notin parks
                \/ status[t] = "interrupted" /\ t \in parks /\ status'[t] = "running" /\ parked'[t]
                \/ status[t] = "interrupted" /\ t = leaf /\ status'[t] = "pending" /\ (parked'[t] <=> parked[t])
                \/ status[t] # "interrupted" /\ t \in parks /\ status'[t] = status[t] /\ (parked'[t] <=> parked[t])
          /\ \A f \in Flows :
                \/ flow'[f] = flow[f]
                \/ flow[f] = "interrupted" /\ flow'[f] = "running" /\ f \in Chain(leaf)
      <3> HIDE DEF leaf, parks, Left
      <3>1. QED
        BY <2>1
    <2>6. ASSUME NEW f \in Flows, flow'[f] = "interrupted", f \in Chain(leaf)
          PROVE  \E t \in Steps : owner[t] = f /\ status'[t] = "interrupted"
      <3>1. Left(f) # {}
        <4> HIDE DEF Left, leaf
        <4>1. QED
          BY <2>1, <2>6
      <3>2. PICK t \in Branches(f) : st[t] = "interrupted"
        BY <3>1
      <3>3. QED
        BY <2>1, <3>2 DEF Branches
    <2>7. Live(owner[leaf]) \/ status[leaf] # "interrupted"
      BY <1>3, <1>7, ParentIsUp DEF ResumeGate
    <2>8. flow[Root] = "interrupted" /\ owner[leaf] \in Chain(leaf)
      BY <1>7 DEF ResumeGate, Chain
    <2>9. TypeOK'
      <3>1. status' \in [Steps -> {"none", "gone"} \cup LiveStep \cup TerminalStep]
        BY <1>2, <2>1 DEF TypeOK
      <3>2. parked' \in [Steps -> BOOLEAN]
        BY <1>2, <2>1 DEF TypeOK
      <3>3. flow' \in [Flows -> {"none", "gone"} \cup LiveFlow \cup TerminalFlow]
        <4> HIDE DEF Left, leaf
        <4>1. QED
          BY <1>2, <2>1 DEF TypeOK
      <3>4. QED
        BY <1>1, <1>2, <1>5, <3>1, <3>2, <3>3 DEF TypeOK
    <2> HIDE DEF leaf, parks, st, Left
    <2>10. \A f \in Flows : /\ flow'[f] \in LiveFlow <=> flow[f] \in LiveFlow
                            /\ flow[f] \notin LiveFlow => flow'[f] = flow[f]
      BY <2>5
    <2>11. TreeShape'
      <3>1. \A f \in Flows : flow'[f] = "none" <=> flow[f] = "none"
        BY <2>10
      <3>2. \A t \in Steps : status'[t] = "none" <=> status[t] = "none"
        BY <2>5
      <3>3. \A t \in Steps : status[t] = "none" => pc'[t] = "idle" /\ ~done'[t] /\ ~parked'[t]
        BY <1>1, <1>2, <2>5 DEF TreeShape
      <3>4. QED
        BY <1>1, <1>2, <3>1, <3>2, <3>3, TreeIsKept
    <2>12. \A t \in Steps : owner[t] # 0 => owner[t] \in Flows
      BY <1>2 DEF TypeOK
    <2>13. \A g \in Flows : caller[g] # 0 => caller[g] \in Steps /\ owner[caller[g]] \in Flows
      BY <1>2, ParentIsOlder
    <2>14. GoneWhole'
      <3>1. \A t \in Steps : status'[t] = "gone" <=> status[t] = "gone"
        BY <2>5
      <3>2. \A f \in Flows : flow'[f] = "gone" <=> flow[f] = "gone"
        BY <2>10
      <3>3. QED
        BY <1>1, <2>12, <2>13, <3>1, <3>2 DEF IInv, GoneWhole
    <2>15. StoppedSteps'
      BY <1>1, <2>5, <2>10, <2>12 DEF IInv, StoppedSteps, Live
    <2>16. TerminatedFromAbove'
      BY <1>1, <2>10, <2>13 DEF IInv, TerminatedFromAbove
    <2>17. LiveChild'
      <3> SUFFICES ASSUME NEW g \in Flows, flow'[g] \in LiveFlow, caller[g] # 0
                   PROVE  /\ ~done[caller[g]] /\ pc[caller[g]] = "idle"
                          /\ \/ status'[caller[g]] = "running" /\ parked'[caller[g]]
                             \/ status'[caller[g]] = "interrupted" /\ flow'[g] = "interrupted"
                             \/ status'[caller[g]] = "terminated"
                          /\ \A h \in Flows : h # g /\ caller[h] = caller[g] =>
                                flow'[h] \notin LiveFlow /\ flow'[h] # "terminated"
        BY <1>1 DEF LiveChild, Live
      <3>1. Live(g) /\ caller[g] \in Steps
        BY <2>10, <2>13 DEF Live
      <3>2. /\ ~done[caller[g]] /\ pc[caller[g]] = "idle"
            /\ \/ status[caller[g]] = "running" /\ parked[caller[g]]
               \/ status[caller[g]] = "interrupted" /\ flow[g] = "interrupted"
               \/ status[caller[g]] = "terminated"
            /\ \A h \in Flows : h # g /\ caller[h] = caller[g] => ~Live(h) /\ flow[h] # "terminated"
        BY <3>1 DEF IInv, LiveChild
      <3>3. \A h \in Flows : h # g /\ caller[h] = caller[g] => flow'[h] \notin LiveFlow /\ flow'[h] # "terminated"
        BY <2>10, <3>2 DEF Live
      <3>4. caller[g] # leaf
        BY <1>3, <3>1 DEF NoLiveChild
      <3>5. CASE caller[g] \in parks
        BY <2>5, <3>1, <3>2, <3>3, <3>4, <3>5
      <3>6. CASE caller[g] \notin parks
        <4>1. flow'[g] = flow[g]
          BY <2>4, <2>5, <3>6
        <4>2. QED
          BY <2>5, <3>1, <3>2, <3>3, <3>4, <3>6, <4>1
      <3>7. QED
        BY <3>5, <3>6
    <2>18. ASSUME NEW t \in Steps
           PROVE  /\ Childless(t) => Childless(t)'
                  /\ NoLiveChild(t) => NoLiveChild(t)'
      BY <1>1, <2>10 DEF Childless, NoLiveChild, Live
    <2>19. DispatchShape'
      BY <1>1, <2>5, <2>18 DEF IInv, DispatchShape
    <2>20. ReviveShape'
      <3>1. \A f \in revive : f \in Flows
        BY <1>2 DEF TypeOK
      <3>2. \A f \in revive : \A h \in Flows : caller[h] = caller[f] => flow'[h] \notin LiveFlow /\ flow'[h] # "terminated"
        BY <2>10 DEF IInv, ReviveShape, Childless, Live
      <3>3. \A f \in revive : flow'[f] # "none" /\ caller[f] \in Steps
        BY <2>10, <2>13, <3>1 DEF IInv, ReviveShape
      <3>4. QED
        BY <1>1, <2>5, <3>2, <3>3 DEF IInv, ReviveShape, Childless, Live
    <2>21. ScanShape'
      <3>1. \A g \in scan : g \in Flows /\ flow[g] # "none"
        BY <1>2 DEF IInv, ScanShape, TypeOK
      <3>2. \A g \in scan : g # Root => owner[caller[g]] \in Flows
        BY <1>2, <3>1, ParentIsOlder
      <3>3. QED
        BY <1>1, <2>10, <3>1, <3>2 DEF IInv, ScanShape
    <2>22. PausedShape'
      <3> SUFFICES ASSUME NEW f \in Flows, flow'[f] = "interrupted"
                   PROVE  \E t \in Steps : owner[t] = f /\ status'[t] = "interrupted"
        BY <1>1 DEF PausedShape, Branches
      <3>1. CASE f \notin Chain(leaf)
        <4>1. flow[f] = "interrupted"
          BY <2>5
        <4>2. PICK t \in Steps : owner[t] = f /\ status[t] = "interrupted"
          BY <4>1 DEF IInv, PausedShape, Branches
        <4>3. t \notin parks /\ t # leaf
          BY <2>3, <2>8, <3>1, <4>2
        <4>4. status'[t] = "interrupted"
          BY <2>5, <4>2, <4>3
        <4>5. QED
          BY <4>2, <4>4
      <3>2. QED
        BY <2>6, <3>1
    <2>23. QED
      BY <1>4, <2>9, <2>11, <2>14, <2>15, <2>16, <2>17, <2>19, <2>20, <2>21, <2>22 DEF IInv
  <1>8. QED
    BY <1>6, <1>7

\* A termination takes the live rows of what was read: the parent of each flow
\* it takes was read as well, or has stopped.
LEMMA TerminateSubtreeKeeps ==
    ASSUME IInv, TerminateSubtree
    PROVE  IInv'
  <1> DEFINE hit == {s \in Steps : owner[s] \in scan /\ status[s] \in LiveStep}
  <1>1. /\ scan' = {}
        /\ UNCHANGED <<caller, doomed, owner, done, asked, pc, revive, plan, hits, budget, stale, stray>>
    BY DEF TerminateSubtree, history
  <1>2. TypeOK /\ TreeShape /\ \A t \in Steps : t # 0
    BY DEF IInv, Steps
  <1>3. ScanShape'
    BY <1>1 DEF ScanShape
  <1>4. CASE UNCHANGED <<flow, status, parked>>
    <2>1. TypeOK'
      BY <1>1, <1>2, <1>4 DEF TypeOK
    <2>2. QED
      BY <1>1, <1>3, <1>4, <2>1, QuietKeeps
  <1>5. CASE /\ status' = [s \in Steps |-> IF s \in hit THEN "terminated" ELSE status[s]]
             /\ parked' = [s \in Steps |-> parked[s] /\ s \notin hit]
             /\ flow' = [f \in Flows |-> IF f \in scan /\ Live(f) THEN "terminated" ELSE flow[f]]
    <2>1. TypeOK'
      BY <1>1, <1>2, <1>5 DEF TypeOK
    <2>2. /\ \A t \in Steps :
                \/ owner[t] \in scan /\ status[t] \in LiveStep /\ status'[t] = "terminated" /\ ~parked'[t]
                \/ ~(owner[t] \in scan /\ status[t] \in LiveStep) /\ status'[t] = status[t] /\ (parked'[t] <=> parked[t])
          /\ \A f \in Flows :
                \/ f \in scan /\ Live(f) /\ flow'[f] = "terminated"
                \/ ~(f \in scan /\ Live(f)) /\ flow'[f] = flow[f]
      BY <1>5
    <2> HIDE DEF hit
    <2>3. TreeShape'
      <3>1. \A f \in Flows : flow'[f] = "none" <=> flow[f] = "none"
        BY <2>2 DEF Live
      <3>2. \A t \in Steps : status'[t] = "none" <=> status[t] = "none"
        BY <2>2
      <3>3. \A t \in Steps : status[t] = "none" => pc'[t] = "idle" /\ ~done'[t] /\ ~parked'[t]
        BY <1>1, <1>2, <2>2 DEF TreeShape
      <3>4. QED
        BY <1>1, <1>2, <3>1, <3>2, <3>3, TreeIsKept
    <2>4. \A t \in Steps : owner[t] # 0 => owner[t] \in Flows
      BY <1>2 DEF TypeOK
    <2>5. \A g \in Flows : caller[g] # 0 => caller[g] \in Steps /\ owner[caller[g]] \in Flows /\ g # Root
      BY <1>2, ParentIsOlder
    <2>6. GoneWhole'
      <3>1. \A t \in Steps : status'[t] = "gone" <=> status[t] = "gone"
        BY <2>2
      <3>2. \A f \in Flows : flow'[f] = "gone" <=> flow[f] = "gone"
        BY <2>2 DEF Live
      <3>3. QED
        BY <1>1, <2>4, <2>5, <3>1, <3>2 DEF IInv, GoneWhole
    <2>7. StoppedSteps'
      BY <1>1, <2>2, <2>4 DEF IInv, StoppedSteps, Live
    <2>8. TerminatedFromAbove'
      <3> SUFFICES ASSUME NEW f \in Flows, flow'[f] = "terminated", caller[f] # 0
                   PROVE  flow'[owner[caller[f]]] = "terminated"
        BY <1>1 DEF TerminatedFromAbove
      <3>1. owner[caller[f]] \in Flows /\ f # Root
        BY <2>5
      <3>2. CASE f \in scan /\ Live(f)
        <4>1. owner[caller[f]] \in scan \/ flow[owner[caller[f]]] \in {"terminated", "gone"}
          BY <3>1, <3>2 DEF IInv, ScanShape
        <4>2. Live(owner[caller[f]]) \/ flow[owner[caller[f]]] = "terminated"
          BY <3>2, ParentIsUp
        <4>3. QED
          BY <2>2, <3>1, <4>1, <4>2 DEF Live
      <3>3. CASE flow[f] = "terminated"
        BY <2>2, <3>1, <3>3 DEF IInv, TerminatedFromAbove, Live
      <3>4. QED
        BY <2>2, <3>2, <3>3
    <2>9. LiveChild'
      <3> SUFFICES ASSUME NEW g \in Flows, flow'[g] \in LiveFlow, caller[g] # 0
                   PROVE  /\ ~done[caller[g]] /\ pc[caller[g]] = "idle"
                          /\ \/ status'[caller[g]] = "running" /\ parked'[caller[g]]
                             \/ status'[caller[g]] = "interrupted" /\ flow'[g] = "interrupted"
                             \/ status'[caller[g]] = "terminated"
                          /\ \A h \in Flows : h # g /\ caller[h] = caller[g] =>
                                flow'[h] \notin LiveFlow /\ flow'[h] # "terminated"
        BY <1>1 DEF LiveChild, Live
      <3>1. Live(g) /\ flow'[g] = flow[g] /\ caller[g] \in Steps
        BY <2>2, <2>5 DEF Live
      <3>2. /\ ~done[caller[g]] /\ pc[caller[g]] = "idle"
            /\ \/ status[caller[g]] = "running" /\ parked[caller[g]]
               \/ status[caller[g]] = "interrupted" /\ flow[g] = "interrupted"
               \/ status[caller[g]] = "terminated"
            /\ \A h \in Flows : h # g /\ caller[h] = caller[g] => ~Live(h) /\ flow[h] # "terminated"
        BY <3>1 DEF IInv, LiveChild
      <3>3. \A h \in Flows : h # g /\ caller[h] = caller[g] => flow'[h] \notin LiveFlow /\ flow'[h] # "terminated"
        BY <2>2, <3>2 DEF Live
      <3>4. QED
        BY <2>2, <3>1, <3>2, <3>3
    <2>10. \A f \in Flows : ~Live(f) /\ flow[f] # "terminated" => flow'[f] \notin LiveFlow /\ flow'[f] # "terminated"
      BY <2>2 DEF Live
    <2>11. \A f \in Flows : ~Live(f) => flow'[f] \notin LiveFlow
      BY <2>2 DEF Live
    <2>12. ASSUME NEW t \in Steps
           PROVE  /\ Childless(t) => Childless(t)'
                  /\ NoLiveChild(t) => NoLiveChild(t)'
      BY <1>1, <2>10, <2>11 DEF Childless, NoLiveChild, Live
    <2>13. DispatchShape'
      BY <1>1, <2>2, <2>12 DEF IInv, DispatchShape
    <2>14. ReviveShape'
      <3>1. \A f \in revive : f \in Flows
        BY <1>2 DEF TypeOK
      <3>2. \A f \in revive : \A h \in Flows : caller[h] = caller[f] => flow'[h] \notin LiveFlow /\ flow'[h] # "terminated"
        BY <2>10 DEF IInv, ReviveShape, Childless
      <3>3. \A f \in revive : flow'[f] # "none" /\ caller[f] \in Steps
        BY <2>2, <2>5, <3>1 DEF IInv, ReviveShape
      <3>4. QED
        BY <1>1, <2>2, <3>2, <3>3 DEF IInv, ReviveShape, Childless, Live
    <2>15. PlanShape'
      <3>1. \A t \in Steps :
               NoLiveChild(t) /\ pc[t] = "idle" /\ status[t] \in {"interrupted", "terminated", "gone"} =>
               NoLiveChild(t)' /\ pc'[t] = "idle" /\ status'[t] \in {"interrupted", "terminated", "gone"}
        BY <1>1, <2>2, <2>12
      <3>2. QED
        BY <1>1, <2>1, <2>3, <3>1, PlanIsKept
    <2>16. PausedShape'
      <3> SUFFICES ASSUME NEW f \in Flows, flow'[f] = "interrupted"
                   PROVE  \E t \in Steps : owner[t] = f /\ status'[t] = "interrupted"
        BY <1>1 DEF PausedShape, Branches
      <3>1. flow[f] = "interrupted" /\ f \notin scan
        BY <2>2 DEF Live
      <3>2. PICK t \in Steps : owner[t] = f /\ status[t] = "interrupted"
        BY <3>1 DEF IInv, PausedShape, Branches
      <3>3. QED
        BY <2>2, <3>1, <3>2
    <2>17. QED
      BY <1>3, <2>1, <2>3, <2>6, <2>7, <2>8, <2>9, <2>13, <2>14, <2>15, <2>16 DEF IInv
  <1>6. QED
    BY <1>4, <1>5 DEF TerminateSubtree
-----------------------------------------------------------------------------
(* The inductive invariant *)

\* At first there is the root with its pending steps.
LEMMA InitShapes == Init => IInv
  <1> SUFFICES ASSUME Init PROVE IInv
    OBVIOUS
  <1>1. /\ MaxFlows \in Nat /\ MaxFlows # 0 /\ MaxSteps \in Nat /\ MaxWidth \in 1..MaxSteps
        /\ MaxBudget \in Nat /\ Root \in Flows /\ \A t \in Steps : t # 0
    BY SubgraphAssumption DEF Root, Flows, Steps
  <1>2. PICK n \in 1..MaxWidth :
           /\ n <= MaxBudget + 1 /\ budget = MaxBudget + 1 - n
           /\ owner = [s \in Steps |-> IF s <= n THEN Root ELSE 0]
           /\ status = [s \in Steps |-> IF s <= n THEN "pending" ELSE "none"]
    BY DEF Init
  <1>3. /\ \A s \in Steps : (owner[s] = Root /\ status[s] = "pending") \/ (owner[s] = 0 /\ status[s] = "none")
        /\ Root # 0
    BY <1>2 DEF Root
  <1>4. /\ flow = [f \in Flows |-> IF f = Root THEN "running" ELSE "none"]
        /\ caller = [f \in Flows |-> 0] /\ parked = [s \in Steps |-> FALSE]
        /\ done = [s \in Steps |-> FALSE] /\ asked = [s \in Steps |-> FALSE]
        /\ pc = [s \in Steps |-> "idle"] /\ revive = {} /\ scan = {} /\ doomed = FALSE
        /\ plan = NoPlan /\ hits = [p \in Sweepers |-> 0]
        /\ stale = {}
    BY DEF Init
  <1>5. TypeOK
    <2>1. owner \in [Steps -> {0} \cup Flows]
      BY <1>1, <1>2
    <2>2. status \in [Steps -> {"none", "gone"} \cup LiveStep \cup TerminalStep]
      BY <1>2
    <2>3. plan \in [leaf : {0} \cup Steps, parks : SUBSET Steps]
      BY <1>4 DEF NoPlan
    <2>4. budget \in 0..MaxBudget /\ doomed \in BOOLEAN /\ stray \in BOOLEAN
      <3>1. budget \in 0..MaxBudget
        BY <1>1, <1>2
      <3>2. doomed \in BOOLEAN /\ stray \in BOOLEAN
        BY Zenon DEF Init
      <3>3. QED
        BY <3>1, <3>2
    <2>5. /\ flow \in [Flows -> {"none", "gone"} \cup LiveFlow \cup TerminalFlow]
          /\ caller \in [Flows -> {0} \cup Steps] /\ hits \in [Sweepers -> {0} \cup Steps]
      BY <1>4
    <2>6. /\ parked \in [Steps -> BOOLEAN] /\ done \in [Steps -> BOOLEAN] /\ asked \in [Steps -> BOOLEAN]
          /\ pc \in [Steps -> {"idle", "insert", "interrupt"}] /\ revive \subseteq Flows /\ scan \subseteq Flows
          /\ stale \subseteq Sweepers
      BY <1>4
    <2>7. QED
      BY <2>1, <2>2, <2>3, <2>4, <2>5, <2>6 DEF TypeOK
  <1>6. TreeShape
    BY <1>1, <1>3, <1>4 DEF TreeShape, Root, Flows
  <1>7. GoneWhole /\ StoppedSteps /\ TerminatedFromAbove /\ LiveChild /\ DispatchShape
    BY <1>1, <1>3, <1>4 DEF GoneWhole, StoppedSteps, TerminatedFromAbove, LiveChild, DispatchShape, Live
  <1>8. ReviveShape /\ PlanShape /\ ScanShape /\ PausedShape
    BY <1>4 DEF ReviveShape, PlanShape, ScanShape, PausedShape
  <1>9. QED
    BY <1>5, <1>6, <1>7, <1>8 DEF IInv

\* Every step keeps the invariant until a sweep strays.
LEMMA NextShapes == IInv /\ Selections /\ [Next]_vars => stray' \/ IInv'
  <1> SUFFICES ASSUME IInv, Selections, [Next]_vars PROVE stray' \/ IInv'
    OBVIOUS
  <1>1. CASE UNCHANGED vars
    <2>1. UNCHANGED <<flow, caller, doomed, owner, status, parked, done, asked, pc, revive, plan, scan, hits, budget, stale, stray>>
      BY <1>1 DEF vars, flowVars, stepVars, history
    <2>2. TypeOK'
      BY <2>1 DEF IInv, TypeOK
    <2>3. QED
      BY <2>1, <2>2, QuietKeeps
  <1>2. ASSUME NEW s \in Steps, Dispatch(s) PROVE IInv'
    <2>1. CASE Complete(s)
      BY <2>1, CompleteKeeps DEF Complete, history
    <2>2. CASE FailStep(s)
      BY <2>2, CompleteKeeps DEF FailStep, history
    <2>3. QED
      BY <1>2, <2>1, <2>2, ClaimKeeps, RetryKeeps, ParkCallerKeeps, CreateSubgraphFlowKeeps,
         CreateFailsKeeps, InterruptKeeps, HandleInterruptKeeps DEF Dispatch
  <1>3. CASE Sweep
    BY <1>3, SelectWedgedKeeps, RecoverWedgedKeeps, ScanOrphanKeeps, TerminateSubtreeKeeps DEF Sweep
  <1>4. CASE Misfortune
    BY <1>4, DieParkedKeeps, LeaseExpiresKeeps, LoseReviveKeeps DEF Misfortune
  <1>5. CASE Operator
    BY <1>5, ReadChainKeeps, ResumeKeeps, ScanTerminateKeeps, DeleteFlowKeeps, ReapTreeKeeps DEF Operator
  <1>6. CASE Next
    BY <1>2, <1>3, <1>4, <1>5, <1>6, CompleteSurgraphFlowKeeps DEF Next
  <1>7. QED
    BY <1>1, <1>6

\* What strayed has strayed.
LEMMA StrayStays == stray /\ [Next]_vars => stray'
  <1> SUFFICES ASSUME stray, [Next]_vars PROVE stray'
    OBVIOUS
  <1>1. CASE UNCHANGED stray
    BY <1>1
  <1>2. ASSUME NEW p \in Sweepers, RecoverWedged(p) PROVE stray'
    BY <1>2 DEF RecoverWedged
  <1>3. ASSUME NEW s \in Steps, Dispatch(s) PROVE UNCHANGED stray
    BY <1>3 DEF Dispatch, Claim, Complete, FailStep, Retry, ParkCaller, CreateSubgraphFlow,
                CreateFails, Interrupt, HandleInterrupt, history
  <1>4. ASSUME NEW f \in Flows, CompleteSurgraphFlow(f) PROVE UNCHANGED stray
    BY <1>4 DEF CompleteSurgraphFlow, history
  <1>5. CASE Misfortune
    BY <1>1, <1>5 DEF Misfortune, DieParked, LeaseExpires, LoseRevive, history
  <1>6. CASE Operator
    BY <1>1, <1>6 DEF Operator, ReadChain, Resume, ScanTerminate, DeleteFlow, ReapTree, history
  <1>7. CASE Sweep
    BY <1>1, <1>2, <1>7 DEF Sweep, SelectWedged, ScanOrphan, TerminateSubtree, history
  <1>8. CASE UNCHANGED vars
    BY <1>1, <1>8 DEF vars, history
  <1>9. QED
    BY <1>1, <1>3, <1>4, <1>5, <1>6, <1>7, <1>8 DEF Next

\* The state of a tree of any size, swept by any number of replicas, until one of
\* them strays: how its tables, the dispatches and releases under way and what
\* Resume and Terminate have read fit together.
THEOREM InductiveInvariant == Spec => [](stray \/ IInv)
  <1>1. Init => Rows /\ Selections /\ (stray \/ IInv)
    BY InitRows, InitSelections, InitShapes
  <1>2. Rows /\ Selections /\ (stray \/ IInv) /\ [Next]_vars
           => (Rows /\ Selections /\ (stray \/ IInv))'
    BY NextKeeps, SelectionsKept, NextShapes, StrayStays
  <1>3. QED
    BY <1>1, <1>2, PTL DEF Spec

\* An interrupted flow always has an interrupted step, so a Resume of the root
\* can walk down to a leaf (interruptedSubgraphChain), until a sweep strays.
THEOREM PausedFlowsHavePausedSteps == Spec => []PausedFlowHasPausedStep
  <1>1. stray \/ IInv => PausedFlowHasPausedStep
    BY DEF IInv, PausedShape, PausedFlowHasPausedStep
  <1>2. QED
    BY <1>1, InductiveInvariant, PTL

\* A park only resolves on a terminal child (processStep), and a flow that completed
\* or failed leaves no live step and no live child behind
\* (recoverOrphanedSubgraphChildren), however many sweeps had selected the callers,
\* until one strays.
THEOREM SettledTreesAreQuiet == Spec => []SettledTreeIsQuiet
  <1>1. ASSUME IInv, NEW s \in Steps, done[s], NEW f \in Children(s)
        PROVE  ~Live(f)
    <2>1. f \in Flows /\ caller[f] = s /\ s # 0
      BY DEF Children, Steps
    <2>2. QED
      BY <1>1, <2>1 DEF IInv, LiveChild
  <1>2. ASSUME IInv, NEW f \in Flows, flow[f] \in {"completed", "failed"}, NEW s \in Branches(f)
        PROVE  status[s] \notin LiveStep /\ \A g \in Children(s) : ~Live(g)
    <2>1. s \in Steps /\ owner[s] = f /\ f # 0
      BY DEF Branches, Flows
    <2>2. status[s] \in {"completed", "failed"}
      BY <1>2, <2>1 DEF IInv, StoppedSteps
    <2>3. ASSUME NEW g \in Children(s) PROVE ~Live(g)
      <3>1. g \in Flows /\ caller[g] = s /\ s # 0
        BY <2>1 DEF Children, Steps
      <3>2. QED
        BY <1>2, <2>2, <3>1 DEF IInv, LiveChild
    <2>4. QED
      BY <2>2, <2>3
  <1>3. stray \/ IInv => SettledTreeIsQuiet
    BY <1>1, <1>2 DEF SettledTreeIsQuiet
  <1>4. QED
    BY <1>3, InductiveInvariant, PTL
=============================================================================
