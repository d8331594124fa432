------------------------------- MODULE Cohort -------------------------------
(***************************************************************************)
(* Fan-out and fan-in inside one flow: a step that fans out is the spawn   *)
(* of a cohort, its branches carry its id as their lineage_id, and every   *)
(* branch reports to the counters on the spawn row exactly once, as an     *)
(* arrival or as a loss. The arrival that completes the count inserts the  *)
(* fan-in step, or fails the flow, or passes the loss on to the cohort     *)
(* that encloses this one.                                                 *)
(*                                                                         *)
(* StepLease establishes that one dispatch at a time records a step; here  *)
(* a dispatch is therefore a state of its step: running, or completed with *)
(* its transition still owed. Each transaction is one atomic step.         *)
(***************************************************************************)
EXTENDS Naturals, FiniteSets

CONSTANTS
    MaxSteps,   \* bound: step rows the flow may have
    MaxWidth,   \* bound: branches of one fan-out
    MaxDirect,  \* bound: transitions of one fan-out that go straight to the fan-in
    MaxBudget   \* bound: rewinds, each a re-execution of a step

ASSUME CohortStepsAssumption == MaxSteps \in Nat \ {0}
ASSUME CohortWidthAssumption == MaxWidth \in Nat \ {0}
ASSUME CohortDirectAssumption == MaxDirect \in 0..MaxWidth
ASSUME CohortBudgetAssumption == MaxBudget \in Nat

Steps == 1..MaxSteps

VARIABLES
    last,       \* the newest step_id
    status,     \* dwarf_steps.status, "none" for a row not inserted yet
    lineage,    \* lineage_id: the spawn of the cohort the step belongs to, or 0
    frames,     \* the spawns up the lineage chain
    size,       \* cohort_size of a spawn
    arrivals,   \* cohort_arrivals
    failures,   \* cohort_failures
    cancels,    \* cohort_cancellations
    moved,      \* the step's transition committed: nothing is owed for it
    joins,      \* the spawn whose fan-in this step is, or 0
    carried,    \* the steps whose changes are folded into the step's state
    flow,       \* dwarf_flows.status
    budget      \* what is left of MaxBudget

counters == <<size, arrivals, failures, cancels>>
rows == <<last, lineage, frames, joins, carried>>
vars == <<rows, status, counters, moved, flow, budget>>

TerminalFlow == {"completed", "failed", "cancelled", "terminated"}
LiveStep == {"pending", "running"}
StepStatuses == {"none"} \cup LiveStep \cup TerminalFlow

-----------------------------------------------------------------------------
(* Vocabulary *)

Rows == 1..last

\* The step is recorded and its worker still has to commit what follows.
Owing(s) == status[s] = "completed" /\ ~moved[s]

\* A cohort that has not resolved.
Open(c) == size[c] > 0 /\ arrivals[c] < size[c]

\* The bound leaves one row for the fan-in of every open cohort.
Room(n) == last + n + Cardinality({c \in Rows : Open(c)}) <= MaxSteps

FlowRowLocked == flow \notin TerminalFlow

Moves(s) == moved' = [moved EXCEPT ![s] = TRUE]

\* Insert n pending rows into cohort lin, each starting from the given state.
InsertSteps(n, lin, join, state) ==
    LET new == last + 1 .. last + n IN
    /\ last' = last + n
    /\ status' = [r \in Steps |-> IF r \in new THEN "pending" ELSE status[r]]
    /\ lineage' = [r \in Steps |-> IF r \in new THEN lin ELSE lineage[r]]
    /\ frames' = [r \in Steps |-> IF r \notin new THEN frames[r]
                                  ELSE IF lin = 0 THEN {} ELSE {lin} \cup frames[lin]]
    /\ joins' = [r \in Steps |-> IF r \in new THEN join ELSE joins[r]]
    /\ carried' = [r \in Steps |-> IF r \in new THEN state ELSE carried[r]]

\* The state a step hands on: what it was given and what it wrote.
Outcome(s) == carried[s] \cup {s}

-----------------------------------------------------------------------------
(* propagateCohortFailure: a loss climbs the lineage chain from cohort c *)

Chain(c) == IF c = 0 THEN {} ELSE {c} \cup frames[c]

\* The seeded fault: the last branch is never the one that resolves.
ResolvingStrict(c) == arrivals[c] + 1 > size[c]

\* The seeded fault: the cohort resolves one branch early.
ResolvingEarly(c) == arrivals[c] + 2 >= size[c]

\* One more arrival resolves the cohort.
Resolving(c) == arrivals[c] + 1 >= size[c]

\* The seeded fault: the loss is charged to every enclosing cohort at once.
ChargedEverywhere(c) == Chain(c)

\* The cohorts charged: each one below (a younger spawn) resolved.
Charged(c) == {r \in Chain(c) : \A q \in Chain(c) : q > r => Resolving(q)}

\* The charge at r counts as a cancellation: the loss was one, and the
\* cohorts it climbed through lost branches to cancellation only.
ChargedCancelled(c, cancelled) ==
    {r \in Charged(c) : cancelled /\ \A q \in Chain(c) : q > r => cancels[q] = failures[q]}

\* The seeded fault: the first failed branch fails the flow.
FailsFlowEagerly(c) == TRUE

\* The loss reaches the trunk.
FailsFlow(c) == \A q \in Chain(c) : Resolving(q)

\* The seeded fault: the last loss decides, whatever failed before it.
LossStatusOfLast(c, cancelled) == IF cancelled THEN "cancelled" ELSE "failed"

LossStatus(c, cancelled) ==
    IF cancelled /\ \A q \in Chain(c) : cancels[q] = failures[q] THEN "cancelled" ELSE "failed"

\* Charge a loss to cohort c, besides the plain arrivals at the cohorts given.
PropagateCohortFailure(c, cancelled, arrived) ==
    /\ arrivals' = [r \in Steps |-> IF r \in arrived \cup Charged(c) THEN arrivals[r] + 1 ELSE arrivals[r]]
    /\ failures' = [r \in Steps |-> IF r \in Charged(c) THEN failures[r] + 1 ELSE failures[r]]
    /\ cancels' = [r \in Steps |-> IF r \in ChargedCancelled(c, cancelled) THEN cancels[r] + 1 ELSE cancels[r]]
    /\ flow' = IF FlowRowLocked /\ FailsFlow(c) THEN LossStatus(c, cancelled) ELSE flow
    /\ UNCHANGED <<size, rows>>

-----------------------------------------------------------------------------
(* The dispatch of a step *)

Claim(s) ==
    /\ status[s] = "pending"
    /\ status' = [status EXCEPT ![s] = "running"]
    /\ UNCHANGED <<rows, counters, moved, flow, budget>>

Complete(s) ==
    /\ status[s] = "running"
    /\ status' = [status EXCEPT ![s] = "completed"]
    /\ UNCHANGED <<rows, counters, moved, flow, budget>>

\* A retry, a drain, an expired lease or the recovery defer: the step runs again.
Rewind(s) ==
    /\ status[s] = "running" \/ Owing(s)
    /\ budget > 0 /\ budget' = budget - 1
    /\ status' = [status EXCEPT ![s] = "pending"]
    /\ UNCHANGED <<rows, counters, moved, flow>>

\* The step is in its worker's hands: the task runs, or its transition is owed.
Failable(s) == status[s] = "running" \/ Owing(s)

\* failStep: a task error, or a completed step whose transition cannot be
\* recorded; a cancelled task settles the step as cancelled.
FailStep(s) ==
    /\ Failable(s)
    /\ \E cancelled \in BOOLEAN :
          /\ status' = [status EXCEPT ![s] = IF cancelled THEN "cancelled" ELSE "failed"]
          /\ PropagateCohortFailure(lineage[s], cancelled, {})
    /\ UNCHANGED <<moved, budget>>

-----------------------------------------------------------------------------
(* The transition of a completed step *)

\* One successor, in the same branch.
Advance(s) ==
    /\ Owing(s) /\ FlowRowLocked /\ Room(1)
    /\ Moves(s)
    /\ InsertSteps(1, lineage[s], 0, Outcome(s))
    /\ UNCHANGED <<counters, flow, budget>>

\* A fan-out of n transitions, of which direct go straight to the fan-in: the
\* others are the branches. With no branch left the fan-in follows at once.
FanOut(s) ==
    /\ Owing(s) /\ FlowRowLocked
    /\ \E n \in 1..MaxWidth, direct \in 0..MaxDirect :
          /\ direct < n \/ (direct = n /\ n > 1)
          /\ Room((n - direct) + 1)
          /\ IF direct < n THEN InsertSteps(n - direct, s, 0, Outcome(s))
                           ELSE InsertSteps(1, lineage[s], s, Outcome(s))
          /\ size' = [size EXCEPT ![s] = n]
          /\ arrivals' = [arrivals EXCEPT ![s] = direct]
    /\ Moves(s)
    /\ UNCHANGED <<failures, cancels, flow, budget>>

\* fireFanInDirect: a fan-out of nothing (or of the fan-in alone) converges on
\* the source's own state, and stays in the source's cohort.
FireFanInDirect(s) ==
    /\ Owing(s) /\ FlowRowLocked /\ Room(1)
    /\ Moves(s)
    /\ InsertSteps(1, lineage[s], s, Outcome(s))
    /\ size' = [size EXCEPT ![s] = 0]
    /\ UNCHANGED <<arrivals, failures, cancels, flow, budget>>

\* What the fan-in step starts from: the spawn's outcome and the changes of
\* the cohort's completed members.
FanInState(c) == Outcome(c) \cup {m \in Rows : lineage[m] = c /\ status[m] = "completed"}

\* The branch reached its fan-in. The arrival is counted in any case; when it
\* resolves the cohort of a running flow the fan-in step is inserted, or the
\* cohort's loss climbs on.
ArriveFanIn(s) ==
    LET c == lineage[s] IN
    /\ Owing(s) /\ c # 0
    /\ Moves(s)
    /\ UNCHANGED budget
    /\ \/ /\ ~Resolving(c) \/ ~FlowRowLocked
          /\ arrivals' = [arrivals EXCEPT ![c] = @ + 1]
          /\ UNCHANGED <<rows, status, size, failures, cancels, flow>>
       \/ /\ Resolving(c) /\ FlowRowLocked /\ failures[c] = 0
          /\ arrivals' = [arrivals EXCEPT ![c] = @ + 1]
          /\ InsertSteps(1, lineage[c], c, FanInState(c))
          /\ UNCHANGED <<size, failures, cancels, flow>>
       \/ /\ Resolving(c) /\ FlowRowLocked /\ failures[c] > 0
          /\ PropagateCohortFailure(lineage[c], cancels[c] = failures[c], {c})
          /\ UNCHANGED status

\* completeFlow: the trunk routed to END.
CompleteFlow(s) ==
    /\ Owing(s) /\ FlowRowLocked /\ lineage[s] = 0
    /\ Moves(s)
    /\ flow' = "completed"
    /\ UNCHANGED <<rows, status, counters, budget>>

\* The terminal-status guard matched no row: the transition is a no-op.
TransitionNoOp(s) ==
    /\ Owing(s) /\ ~FlowRowLocked
    /\ Moves(s)
    /\ UNCHANGED <<rows, status, counters, flow, budget>>

\* Terminate flips every live step and the flow (StepLease has the rows its
\* scan may miss).
Terminate ==
    /\ flow \notin TerminalFlow
    /\ flow' = "terminated"
    /\ status' = [r \in Steps |-> IF status[r] \in LiveStep THEN "terminated" ELSE status[r]]
    /\ UNCHANGED <<rows, counters, moved, budget>>

-----------------------------------------------------------------------------
Init ==
    /\ last = 1
    /\ status = [s \in Steps |-> IF s = 1 THEN "pending" ELSE "none"]
    /\ lineage = [s \in Steps |-> 0]
    /\ frames = [s \in Steps |-> {}]
    /\ size = [s \in Steps |-> 0]
    /\ arrivals = [s \in Steps |-> 0]
    /\ failures = [s \in Steps |-> 0]
    /\ cancels = [s \in Steps |-> 0]
    /\ moved = [s \in Steps |-> FALSE]
    /\ joins = [s \in Steps |-> 0]
    /\ carried = [s \in Steps |-> {}]
    /\ flow = "running"
    /\ budget = MaxBudget

\* What a worker does with a step once the task returned.
Settle(s) ==
    \/ Complete(s)
    \/ FailStep(s)
    \/ Advance(s)
    \/ FanOut(s)
    \/ FireFanInDirect(s)
    \/ ArriveFanIn(s)
    \/ CompleteFlow(s)
    \/ TransitionNoOp(s)

Next ==
    \/ \E s \in Rows : Claim(s) \/ Settle(s) \/ Rewind(s)
    \/ Terminate

Spec == Init /\ [][Next]_vars

\* A pending step is claimed sooner or later, and its worker goes on to settle
\* it; nothing obliges anyone to rewind or terminate.
FairSpec == Spec /\ \A s \in Steps : WF_vars(s \in Rows /\ (Claim(s) \/ Settle(s)))

-----------------------------------------------------------------------------
(* Properties *)

\* Every row of the flow, and the counters on it, keep the shape of the schema.
TypeOK ==
    /\ last \in Steps
    /\ status \in [Steps -> StepStatuses]
    /\ lineage \in [Steps -> {0} \cup Steps]
    /\ frames \in [Steps -> SUBSET Steps]
    /\ size \in [Steps -> Nat]
    /\ arrivals \in [Steps -> Nat]
    /\ failures \in [Steps -> Nat]
    /\ cancels \in [Steps -> Nat]
    /\ moved \in [Steps -> BOOLEAN]
    /\ joins \in [Steps -> {0} \cup Steps]
    /\ carried \in [Steps -> SUBSET Steps]
    /\ flow \in {"running"} \cup TerminalFlow
    /\ budget \in Nat

Members(c) == {m \in Rows : lineage[m] = c}

\* A branch that still has to report: a live step, an owed transition, or a
\* nested cohort that has not resolved.
Outstanding(m) == status[m] \in LiveStep \/ Owing(m) \/ Open(m)

\* The counters stand for the branches: while the flow runs, what a cohort
\* still waits for is what is still outstanding in it, so that it neither
\* resolves early nor waits for a branch that will never report.
CountersExact ==
    flow \notin TerminalFlow =>
        \A c \in Rows : size[c] > 0 =>
            arrivals[c] + Cardinality({m \in Members(c) : Outstanding(m)}) = size[c]

\* The fan-in runs once, after every branch of its cohort succeeded.
FanInIsSound ==
    /\ \A f \in Rows : joins[f] # 0 =>
          \A m \in Members(joins[f]) : status[m] = "completed" /\ ~Outstanding(m)
    /\ \A f, g \in Rows : joins[f] # 0 /\ joins[f] = joins[g] => f = g

\* A flow stops of itself only when its whole tree has: a failed branch waits
\* for its siblings, in its own cohort and in the enclosing ones.
FlowStopsQuiet ==
    flow \in {"completed", "failed", "cancelled"} => \A s \in Rows : ~Outstanding(s)

\* "A single real error anywhere below makes the whole resolution a failure"
\* (propagateCohortFailure), and nothing else does.
CancelledIsPure ==
    /\ flow = "cancelled" => \A s \in Rows : status[s] # "failed"
    /\ flow = "failed" => \E s \in Rows : status[s] = "failed"
    /\ flow = "completed" => \A s \in Rows : status[s] = "completed"

\* Every fan-out converges and the flow stops, whatever order its branches
\* report in.
FlowStops == flow = "running" ~> flow \in TerminalFlow

\* "Every step of a per-element sub-pipeline inherits the spawn's lineage, so
\* every cohort member is one indexed scan" (computeFinalState; insertFanInStep
\* makes the same scan): a fan-in is handed what every completed step below its
\* spawn wrote, a fan-out inside a branch included.
FanInCarriesBranchOutputs ==
    \A f \in Rows : joins[f] # 0 =>
        {m \in Rows : joins[f] \in frames[m] /\ status[m] = "completed"} \subseteq carried[f]
=============================================================================
