-------------------------------- MODULE Fork --------------------------------
(***************************************************************************)
(* Fork: a terminal flow is cloned up to a chosen step, in one             *)
(* transaction, and the clone runs on from that step.  The rows that       *)
(* descend from the step are left out, every id is mapped to a new one,    *)
(* and the counters of the cohorts that are kept are worked out again from *)
(* the rows: the clone must wait for the branch that runs again, and for   *)
(* nothing else.                                                           *)
(*                                                                         *)
(* The flow runs as in Cohort, with the two links between rows that the    *)
(* clone goes by.  The origin is never written; after a fork the model     *)
(* follows the clone.                                                      *)
(***************************************************************************)
EXTENDS Cohort, SequencesExt

CONSTANT MaxForks   \* bound: forks, each of the flow the last one made

ASSUME ForkAssumption == MaxForks \in Nat

VARIABLES
    pred,    \* predecessor_id: the step whose transition inserted the row, or 0
    succ,    \* successor_id: the first row it inserted, or the fan-in, or 0
    forks

forkVars == <<vars, pred, succ, forks>>

-----------------------------------------------------------------------------
(* The links that a running flow writes *)

\* The members of cohort c that went into its fan-in: the others have a link forward.
Exits(c) == {r \in Rows : lineage[r] = c /\ succ[r] = 0}

\* What the step s wrote, besides Cohort's columns.
Links(s) ==
    LET new == last + 1 .. last'
        joining == new # {} /\ joins'[last'] = lineage[s] /\ lineage[s] # 0
    IN  /\ pred' = [r \in Steps |-> IF r \in new THEN s ELSE pred[r]]
        /\ succ' = [r \in Steps |->
                      IF joining THEN IF r \in Exits(lineage[s]) THEN last' ELSE succ[r]
                      ELSE IF new # {} /\ r = s THEN last + 1 ELSE succ[r]]

-----------------------------------------------------------------------------
(* The rows of the clone *)

\* The rows reached from a set of rows, oldest first: a link points to a newer row.
Reached(from, link(_, _)) ==
    FoldLeft(LAMBDA got, r : IF \E q \in got : link(q, r) THEN got \cup {r} ELSE got,
             from, [n \in Rows |-> n])

\* The seeded fault: only predecessor links are followed.
PrunedByPredecessor(s) == Reached({s}, LAMBDA q, r : pred[r] = q) \ {s}

\* collectDAGSubtree: what descends from s, by either link.
Pruned(s) == Reached({s}, LAMBDA q, r : pred[r] = q \/ succ[q] = r) \ {s}

Kept(s) == Rows \ Pruned(s)

\* A kept step that had not settled when the origin stopped is frozen.
ClonedStatus(s, r) ==
    IF r = s THEN "pending" ELSE IF status[r] \in LiveStep THEN "terminated" ELSE status[r]

\* The seeded fault: a branch ends where a fan-out inside it begins.
BranchOfLineage(keep, c, head) ==
    Reached({head}, LAMBDA q, r : pred[r] = q /\ r \in keep /\ lineage[r] = c)

\* A branch of the cohort of c: what follows its head, through the cohorts nested
\* in it, up to the fan-in of c.
Branch(keep, c, head) ==
    Reached({head}, LAMBDA q, r : pred[r] = q /\ r \in keep /\ c \in frames[r])

\* The seeded fault: every kept member counts, the rewound step aside.
ArrivedMembers(keep, s, c) == {r \in keep : lineage[r] = c /\ r # s}

\* The branches, by their heads, that do not run again.
Arrived(keep, s, c) == {h \in keep : pred[h] = c /\ lineage[h] = c /\ s \notin Branch(keep, c, h)}

Shows(keep, s, c, h, lost) == \E r \in Branch(keep, c, h) : ClonedStatus(s, r) = lost

Failed(keep, s, c) == {h \in Arrived(keep, s, c) : Shows(keep, s, c, h, "failed")}
Cancelled(keep, s, c) ==
    {h \in Arrived(keep, s, c) : Shows(keep, s, c, h, "cancelled")} \ Failed(keep, s, c)
Lost(keep, s, c) == Failed(keep, s, c) \cup Cancelled(keep, s, c)

-----------------------------------------------------------------------------
\* forkFlow and cloneOneFlow.  The leaf has its output, its cohort and its links
\* forward cleared, and is released by the last statement of the transaction.
Fork(s) ==
    /\ flow \in TerminalFlow /\ forks < MaxForks
    /\ \E keep \in {Kept(s)} : \E idMap \in
             {[r \in {0} \cup Rows |-> IF r \in keep THEN Cardinality({q \in keep : q <= r}) ELSE 0]} :
         LET clone(value(_), none) ==
                 [n \in Steps |-> IF n <= Cardinality(keep)
                                  THEN value(CHOOSE r \in keep : idMap[r] = n) ELSE none]
             mapped(ids) == {idMap[r] : r \in ids} \ {0}
             count(of(_, _, _), r) == IF r = s \/ size[r] = 0 THEN 0 ELSE Cardinality(of(keep, s, r))
         IN  /\ last' = Cardinality(keep)
             /\ status' = clone(LAMBDA r : ClonedStatus(s, r), "none")
             /\ moved' = clone(LAMBDA r : r # s, FALSE)
             /\ lineage' = clone(LAMBDA r : idMap[lineage[r]], 0)
             /\ frames' = clone(LAMBDA r : mapped(frames[r]), {})
             /\ pred' = clone(LAMBDA r : idMap[pred[r]], 0)
             /\ succ' = clone(LAMBDA r : IF r = s THEN 0 ELSE idMap[succ[r]], 0)
             /\ joins' = clone(LAMBDA r : idMap[joins[r]], 0)
             /\ carried' = clone(LAMBDA r : mapped(carried[r]), {})
             /\ size' = clone(LAMBDA r : IF r = s THEN 0 ELSE size[r], 0)
             /\ arrivals' = clone(LAMBDA r : count(Arrived, r), 0)
             /\ failures' = clone(LAMBDA r : count(Lost, r), 0)
             /\ cancels' = clone(LAMBDA r : count(Cancelled, r), 0)
    /\ forks' = forks + 1
    /\ flow' = "running"
    /\ budget' = 0
    /\ Room(0)'    \* the bound: the cohorts that are open again have room for their fan-ins

-----------------------------------------------------------------------------
ForkInit == Init /\ pred = [s \in Steps |-> 0] /\ succ = [s \in Steps |-> 0] /\ forks = 0

Runs(s) == (Claim(s) \/ Settle(s)) /\ Links(s) /\ UNCHANGED forks

ForkNext ==
    \/ \E s \in Rows : Runs(s) \/ (Rewind(s) /\ UNCHANGED <<pred, succ, forks>>) \/ Fork(s)
    \/ Terminate /\ UNCHANGED <<pred, succ, forks>>

ForkSpec == ForkInit /\ [][ForkNext]_forkVars

\* As for the flow itself: a pending step is claimed and settled.
ForkFairSpec == ForkSpec /\ \A s \in Steps : WF_forkVars(s \in Rows /\ Runs(s))

-----------------------------------------------------------------------------
(* Properties *)

\* A fan-in that waited for the branch that runs again is not kept: in the clone
\* as in its origin a fan-in follows everything below its spawn, and runs once.
FanInFollowsReruns ==
    /\ \A f, m \in Rows : joins[f] # 0 /\ joins[f] \in frames[m] => ~Outstanding(m)
    /\ \A f, g \in Rows : joins[f] # 0 /\ joins[f] = joins[g] => f = g

\* A clone inherits the losses of the branches it keeps: it does not complete
\* over one, it ends cancelled only if nothing in it failed, and failed only if
\* something did.
LossesAreInherited ==
    /\ flow = "completed" => \A s \in Rows : status[s] \in {"completed", "terminated"}
    /\ flow = "failed" => \E s \in Rows : status[s] = "failed"
    /\ flow = "cancelled" => \A s \in Rows : status[s] # "failed"

\* The counters of the clone are worked out so that "the fan-in still converges"
\* (cloneOneFlow): a clone whose steps are dispatched stops.
ForkConverges == forks > 0 ~> flow \in TerminalFlow
=============================================================================
