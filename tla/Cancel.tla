------------------------------- MODULE Cancel -------------------------------
(***************************************************************************)
(* Cancel of one flow, against everything Cohort's flow does.  Cancel      *)
(* stamps the flow row with a watermark, the newest step of the moment,    *)
(* and then marks the live steps up to it, in two statements.  A marked    *)
(* step is preempted at its claim, or redirected when its completion is    *)
(* recorded: it settles as cancelled or goes on to its error handler.  A   *)
(* step that was recorded before the mark and moves on after the stamp     *)
(* hands the mark to what it inserts.                                      *)
(*                                                                         *)
(* A step is told of the cancellation by its mark, which no statement ever *)
(* clears: it is consumed by the step's own settling.                      *)
(***************************************************************************)
EXTENDS Cohort

CONSTANT Calls   \* the calls of Cancel, by hosts that retry or race

VARIABLES
    watermark,  \* cancel_watermark: the newest step at the Cancel, or 0
    mark,       \* the steps with cancelling=1
    call,       \* how far each call has come
    told,       \* history: the steps that come after one that was marked
    begun       \* history: the steps that have been claimed at least once

cancelVars == <<vars, watermark, mark, call, told, begun>>

-----------------------------------------------------------------------------
(* The call *)

\* Cancel reads the flow row: a flow that was cancelled before is left alone.
ReadWatermark(k) ==
    /\ call[k] = "idle"
    /\ call' = [call EXCEPT ![k] = IF watermark = 0 THEN "read" ELSE "returned"]
    /\ UNCHANGED <<vars, watermark, mark, told, begun>>

\* The guard of the flow write: not terminal, not stamped.
Stamped == FlowRowLocked /\ watermark = 0

\* The flow row's lock is taken, then the newest step is read.
Stamp(k) ==
    /\ call[k] = "read"
    /\ call' = [call EXCEPT ![k] = "stamped"]
    /\ watermark' = IF Stamped THEN last ELSE watermark
    /\ UNCHANGED <<vars, mark, told, begun>>

\* The mark reaches the live steps up to the watermark.
Mark(k) ==
    /\ call[k] = "stamped"
    /\ call' = [call EXCEPT ![k] = "marked"]
    /\ mark' = mark \cup {s \in Rows : status[s] \in LiveStep /\ s <= watermark}
    /\ UNCHANGED <<vars, watermark, told, begun>>

\* The mark is lost: the statement fails, or the process dies before it.
MarkFails(k) ==
    /\ call[k] = "stamped"
    /\ call' = [call EXCEPT ![k] = "failed"]
    /\ UNCHANGED <<vars, watermark, mark, told, begun>>

-----------------------------------------------------------------------------
(* The flow *)

\* The seeded fault: what a step inserts is never marked.
InheritsNever(s) == FALSE

\* successorInsertSQL: the source existed at the Cancel and was not covered itself.
Inherits(s) == s <= watermark /\ s \notin mark

\* The rows that a step of the flow inserted, with their mark and what they follow.
Handed(s) ==
    LET new == last + 1 .. last' IN
    /\ mark' = IF Inherits(s) THEN mark \cup new ELSE mark
    /\ told' = IF s \in mark \cup told THEN told \cup new ELSE told

\* A marked step is not given its own transitions: it settles as lost, or it takes
\* the single transition to its handler.
Runs(s) ==
    /\ \/ Claim(s) /\ begun' = begun \cup {s}
       \/ Settle(s) /\ begun' = begun
       \/ Rewind(s) /\ begun' = begun
    /\ s \in mark => size' = size
    /\ Handed(s)
    /\ UNCHANGED <<watermark, call>>

-----------------------------------------------------------------------------
CancelInit ==
    /\ Init
    /\ watermark = 0 /\ mark = {} /\ told = {} /\ begun = {}
    /\ call = [k \in Calls |-> "idle"]

CancelNext ==
    \/ \E k \in Calls : ReadWatermark(k) \/ Stamp(k) \/ Mark(k) \/ MarkFails(k)
    \/ \E s \in Rows : Runs(s)
    \/ Terminate /\ UNCHANGED <<watermark, mark, call, told, begun>>

CancelSpec == CancelInit /\ [][CancelNext]_cancelVars

-----------------------------------------------------------------------------
(* Properties *)

\* Every path of the flow is told of a Cancel once.  At least once: a Cancel that
\* has marked lets no step start that is neither marked nor comes after one that
\* was; and even if its mark is lost, and the retry of the call finds the watermark
\* and does nothing, every step inserted from then on is, so that the cancellation
\* is late by the steps that were live and never lost with them.  At most once:
\* neither a call that is repeated nor the gap between its two statements turns it
\* on the handler that caught it, or on what the handler leads to (cancel,
\* successorInsertSQL).
CancelToldOnce ==
    /\ mark \cap told = {}
    /\ watermark # 0 => \A s \in Rows : s > watermark => s \in mark \cup told
    /\ watermark # 0 /\ (\E k \in Calls : call[k] = "marked") =>
          \A s \in Rows : status[s] = "pending" => s \in begun \cup mark \cup told
=============================================================================
