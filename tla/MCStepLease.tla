---------------------------- MODULE MCStepLease ----------------------------
(* StepLease instantiated for TLC. *)
EXTENDS StepLease

\* What a worker's locals were in a dispatch that is over, or the transitions of
\* a step it has not executed yet, nothing ever reads.
LocalsInUse(w) ==
    IF pc[w] = "idle" THEN <<>>
    ELSE IF pc[w] \in {"claimed", "reap", "exec"} THEN <<at[w], mySeq[w], marked[w]>>
    ELSE <<at[w], mySeq[w], marked[w], route[w]>>

StateInUse == <<rowVars, flow, pc, [w \in Workers |-> LocalsInUse(w)], budget, lost>>
=============================================================================
