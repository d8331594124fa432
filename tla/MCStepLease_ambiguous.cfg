\* The answer to one commit is lost.
SPECIFICATION Spec
CONSTANTS
    Workers = {w1}
    MaxSteps = 3
    MaxBudget = 1
    Faults = {"ambiguous"}
INVARIANTS
    RetriedWriteIsIdempotent
CHECK_DEADLOCK FALSE
