\* The insert of a child fails and so does the failure of its caller.
SPECIFICATION Spec
CONSTANTS
    Workers = {w1}
    MaxSteps = 2
    MaxBudget = 2
    Faults = {"contention"}
INVARIANTS
    RewoundStepIsDispatchable
CHECK_DEADLOCK FALSE
