\* A child of two branches, no fault at all.
SPECIFICATION Spec
CONSTANTS
    p1 = p1
    p2 = p2
    MaxFlows = 2
    MaxSteps = 3
    MaxWidth = 2
    MaxBudget = 1
    Sweepers = {p1}
INVARIANTS
    InterruptReachesRoot
CHECK_DEADLOCK FALSE
