\* Five rows: a fan-out of two, a handler in one branch, and the fan-in.
SPECIFICATION CancelSpec
CONSTANTS
    MaxSteps = 5
    MaxWidth = 2
    MaxDirect = 1
    MaxBudget = 1
    Calls = {1, 2}
INVARIANTS
    CancelToldOnce
CHECK_DEADLOCK FALSE
