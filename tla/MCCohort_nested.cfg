\* A fan-out inside a branch of a fan-out.
SPECIFICATION Spec
CONSTANTS
    MaxSteps = 7
    MaxWidth = 2
    MaxDirect = 1
    MaxBudget = 0
INVARIANTS
    FanInCarriesBranchOutputs
CHECK_DEADLOCK FALSE
