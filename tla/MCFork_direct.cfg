\* A fan-out one of whose transitions goes straight to the fan-in.
SPECIFICATION ForkFairSpec
CONSTANTS
    MaxSteps = 4
    MaxWidth = 2
    MaxDirect = 1
    MaxBudget = 0
    MaxForks = 1
PROPERTIES
    ForkConverges
CHECK_DEADLOCK FALSE
