\* Two replicas sweep one shard.
SPECIFICATION Spec
CONSTANTS
    p1 = p1
    p2 = p2
    MaxFlows = 3
    MaxSteps = 3
    MaxWidth = 1
    MaxBudget = 3
    Sweepers = {p1, p2}
PROPERTIES
    SweepIsHarmless
CHECK_DEADLOCK FALSE
