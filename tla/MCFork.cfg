\* One fork of a flow of up to seven rows, from any of them.
SPECIFICATION ForkSpec
CONSTANTS
    MaxSteps = 7
    MaxWidth = 2
    MaxDirect = 0
    MaxBudget = 1
    MaxForks = 1
INVARIANTS
    CountersExact
    FanInFollowsReruns
    LossesAreInherited
CHECK_DEADLOCK FALSE
