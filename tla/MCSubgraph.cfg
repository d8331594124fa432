\* A tree of up to three flows, swept by two replicas: two faults, or one and a
\* fan-out.
SPECIFICATION FairSpec
CONSTANTS
    p1 = p1
    p2 = p2
    MaxFlows = 3
    MaxSteps = 3
    MaxWidth = 2
    MaxBudget = 2
    Sweepers = {p1, p2}
INVARIANTS
    PausedFlowHasPausedStep
    SettledTreeIsQuiet
PROPERTIES
    TerminalIsFinal
    LateSweepIsHarmless
    ParkEnds
    OrphansEnd
CHECK_DEADLOCK FALSE
