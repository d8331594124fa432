\* Seven rows: a fan-out of two, one of whose branches fans out again.
SPECIFICATION FairSpec
CONSTANTS
    MaxSteps = 7
    MaxWidth = 2
    MaxDirect = 2
    MaxBudget = 1
INVARIANTS
    CountersExact
    FanInIsSound
    FlowStopsQuiet
    CancelledIsPure
PROPERTIES
    FlowStops
CHECK_DEADLOCK FALSE
