\* Two calls, the flow resumed once, one failed read.
SPECIFICATION FairSpec
CONSTANTS
    c1 = c1
    c2 = c2
    Callers = {c1, c2}
    MaxResumes = 1
    MaxErrors = 1
INVARIANTS
    CloseReachesEveryWaiter
    ReleasedFindsStop
PROPERTIES
    AwaitReturns
CHECK_DEADLOCK FALSE
