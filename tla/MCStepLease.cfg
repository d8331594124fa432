\* Two workers, two steps and two faults of every kind.
SPECIFICATION FairSpec
CONSTANTS
    Workers = {w1, w2}
    MaxSteps = 2
    MaxBudget = 2
    Faults = {"crash", "contention", "claimcontention", "dberr", "ambiguous", "resetfail"}
INVARIANTS
    OneExecutionPersisted
    SettledFlowIsQuiet
    PendingIsOffered
PROPERTIES
    SupersededWritesNothing
    TerminalIsImmutable
    StrandedOnlyInWindow
    FlowSettles
VIEW StateInUse
CHECK_DEADLOCK FALSE
