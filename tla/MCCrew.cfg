\* Two shards, two bands, two goroutines.
SPECIFICATION FairSpec
CONSTANTS
    w1 = w1
    w2 = w2
    Workers = {w1, w2}
    Shards = {1, 2}
    Bands = {1, 2}
    Permits = 1
    Residents = {w1}
    MaxCrew = 2
    Sizes = {1, 2}
    Backlog <- MCBacklog
    MaxEvents = 1
INVARIANTS
    CountersExact
    CrewWithinBounds
PROPERTIES
    DueIsClaimed
    ShutdownDrains
CHECK_DEADLOCK FALSE
