\* Two engines that settled, one of them on a slow path, and one that joins; two
\* crashes, drains or outages.
SPECIFICATION FairSpec
CONSTANTS
    Engines = {1, 2, 3}
    Score <- MCScore
    Paces <- MCSlow
    Cuts <- MCCuts
    Settled = {1, 2}
    NoWorkers = {}
    Beat = 1
    Fresh = 4
    MaxLag = 1
    Straggler = 5
    PruneAfter = 1
    MaxEvents = 2
    Budget = 8
    Want = 1
INVARIANTS
    WithinBudget
PROPERTIES
    AlwaysDispatched
    GivenUpForGood
