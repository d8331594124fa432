\* The whole fleet is cut off from the registry for a while.
SPECIFICATION Spec
CONSTANTS
    Engines = {1, 2}
    Score <- MCScore
    Paces <- MCPrompt
    Cuts = {{1, 2}}
    Settled = {1, 2}
    NoWorkers = {}
    Beat = 4
    Fresh = 8
    MaxLag = 1
    Straggler = 12
    PruneAfter = 1
    MaxEvents = 1
    Budget = 8
    Want = 2
PROPERTIES
    StallNeverGrowsPools
CHECK_DEADLOCK FALSE
