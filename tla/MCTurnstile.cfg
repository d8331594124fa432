\* Three jobs, up to two passes, three turns that queue.
SPECIFICATION FairSpec
CONSTANTS
    j1 = j1
    j2 = j2
    j3 = j3
    Jobs = {j1, j2, j3}
    Rank <- MCRank
    MaxSize = 2
    MaxTurns = 3
INVARIANTS
    PassesConserved
PROPERTIES
    IsSemaphore
    EveryWaiterServed
