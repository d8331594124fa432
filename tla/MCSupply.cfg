\* Two shards with a step each; one outage, withdrawal or late step.
SPECIFICATION SupplyFairSpec
CONSTANTS
    Shards = {1, 2}
    Steps = {1, 2}
    ShardOf <- MCShardOf
    KeyOf <- MCKeyOf
    BandOf <- MCBandOf
    Capacity = 2
    Views <- MCViews
    MaxEvents = 1
INVARIANTS
    IdleHoldsNothing
PROPERTIES
    BacklogDrains
CHECK_DEADLOCK FALSE
VIEW StateInUse
