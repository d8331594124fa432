\* A forEach whose branches reach their fan-in through a switch.
SPECIFICATION Spec
CONSTANTS
    Nodes <- MCNodes
    Entry = "A"
    Graphs <- MCGraphs
    MaxFrames = 3
INVARIANTS
    EmptyFanOutConverges
CHECK_DEADLOCK FALSE
