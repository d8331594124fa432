\* Every chain of five tasks with one more transition.
SPECIFICATION Spec
CONSTANTS
    Nodes <- MCNodes
    Entry = "A"
    Graphs <- MCGraphs
    MaxFrames = 3
INVARIANTS
    RoutesAsValidated
    LineageAsValidated
CHECK_DEADLOCK FALSE
