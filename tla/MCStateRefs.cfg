\* One field of each kind, a forEach of two, one anchor per row.
SPECIFICATION RefsSpec
CONSTANTS
    Plain = {"doc"}
    Reduced = {"log"}
    Item = "item"
    Initial = {"doc", "log"}
    Width = 2
    MaxAnchors = 1
    MaxSteps = 5
    MaxRewinds = 1
    MaxMentions = 2
INVARIANTS
    StateIsWhole
CHECK_DEADLOCK FALSE
