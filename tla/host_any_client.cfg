SPECIFICATION Spec
CONSTANTS
    Epochs = {e1, e2, e3}
    Sources = {s1}
    Sessions = {x1, x2}
    ExplicitOpen = FALSE
    MaxPosition = 2
    MaxCommits = 4
    Payloads = {p1}
    Refusals = {}
    None = None
INVARIANTS
    HostTypeOK
    ContiguousArchive
    WatermarkIsTheWalk
    LineageIsAChain
    ActiveRowsAreLive
PROPERTIES
    Grows
    Projected
SYMMETRY Symmetry
CHECK_DEADLOCK FALSE
