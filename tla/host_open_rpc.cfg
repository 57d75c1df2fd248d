SPECIFICATION Spec
CONSTANTS
    Epochs = {e1, e2, e3}
    Sources = {s1, s2}
    Sessions = {x1}
    ExplicitOpen = TRUE
    MaxPosition = 1
    MaxCommits = 4
    Payloads = {p1, p2}
    Refusals = {"conflict"}
    None = None
INVARIANTS
    OneOpenEpoch
    ContiguousArchive
SYMMETRY Symmetry
CHECK_DEADLOCK FALSE
