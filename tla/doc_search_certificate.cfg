SPECIFICATION Spec
CONSTANTS
    Sessions = {x1}
    Tokens <- MCTokens
    Stores = {0}
    None = None
    SearchSlots = {w1}
    EmbeddingSlots = {v1}
    PageSize = 1
    MaxCommits = 2
    MaxRemovals = 1
    MaxFaults = 0
INVARIANTS
    SearchRowIsCertificate
CHECK_DEADLOCK FALSE
