SPECIFICATION FairSpec
CONSTANTS
    Sessions = {x1}
    Tokens <- MCTokens
    Stores = {0, 1}
    None = None
    SearchSlots = {w1}
    EmbeddingSlots = {v1}
    PageSize = 1
    MaxCommits = 2
    MaxRemovals = 1
    MaxFaults = 1
INVARIANTS
    CoverageIsBounded
    ServedIsASnapshot
    EmbeddingsFollowServed
    NoLagIsServed
    NoLagIsEmbedded
PROPERTIES
    LagDrains
