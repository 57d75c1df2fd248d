SPECIFICATION FairSpec
CONSTANTS
    Epochs = {1, 2}
    Sources = {src}
    Source = src
    Sessions = {x1}
    None = None
    ExplicitOpen = FALSE
    Senders = {w1}
    GatedSenders = {}
    Providers = {"claude"}
    Meta = {}
    LegacyOffset = 0
    MaxBatch = 2
    LiveBatch = 1
    Screens = {"clear"}
    Rejecting = FALSE
    SteadyFile = TRUE
    SafeReplace = TRUE
    FileOps = {"replace"}
    MaxLen = 3
    MaxRewrites = 1
    MaxBinds = 0
    MaxDeletes = 0
    MaxRestores = 1
    MaxAbandons = 1
PROPERTIES
    Converges
    GapsAreResynced
CHECK_DEADLOCK FALSE
