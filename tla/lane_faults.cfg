SPECIFICATION FairSpec
CONSTANTS
    Epochs = {1}
    Sources = {src}
    Source = src
    Sessions = {x1}
    None = None
    ExplicitOpen = FALSE
    Senders = {w1}
    GatedSenders = {w1}
    Providers = {"claude"}
    Meta = {1, 2}
    LegacyOffset = 1
    MaxBatch = 2
    LiveBatch = 1
    Screens = {"clear", "media_unavailable", "conflict"}
    Rejecting = TRUE
    SteadyFile = TRUE
    SafeReplace = FALSE
    FileOps = {}
    MaxLen = 4
    MaxRewrites = 0
    MaxBinds = 0
    MaxDeletes = 1
    MaxRestores = 0
    MaxAbandons = 2
INVARIANTS
    LaneTypeOK
    ArchiveMatchesFile
    PendingStartsAtCursor
PROPERTIES
    ImplementsArchive
    AttemptedIsKept
    EmptyBlocksAreRetired
CHECK_DEADLOCK FALSE
