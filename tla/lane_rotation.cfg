SPECIFICATION Spec
CONSTANTS
    Epochs = {1, 2, 3}
    Sources = {src}
    Source = src
    Sessions = {x1, x2}
    None = None
    ExplicitOpen = FALSE
    Senders = {w1}
    GatedSenders = {}
    Providers = {"claude", "codex", "antigravity"}
    Meta = {0}
    LegacyOffset = 1
    MaxBatch = 2
    LiveBatch = 1
    Screens = {"clear"}
    Rejecting = FALSE
    SteadyFile = TRUE
    SafeReplace = FALSE
    FileOps = {"replace", "truncate"}
    MaxLen = 2
    MaxRewrites = 1
    MaxBinds = 1
    MaxDeletes = 0
    MaxRestores = 0
    MaxAbandons = 1
INVARIANTS
    EpochNamesOneFile
    AckedIsArchived
    OneDocumentPerEpoch
CHECK_DEADLOCK FALSE
