SPECIFICATION Spec
CONSTANTS
    Epochs = {1, 2}
    Sources = {src}
    Source = src
    Sessions = {x1}
    None = None
    ExplicitOpen = FALSE
    Senders = {w1, w2}
    GatedSenders = {}
    Providers = {"claude"}
    Meta = {}
    LegacyOffset = 0
    MaxBatch = 2
    LiveBatch = 1
    Screens = {"clear"}
    Rejecting = FALSE
    SteadyFile = TRUE
    SafeReplace = FALSE
    FileOps = {"replace"}
    MaxLen = 2
    MaxRewrites = 1
    MaxBinds = 0
    MaxDeletes = 0
    MaxRestores = 0
    MaxAbandons = 1
PROPERTIES
    ImplementsArchive
    RewindNeedsRestore
SYMMETRY Symmetry
CHECK_DEADLOCK FALSE
