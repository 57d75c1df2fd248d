SPECIFICATION FairSpec
CONSTANTS
    Inputs = {1, 2}
    Posts = {11, 12}
    Drains = {21}
    Intents = {"auto", "queue", "steer"}
    MaxQueued = 1
    MaxFaults = 2
INVARIANTS
    TypeOK
    AtMostOnce
    QueuedIsUnsent
    DeliveredIsInjected
PROPERTIES QueueDrains
CHECK_DEADLOCK FALSE
