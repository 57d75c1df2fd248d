SPECIFICATION Spec
CONSTANTS
    Inputs = {1, 2}
    Posts = {11, 12}
    Drains = {21}
    Intents = {"auto"}
    MaxQueued = 2
    MaxFaults = 1
INVARIANTS OneSender
CHECK_DEADLOCK FALSE
