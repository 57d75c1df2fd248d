SPECIFICATION Spec
CONSTANTS
    Messages = {1}
    Provider = "antigravity"
    MaxFaults = 1
INVARIANTS EndIsReported
CHECK_DEADLOCK FALSE
