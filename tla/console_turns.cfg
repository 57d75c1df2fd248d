CONSTANTS
  Messages = {1, 2}
  Provider = "pi"
  MaxFaults = 2
SPECIFICATION Spec
INVARIANTS TypeOK OneOwner QueueHasOwner SpawnedOnce DeliveredRan EndIsReported
PROPERTIES OutcomeIsFinal
CHECK_DEADLOCK FALSE
