SPECIFICATION Spec
CONSTANTS
    Capacity = 8
    MaxLine = 3
    MaxPayload = 1
    MaxItems = 3
INVARIANTS
    PushedInOrder
    EveryFrameIsAccountedFor
    NeverStuck
CHECK_DEADLOCK FALSE
