SPECIFICATION Spec
CONSTANTS
    Timers = {"t"}
    Queues = {"q"}
    Sources = {"s"}
    NumSlots = 3
    GenModulus = 65536
    FirstGens = {65534}
    EventCount = 3
    QueueSize = 2
    PerWaits = {1, 2}
    MaxSteps = 5
INVARIANTS
    TypeOK
    PoolAgrees
    DeferredBeforeWait
    DeferredCancelsFindTheirTask
    QueueCountsAgree
PROPERTY
    EventsReachTheirRegistration
CHECK_DEADLOCK FALSE
