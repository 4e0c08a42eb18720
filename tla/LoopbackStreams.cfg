SPECIFICATION LoopSpec
CONSTANTS
    BufferSize = 3
    SocketSize = 2
    Lengths = {1, 2, 4}
    MaxBytes = 5
    MaxConnections = 2
    Fds = {5, 6}
    MaxBacklog = 2
INVARIANTS
    StreamFollowsTask
    BytesInOrder
    BufferedBytesHaveAnEvent
    RemovalsFindTheirClient
PROPERTIES
    ReconnectsWhenPossible
    GoneClientsAreRemoved
