SPECIFICATION FairSpec
CONSTANTS
    BufferSize = 3
    SocketSize = 2
    Lengths = {1, 2, 4}
    MaxBytes = 5
    MaxConnections = 2
PROPERTY
    ReconnectsOnceReachable
