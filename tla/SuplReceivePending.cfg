SPECIFICATION Spec
CONSTANTS
    BufferSize = 4
    Lengths = {1, 3}
    Kinds = {"RESPONSE", "POS"}
    RecordSize = 3
    SocketSize = 4
    MaxMessages = 3
    MaxSends = 0
INVARIANT
    NothingLeftInTls
CHECK_DEADLOCK FALSE
