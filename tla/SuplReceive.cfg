SPECIFICATION Spec
CONSTANTS
    BufferSize = 6
    Lengths = {1, 3}
    Kinds = {"RESPONSE", "POS", "END", "foreign", "malformed"}
    RecordSize = 3
    SocketSize = 4
    MaxMessages = 3
    MaxSends = 1
INVARIANTS
    NothingLeftInTls
PROPERTIES
    ImplementsFifo
    EverythingIsHandled
CHECK_DEADLOCK FALSE
