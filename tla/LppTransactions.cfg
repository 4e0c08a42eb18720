SPECIFICATION Spec
CONSTANTS
    NumIds = 2
    QueueLimit = 1
    PushIds = {0}
    MaxGeneration = 3
    MaxMessages = 2
    MaxPayloads = 1
INVARIANTS
    TypeOK
    LookupSound
    ServerTransactionsReachable
    EndedTransactionsAreGone
    QueueEmptyOnceEstablished
    UnreachableOnlyAfterReuse
PROPERTIES
    NewTransactionsAreFresh
    ImplementsLink
