SPECIFICATION Spec
CONSTANTS
    NumIds = 2
    QueueLimit = 1
    PushIds = {}
    MaxGeneration = 3
    MaxMessages = 2
    MaxPayloads = 1
INVARIANT LiveTransactionsReachable
