SPECIFICATION Spec
CONSTANTS
    Fds = {3, 4}
    ManyEvents = TRUE
    MaxIncoming = 2
INVARIANTS
    TypeOK
    RegisteredIsOpen
    InterestsFollowStates
    ReconnectIsPossible
    AssertsHold
PROPERTIES
    ImplementsLink
    CloseIsNoticed
    TriesAgain
