SPECIFICATION Spec
CONSTANTS
    Fds = {3}
    ManyEvents = FALSE
    MaxIncoming = 1
PROPERTY
    AnyCloseIsNoticed
