CONSTANTS
    Ceiling = 15
    DownAfter = 30
    MinFailures = 4
    ReadTimeout = 5
    MaxFailures = 7
    MaxStarts = 2
SPECIFICATION FairSpec
INVARIANTS
    TypeOK
    SocketsAreAccounted
PROPERTIES
    DownIsEarned
    Reconnects
CHECK_DEADLOCK FALSE
