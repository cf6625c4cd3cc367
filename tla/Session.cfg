SPECIFICATION FairSpec
CONSTANTS
    MaxConnections = 6
INVARIANTS
    TypeOK
    StackAlive
    SocketsOwned
    KeyCurrent
    ScreensAgree
PROPERTIES
    FailureIsFinal
    LoginEnds
    LossReported
CHECK_DEADLOCK FALSE
