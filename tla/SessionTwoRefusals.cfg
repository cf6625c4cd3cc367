SPECIFICATION Spec
CONSTANTS
    MaxConnections = 3
PROPERTIES
    RefusalIsFinal
CHECK_DEADLOCK FALSE
