SPECIFICATION Spec
CONSTANTS
    MaxRequests = 3
    MaxProgress = 1
    MaxFaults = 2
CHECK_DEADLOCK FALSE
INVARIANTS
    LockedWhileAlive
    OwnResult
PROPERTIES
    CancelEnds
