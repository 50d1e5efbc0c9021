SPECIFICATION Spec
CONSTANTS
    M = 16
    W = 3
    Start = 13
    Last = 20
    Gap = 2
    MaxInputs = 9
    Events = {}
CHECK_DEADLOCK FALSE
INVARIANTS TypeOK InOrder PendingInWindow LossBounded
PROPERTY DroppedIsStale
