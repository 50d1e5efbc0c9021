SPECIFICATION FairSpec
CONSTANTS
    M = 16
    W = 3
    Start = 13
    Last = 16
    Gap = 1
    MaxInputs = 6
    Events = {"bar", "delba", "rejoin", "free", "early"}
CHECK_DEADLOCK FALSE
INVARIANT PendingGuarded
PROPERTY PendingLeaves
