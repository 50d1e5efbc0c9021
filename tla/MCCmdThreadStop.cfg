SPECIFICATION FairSpec
CONSTANTS
    Lps = FALSE
    MaxLost = 0
    MaxSema = 4
    Clients = {k1, k2}
    MaxCmds = 2
    MaxStops = 2
    Ips = TRUE
    Signals = TRUE
CHECK_DEADLOCK FALSE
INVARIANTS SctxLive WaiterSafe
PROPERTIES ImplementsQueue StopEnds
