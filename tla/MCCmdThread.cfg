SPECIFICATION FairSpec
CONSTANTS
    Lps = TRUE
    MaxLost = 0
    MaxSema = 2
    Clients = {k1}
    MaxCmds = 2
    MaxStops = 0
    Ips = TRUE
    Signals = FALSE
CHECK_DEADLOCK FALSE
INVARIANTS TypeOK SctxLive WaiterSafe Fifo FirmwareAwake
PROPERTIES ImplementsQueue CommandsFinish
