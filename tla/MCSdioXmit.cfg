SPECIFICATION FairSpec
CONSTANTS
    Stations = {s1, s2}
    NrFrame = 2
    NrBuf = 1
    NrExt = 1
    StopAt = 1
    DedicatedPages = 1
    PublicPages = 1
    DivNum = 1
    OqtMax = 3
    Busy = TRUE
    WaitBelow = 5
    Lps = TRUE
    MaxPkt = 3
    MaxMgnt = 0
    MaxScan = 1
    MaxFree = 0
    Unload = FALSE
    Acs <- OneAc
CHECK_DEADLOCK FALSE
INVARIANTS TypeOK Conserved StoppedHasPacket
PROPERTY Drains
