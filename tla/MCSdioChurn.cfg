SPECIFICATION FairSpec
CONSTANTS
    Stations = {s1}
    NrFrame = 2
    NrBuf = 2
    NrExt = 1
    StopAt = 1
    DedicatedPages = 0
    PublicPages = 1
    DivNum = 1
    OqtMax = 2
    Busy = FALSE
    WaitBelow = 5
    Lps = TRUE
    MaxPkt = 2
    MaxMgnt = 1
    MaxScan = 0
    MaxFree = 1
    Unload = TRUE
    Acs <- OneAc
CHECK_DEADLOCK FALSE
INVARIANTS SemaMatches PagesCovered InOrder
PROPERTY StopEnds
