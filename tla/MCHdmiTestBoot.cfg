SPECIFICATION FairSpec
CONSTANTS
    Prior = {"zImage", "uEnv.txt", "dtb"}
    MaxInstalls = 2
    MaxFaults = 2
    AllowForce = FALSE
    AllowLate = FALSE
    Resumes = TRUE
    WriteBack = FALSE
CHECK_DEADLOCK FALSE
INVARIANTS TypeOK TestArmed BackupHoldsAccepted
PROPERTIES ConfirmedKept RollbackHappens
