SPECIFICATION Spec
CONSTANTS
    Prior = {"zImage", "uInitrd", "uEnv.txt", "dtb"}
    MaxInstalls = 1
    MaxFaults = 1
    AllowForce = FALSE
    AllowLate = FALSE
    Resumes = TRUE
    WriteBack = TRUE
CHECK_DEADLOCK FALSE
INVARIANT BackupHoldsAccepted
