SPECIFICATION Spec
CONSTANTS
  ReauthLimit = 0
  ReassocLimit = 0
  MaxRoam = 0
  MaxConnect = 1
  MaxDisconnect = 0
  MaxDrop = 0
  TimerRace = TRUE
  SlowCaller = FALSE
PROPERTY LockReleased
CHECK_DEADLOCK FALSE
