SPECIFICATION Spec
CONSTANTS
  ReauthLimit = 0
  ReassocLimit = 0
  MaxRoam = 0
  MaxConnect = 1
  MaxDisconnect = 1
  MaxDrop = 0
  TimerRace = FALSE
  SlowCaller = FALSE
INVARIANT Backed
CHECK_DEADLOCK FALSE
