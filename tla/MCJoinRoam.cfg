SPECIFICATION Spec
CONSTANTS
  ReauthLimit = 1
  ReassocLimit = 0
  MaxRoam = 2
  MaxConnect = 1
  MaxDisconnect = 0
  MaxDrop = 1
  TimerRace = FALSE
  SlowCaller = FALSE
INVARIANTS BeliefBacked
PROPERTIES Answered LinkSettles LinkUsable
CHECK_DEADLOCK FALSE
