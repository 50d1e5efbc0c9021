SPECIFICATION Spec
CONSTANTS
  ReauthLimit = 0
  ReassocLimit = 0
  MaxRoam = 1
  MaxConnect = 2
  MaxDisconnect = 1
  MaxDrop = 0
  TimerRace = FALSE
  SlowCaller = FALSE
INVARIANTS TypeOK LinkingGuarded BeliefBacked
CHECK_DEADLOCK FALSE
