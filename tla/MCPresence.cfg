SPECIFICATION FairSpec
CHECK_DEADLOCK FALSE
CONSTANTS
  MaxSockets = 2
  MaxBeats = 1
  MaxCrashes = 1
INVARIANTS
  CountIsExact
PROPERTIES
  NotTakenForGone
  LeftCallEnds
  
