SPECIFICATION FairSpec
CHECK_DEADLOCK FALSE
CONSTANTS
  Requests = {r1, r2}
  Overlap = FALSE
  MaxSessions = 2
  MaxSockets = 1
  MaxResets = 2
INVARIANTS
  ShutOut
  KickedOut
  ResetRevokes
PROPERTIES
  KeptOut
