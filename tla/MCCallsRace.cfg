SPECIFICATION FairSpec
CONSTANTS
  ann = ann
  bob = bob
  cat = cat
  duo = duo
  trio = trio
  Users = {ann, bob}
  Chats = {duo}
  Groups = {}
  Members <- DirectOnly
  CallIds = {c1}
  Requests = {r1, r2}
  Timer = timer
  None = none
  Overlap = TRUE
  MaxCrashes = 1
INVARIANTS
  ConcludedIsComplete
  AnsweredIsBacked
  
PROPERTIES
  RingResolves
  ConclusionTold
