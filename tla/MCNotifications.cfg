SPECIFICATION FairSpec
CONSTANTS
  amy = amy
  ben = ben
  Users = {amy, ben}
  Callers = {amy}
  Requests = {r1, r2}
  MaxRows = 2
  MaxPatches = 1
  MaxCrashes = 1
  None = none
INVARIANTS
  DigestBalance
  BadgeIsTrue
PROPERTIES
  CountedIsTaken
