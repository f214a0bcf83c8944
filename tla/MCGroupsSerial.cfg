SPECIFICATION Spec
CHECK_DEADLOCK FALSE
CONSTANTS
  amy = amy
  ben = ben
  cal = cal
  dan = dan
  eve = eve
  Users = {amy, ben, cal, dan, eve}
  Founders <- Four
  Callers = {amy, ben, eve}
  Deleters = {amy, ben}
  Requests = {r1}
  Overlap = "none"
  MaxPosts = 3
  None = none
INVARIANTS
  OneEntryPerUser
  UnreadExact
PROPERTIES
  RejoinIsPlain
