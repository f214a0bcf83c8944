SPECIFICATION Spec
CHECK_DEADLOCK FALSE
CONSTANTS
  amy = amy
  ben = ben
  cal = cal
  dan = dan
  eve = eve
  Users = {amy, ben, cal, dan, eve}
  Founders <- Four
  Callers = {amy, ben}
  Deleters = {}
  Requests = {r1, r2}
  Overlap = "traffic"
  MaxPosts = 3
  None = none
SYMMETRY RequestSymmetry
INVARIANTS
  TypeOK
  AdminRemains
PROPERTIES
  ImplementsRoster
