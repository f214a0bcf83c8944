SPECIFICATION Spec
CHECK_DEADLOCK FALSE
CONSTANTS
  amy = amy
  ben = ben
  cal = cal
  Members = {amy, ben}
  Private = {ben}
  Emoji = {heart}
  Requests = {r1, r2}
  MaxMessages = 2
  MaxBegun = 3
  Uploads <- Sent
  FilesMax = 2
  None = none
SYMMETRY RequestSymmetry
INVARIANTS
  TypeOK
  NoDuplicates
  
PROPERTIES
  ImplementsBoard
  
