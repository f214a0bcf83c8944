SPECIFICATION Spec
CONSTANTS
  ann = ann
  bob = bob
  cat = cat
  duo = duo
  trio = trio
  Users = {ann, bob, cat}
  Chats = {duo, trio}
  Groups = {trio}
  Members <- GroupAndDirect
  CallIds = {c1, c2}
  Requests = {r1}
  Timer = timer
  None = none
  Overlap = FALSE
  MaxCrashes = 0
SYMMETRY PairSymmetry
INVARIANTS
  OneSeatPerUser
  LogMatches
PROPERTIES
  ImplementsLines
