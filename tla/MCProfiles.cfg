SPECIFICATION Spec
CHECK_DEADLOCK FALSE
CONSTANTS
  amy = amy
  ben = ben
  team = team
  m1 = m1
  m2 = m2
  n1 = n1
  n2 = n2
  n3 = n3
  google = google
  github = github
  r1 = r1
  r2 = r2
  Accounts = {amy, ben}
  Groups = {team}
  Emails = {m1, m2}
  Names = {n1, n2}
  Root <- SameRoot
  Providers = {google, github}
  Identities = {i1}
  Requests = {r1, r2}
  MaxPhotos = 3
  None = none
INVARIANTS
  TypeOK
  OneOwner
  ShownPhotoExists
PROPERTIES
  LinksStay
