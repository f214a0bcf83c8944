SPECIFICATION FairSpec
CHECK_DEADLOCK FALSE
CONSTANTS
  amy = amy
  ben = ben
  Users = {amy, ben}
  Requests = {r1, r2}
  Overlap = {"block", "unblock"}
  MaxPosts = 1
  None = none
INVARIANTS
  TypeOK
  BlockedHaveNoContact
  CacheIsTrue
PROPERTIES
  BlockTakesHold
  OnlyLeftChatsPassBlocks
