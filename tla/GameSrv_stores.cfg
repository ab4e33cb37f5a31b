SPECIFICATION FairSpec
CONSTANTS
  Slot = {r1, r2}
  RoleId = {p1}
  Session = {c1}
  Area <- OneArea
  Scene = {s1}
  RetiredScene = {x1}
  StartScene = s1
  Bag = {b1, b2}
  Instance = {}
  None = None
  MaxRolePerScene = 2
  MaxMoney = 1
  MaxPending = 2
  MaxCrash = 0
INVARIANTS LoadIsFresh
PROPERTIES StoredOnRelease LoadEnds
CHECK_DEADLOCK FALSE
