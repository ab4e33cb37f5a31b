SPECIFICATION OrderlySpec
CONSTANTS
  Slot = {r1, r2}
  RoleId = {p1, p2}
  Session = {c1, c2, c3}
  Area <- OneArea
  Scene = {s1, s2}
  RetiredScene = {x1}
  StartScene = s1
  Bag = {b1, b2}
  Instance = {i1}
  None = None
  MaxRolePerScene = 1
  MaxMoney = 1
  MaxPending = 3
  MaxCrash = 1
VIEW View
SYMMETRY Symmetry
INVARIANTS ScenesExact NothingLeaks LoadsOnce
PROPERTIES KeepsAccounts
CHECK_DEADLOCK FALSE
