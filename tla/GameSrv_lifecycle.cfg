SPECIFICATION Spec
CONSTANTS
  Slot = {r1, r2}
  RoleId = {p1, p2}
  Session = {c1, c2}
  Area <- TwoAreas
  Scene = {s1}
  RetiredScene = {}
  StartScene = s1
  Bag = {b1, b2}
  Instance = {i1}
  None = None
  MaxRolePerScene = 2
  MaxMoney = 0
  MaxPending = 2
  MaxCrash = 1
VIEW View
SYMMETRY Symmetry
INVARIANTS IndexInv OwnersInv
PROPERTIES TableSpec
CHECK_DEADLOCK FALSE
