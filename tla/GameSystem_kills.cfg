SPECIFICATION Spec
CONSTANTS
  Slot = {r1, r2}
  RoleId = {p1, p2}
  Session = {f1, f2}
  None = None
  Play = Play
  Logout = Logout
  CacheSize = 5
  MaxConn = 4
  MaxQueue = 3
  MaxCrash = 1
VIEW View
SYMMETRY Symmetry
INVARIANTS OldestFirst EveryRoleHasAWayOut NoImpersonation
PROPERTIES ActsAsWire
CHECK_DEADLOCK FALSE
