SPECIFICATION Spec
CONSTANTS
  Role = {r1, r2, r3}
  Scene = {s1, s2}
  Pos = {0, 1}
  Fd = {f1, f2, f3}
  None = None
  Enter = 0
  Cap = 2
  MaxRequest = 1
  MaxWire = 1
  MaxFault = 1
SYMMETRY Symmetry
INVARIANTS SightExact
