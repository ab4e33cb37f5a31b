SPECIFICATION FriendsSpec
CONSTANTS
  Id = {p1, p2, p3, p4}
  None = None
  Max = 3
INVARIANTS NoGaps Once
PROPERTIES KeepsRelations
