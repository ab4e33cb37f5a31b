SPECIFICATION FairSpec
CONSTANTS
  Length = {2, 3, 5}
  Header = 2
  Space = 6
  Reserve = 1
  Socket = 4
  MaxSent = 4
INVARIANTS Framed NothingLost
PROPERTIES Delivered
CHECK_DEADLOCK FALSE
