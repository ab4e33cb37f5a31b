SPECIFICATION FairLink
CONSTANTS
  CacheSize = 2
  MaxProc = 3
  MaxAsked = 6
INVARIANTS OldestFirst
PROPERTIES Answered SlotFreed
CHECK_DEADLOCK FALSE
