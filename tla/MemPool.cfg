SPECIFICATION Spec
CONSTANTS
  N = 3
  MaxKill = 2
INVARIANTS KillIsSurvived ListsExact
PROPERTIES KeepsHolders
CHECK_DEADLOCK FALSE
