SPECIFICATION DungeonSpec
CONSTANTS
  start = start
  wolf = wolf
  gate = gate
  back = back
  lair = lair
  Cell <- Board
  Start = start
  Kind <- What
  Around <- Near
  Back <- Sends
  Faces = {1, 2}
  ItemDice = {0, 3}
  Nowhere = nowhere
  MaxPath = 3
  MaxSteps = 4
  MaxHp = 3
  FoeHp = {1, 3}
  Hurts = {0, 1, 2}
  Changes <- Heals
  MaxRound = 3
VIEW View
INVARIANTS EventsOnce AwardIsEarned ReplayAgrees VerdictStands
PROPERTIES BeatenInAFight
