SPECIFICATION QuestSpec
CONSTANTS
  Role = {r1, r2}
  sword = sword
  herb = herb
  wolf = wolf
  Item <- Kinds
  Wearable <- Worn
  StackAble <- Stacks
  Gift <- Gifts
  Monster = {wolf}
  KillNpc <- Kills
  Collect <- Collects
  Award <- Awards
  Money <- Pays
  PoolSize = 3
  Size = 2
  None = None
  MaxNum = 2
  Last = 3
  Quester = {r1}
  MaxQuest = 2
  MaxKill = 1
INVARIANTS PoolExact PaidOnce
PROPERTIES GiftsAreWhole NothingVanishes CountsFollowTheBag NoKillNoReward
