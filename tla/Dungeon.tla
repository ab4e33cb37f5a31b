------------------------------- MODULE Dungeon -------------------------------
(* The board of an instance together with the health and the fights of the *)
(* role on it: what do_instance_action does on a cell is a fight, a change *)
(* of health, or neither, and only a fight the role wins counts as beaten  *)
(* on the board.                                                           *)
EXTENDS DiceGame, Fight

dungeonVars == <<vars, fightVars>>

DungeonInit == Init /\ FightInit

(* Every request is handled between fights: the server has one thread.     *)
AtRest == pc = "rest" /\ UNCHANGED fightVars

(* The requests that leave the role's health alone.                        *)
Play ==
  /\ AtRest
  /\ \/ Enter \/ Leave \/ UseNowar \/ Claim
     \/ \E n \in Faces : Throw(n)
     \/ \E n \in ItemDice : Prepare(n) \/ UseDice(n)
     \/ \E path \in Paths : Move(path)

(* A stop on a cell that heals or traps.                                   *)
HealOrTrap(n) ==
  /\ event[game.at] = "heal"
  /\ Stop(FALSE)
  /\ Change(n)

(* A stop where neither a fight nor a change of health takes place.        *)
Quiet ==
  /\ event[game.at] # "heal"
  /\ inside /\ Stays.dice = 0
  /\ Undergo \/ SentBack \/ NothingThere
  /\ UNCHANGED <<inside, awards, walked>>
  /\ AtRest

(* A stop at a monster: do_instance_action calls test_fight.               *)
Meet(h) ==
  /\ inside /\ Stays.dice = 0
  /\ \/ event[game.at] = "boss"
     \/ event[game.at] = "fight" /\ game.nowar = 0
  /\ Begin(h)
  /\ UNCHANGED vars

Exchange == Round /\ UNCHANGED vars

(* test_fight returns, and do_instance_action goes by the verdict; a fight *)
(* without one has no notify and counts as lost.                           *)
ConcludeAlways ==                                  \* mutant: a fight without a verdict is won
  /\ Recover
  /\ Stop(verdict # "right")
Conclude ==
  /\ Recover
  /\ Stop(verdict = "left")

Grow == LevelUp /\ UNCHANGED vars

DungeonNext ==
  \/ Play \/ Quiet \/ Exchange \/ Conclude \/ Grow
  \/ \E n \in Changes : HealOrTrap(n)
  \/ \E h \in FoeHp : Meet(h)

DungeonSpec == DungeonInit /\ [][DungeonNext]_dungeonVars

-----------------------------------------------------------------------------
(* A monster counts as beaten only when the client was shown its health    *)
(* run out in that fight, while the role's did not (do_instance_action     *)
(* reads the result that count_fight_result wrote).                        *)
BeatenInAFight ==
  [][beaten' # beaten /\ beaten' # {} =>
       /\ pc = "given" /\ opening.right + told.right <= 0
       /\ opening.left + told.left > 0]_dungeonVars
=============================================================================
