-------------------------------- MODULE Fight --------------------------------
(* The fights of a role in the dice game: count_fight_result with the      *)
(* rounds it reports to the client, and what becomes of the role's health  *)
(* before, between and after them.  The role is the left rival, the        *)
(* monster the right one.  Strength, skill and luck are a choice.          *)
EXTENDS Integers

CONSTANTS
  MaxHp,     \* hp_max of the role
  FoeHp,     \* hp of the monsters
  Hurts,     \* what count_hurt returns
  Changes,   \* what cells of a board do to the health
  MaxRound   \* MAX_ROUND_PER_FIGHT

ASSUME FightAssumption ==
  /\ MaxHp \in Nat \ {0} /\ FoeHp \subseteq Nat \ {0}
  /\ Hurts \subseteq Nat /\ Changes \subseteq Int
  /\ MaxRound \in Nat \ {0}

VARIABLES
  pc,       \* "rest", in a "fight", or with its verdict "given"
  hp,       \* hp_cur of the role
  foe,      \* hp_cur of the monster
  turn,     \* left of the next round_data
  round,    \* rounds so far
  opening,  \* cur_hp of the two rival_data
  told,     \* the sums of the changes in the round_data, by side
  verdict   \* result, or "none" for no notify

fightVars == <<pc, hp, foe, turn, round, opening, told, verdict>>

Side  == {"left", "right"}
Other(s) == IF s = "left" THEN "right" ELSE "left"
Health == [left |-> hp, right |-> foe]

FightInit ==
  /\ pc = "rest"
  /\ hp = MaxHp /\ foe = 0
  /\ turn = "left" /\ round = 0
  /\ opening = [s \in Side |-> 0]
  /\ told = [s \in Side |-> 0]
  /\ verdict = "none"

-----------------------------------------------------------------------------
(* role_modify_hp, on a cell that heals or traps.                          *)
Bounded(h) == IF h < 0 THEN 0 ELSE IF h > MaxHp THEN MaxHp ELSE h

Change(n) ==
  /\ pc = "rest"
  /\ hp' = Bounded(hp + n)
  /\ UNCHANGED <<pc, foe, turn, round, opening, told, verdict>>

(* test_fight up to the first round; whether the role has any health left  *)
(* is not looked at.                                                       *)
Begin(h) ==
  /\ pc = "rest"
  /\ pc' = "fight"
  /\ foe' = h
  /\ turn' \in Side
  /\ round' = 0
  /\ opening' = [left |-> hp, right |-> h]
  /\ told' = [s \in Side |-> 0]
  /\ verdict' = "none"
  /\ UNCHANGED hp

(* How the round of side s ends, with hurts as they are after parrying,    *)
(* critical hits and halving: the other side is missed, or falls, or       *)
(* stands and may strike back.                                             *)
OutcomesBothStrike(s) ==                           \* mutant: a fallen side strikes back
  {[struck |-> a, back |-> b, over |-> Health[Other(s)] - a <= 0] : a, b \in Hurts}
Outcomes(s) ==
  LET Left(a) == Health[Other(s)] - a
  IN  {[struck |-> a, back |-> 0, over |-> Left(a) <= 0] : a \in Hurts}
      \cup {[struck |-> 0, back |-> 0, over |-> FALSE]}
      \cup {[struck |-> a, back |-> b, over |-> Health[s] - b <= 0] :
              a \in {x \in Hurts : Left(x) > 0}, b \in Hurts}

(* The changes of health a round reports: rattr_value or lattr_value, and  *)
(* counterattack_hp_delta.                                                 *)
ReportOfActor(s, o) == [t \in Side |-> IF t = s THEN -o.struck ELSE -o.back]   \* mutant: the wrong side
Report(s, o) == [t \in Side |-> IF t = s THEN -o.back ELSE -o.struck]

(* The end of count_fight_result: who wins is decided by the left side.    *)
Verdict(h) == IF h[1] <= 0 THEN "right" ELSE "left"

(* After a round that ended the fight, the last round, or any other.       *)
GoOn(o, h) ==
  IF o.over THEN pc' = "given" /\ verdict' = Verdict(h)
  ELSE /\ pc' = IF round + 1 < MaxRound THEN "fight" ELSE "given"
       /\ verdict' = "none"

(* count_round_result, and the loop around it.                             *)
Round ==
  /\ pc = "fight"
  /\ \E o \in Outcomes(turn) :
       /\ hp' = hp - (IF turn = "left" THEN o.back ELSE o.struck)
       /\ foe' = foe - (IF turn = "left" THEN o.struck ELSE o.back)
       /\ told' = [s \in Side |-> told[s] + Report(turn, o)[s]]
       /\ GoOn(o, <<hp', foe'>>)
  /\ round' = round + 1
  /\ turn' = Other(turn)
  /\ UNCHANGED opening

(* The end of test_fight: the role is well again, whatever the verdict.    *)
Recover ==
  /\ pc = "given"
  /\ pc' = "rest"
  /\ hp' = MaxHp
  /\ UNCHANGED <<foe, turn, round, opening, told, verdict>>

(* reset_one_role_attribute: a new level.                                  *)
LevelUp ==
  /\ pc = "rest"
  /\ hp' = MaxHp
  /\ UNCHANGED <<pc, foe, turn, round, opening, told, verdict>>

FightNext ==
  \/ \E n \in Changes : Change(n)
  \/ \E h \in FoeHp : Begin(h)
  \/ Round \/ Recover \/ LevelUp

FightSpec == FightInit /\ [][FightNext]_fightVars

-----------------------------------------------------------------------------
(* The types; nobody has more health than the maximum.                     *)
FightTypeOK ==
  /\ pc \in {"rest", "fight", "given"}
  /\ hp \in Int /\ hp <= MaxHp /\ foe \in Int
  /\ turn \in Side
  /\ round \in 0 .. MaxRound
  /\ opening \in [Side -> Int] /\ told \in [Side -> Int]
  /\ verdict \in Side \cup {"none"}

(* What the client is shown, round by round from the opening, ends with    *)
(* the health the server counted with (counterattack_hp_delta modulo 2^32).*)
ReplayAgrees ==
  pc # "rest" => \A s \in Side : opening[s] + told[s] = Health[s]

(* The verdict goes to the side that still stands, and there is none only  *)
(* when both do after the last round.  A role that a trap has left without *)
(* health fights all the same, and loses also when it kills the monster.   *)
VerdictStands ==
  pc = "given" =>
    /\ verdict = "left" => hp > 0 /\ foe <= 0
    /\ verdict = "right" => hp <= 0 /\ (foe > 0 \/ opening.left = 0)
    /\ verdict = "none" =>
         round = MaxRound /\ foe > 0 /\ (hp > 0 \/ opening.left = 0)

(* Nobody who has fallen goes on fighting.                                 *)
FallenRest ==
  [][round' = round + 1 => foe > 0 /\ (hp > 0 \/ opening.left = 0)]_fightVars
=============================================================================
