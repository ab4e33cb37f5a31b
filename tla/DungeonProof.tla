---------------------------- MODULE DungeonProof -----------------------------
(* Theorems about the board (DiceGame), for every board, every path and    *)
(* every order of requests; about the fights (Fight), for every strength   *)
(* of the rivals and every number of rounds; and about Dungeon, which is   *)
(* both at once, so that whatever is proved of either holds in it.         *)
EXTENDS Dungeon, TLAPS

(***************************************************************************)
(* The board.                                                              *)
(***************************************************************************)

(* The event of a cell is the one of the map until it took place.          *)
OnlyCleared == \A c \in Cell : event[c] \in {Kind[c], "null"}

IInv == TypeOK /\ OnlyCleared /\ EventsOnce /\ AwardIsEarned /\ StepsArePaid

-----------------------------------------------------------------------------
(* A request names at least one cell, and all but the last are cells of    *)
(* the map.                                                                *)
LEMMA PathShape ==
  ASSUME NEW path \in Paths
  PROVE  /\ Len(path) \in Nat \ {0}
         /\ \A i \in 1 .. Len(path) - 1 : path[i] \in Cell
<1>1. PICK n \in 0 .. MaxPath - 1 : \E p \in [1 .. n -> Cell], c \in Cell \cup {Nowhere} : path = Append(p, c)
  BY DEF Paths
<1>2. PICK p \in [1 .. n -> Cell], c \in Cell \cup {Nowhere} : path = Append(p, c)
  BY <1>1
<1>3. n \in Nat
  BY DiceAssumption
<1>4. p \in Seq(Cell) /\ Len(p) = n
  BY <1>3
<1>5. Len(path) = n + 1 /\ \A i \in 1 .. n : path[i] = p[i]
  BY <1>2, <1>4
<1> QED BY <1>3, <1>4, <1>5

(* A path that is walked ends on a cell.                                   *)
LEMMA WalkEnds ==
  ASSUME TypeOK, NEW path \in Paths, IsPath(path), ~Jumps(path)
  PROVE  path[Len(path)] \in Cell
<1>1. Len(path) \in Nat \ {0} /\ \A i \in 1 .. Len(path) - 1 : path[i] \in Cell
  BY PathShape
<1> DEFINE n == Len(path)
<1>2. n \in Nat \ {0} /\ \A i \in 1 .. n - 1 : path[i] \in Cell
  BY <1>1
<1>3. path[n] \in Around[Before(path, n)]
  BY <1>1 DEF IsPath, IsStep, Jumps
<1>4. game.at \in Cell
  BY DEF TypeOK, Data
<1> HIDE DEF n
<1>5. Before(path, n) \in Cell
  BY <1>2, <1>4 DEF Before
<1>6. path[n] \in Cell
  BY <1>3, <1>5, DiceAssumption
<1> QED BY <1>6 DEF n

(* A move changes the position, the dice and the mark of a pending event,  *)
(* as far as IInv is concerned.                                            *)
LEMMA NewPosition ==
  ASSUME TypeOK, NEW c \in Cell, NEW d \in Nat,
         game' = [game EXCEPT !.at = c, !.pending = TRUE, !.dice = d]
  PROVE  /\ game' \in Data
         /\ game'.dice = d /\ game'.finished = game.finished
BY DEF TypeOK, Data

LEMMA MoveKeeps ==
  ASSUME IInv, NEW path \in Paths, Move(path)
  PROVE  IInv'
<1>1. Len(path) \in Nat \ {0}
  BY PathShape
<1>2. TypeOK /\ game.dice \in Nat
  BY DEF IInv, TypeOK, Data
<1>3. /\ game' \in Data /\ game'.finished = game.finished
      /\ granted' \in Nat /\ walked' \in Nat
      /\ walked' + game'.dice <= granted'
  <2> DEFINE n == Len(path)
  <2>1. n \in Nat
    BY <1>1
  <2>2. CASE Walk(path)
    <3>1. path[n] \in Cell
      BY <1>2, <2>2, WalkEnds DEF Move, Walk
    <3>2. /\ n <= game.dice /\ walked' = walked + n /\ granted' = granted
          /\ game' = [game EXCEPT !.at = path[n], !.pending = TRUE, !.dice = game.dice - n]
      BY <2>2 DEF Walk
    <3> HIDE DEF n
    <3>3. game.dice - n \in Nat
      BY <1>2, <2>1, <3>2
    <3>4. game' \in Data /\ game'.dice = game.dice - n /\ game'.finished = game.finished
      BY <1>2, <3>1, <3>2, <3>3, NewPosition
    <3> QED BY <1>2, <2>1, <3>2, <3>4 DEF IInv, TypeOK, StepsArePaid
  <2>3. CASE Jump(path) /\ path[n] \in Cell
    <3>1. /\ game' = [game EXCEPT !.at = path[n], !.pending = TRUE, !.dice = 0]
          /\ granted' = granted /\ walked' = walked
      BY <2>3 DEF Jump
    <3>2. game' \in Data /\ game'.dice = 0 /\ game'.finished = game.finished
      BY <1>2, <2>3, <3>1, NewPosition
    <3> QED BY <1>2, <3>1, <3>2 DEF IInv, TypeOK, StepsArePaid
  <2>4. CASE Jump(path) /\ path[n] \notin Cell
    <3>1. /\ game' = [game EXCEPT !.dice = n]
          /\ granted' = granted + n /\ walked' = walked
      BY <2>4 DEF Jump, Grant
    <3> HIDE DEF n
    <3>2. game' \in Data /\ game'.dice = n /\ game'.finished = game.finished
      BY <1>2, <2>1, <3>1 DEF TypeOK, Data
    <3> QED BY <1>2, <2>1, <3>1, <3>2 DEF IInv, TypeOK, StepsArePaid
  <2> QED BY <2>2, <2>3, <2>4 DEF Move
<1>4. UNCHANGED <<inside, event, met, beaten, awards>>
  BY DEF Move
<1> QED BY <1>3, <1>4 DEF IInv, TypeOK, OnlyCleared, EventsOnce, AwardIsEarned, StepsArePaid, Boss

(* Every way to stop takes the dice first and ends in Rested.              *)
LEMMA Resting ==
  ASSUME NEW g \in Data
  PROVE  /\ Rested(g) \in Data /\ Done(g) \in Data
         /\ Rested(g).dice = g.dice /\ Rested(g).finished = g.finished
         /\ Done(g).dice = g.dice /\ Done(g).finished = g.finished
<1> DEFINE k == IF g.nowar > 0 THEN g.nowar - 1 ELSE 0
<1>1. k \in 0 .. 3
  BY DEF Data
<1> HIDE DEF k
<1>2. Rested(g) = [g EXCEPT !.nowar = k]
  BY DEF Rested, k
<1>3. /\ Rested(g) \in Data
      /\ Rested(g).dice = g.dice /\ Rested(g).finished = g.finished
  BY <1>1, <1>2 DEF Data
<1>4. Done(g) = [Rested(g) EXCEPT !.pending = FALSE]
  BY DEF Done
<1>5. /\ Done(g) \in Data
      /\ Done(g).dice = Rested(g).dice /\ Done(g).finished = Rested(g).finished
  BY <1>3, <1>4 DEF Data
<1> QED BY <1>3, <1>5

(* The event of a cell takes place and is cleared.                         *)
LEMMA Happens ==
  ASSUME IInv, NEW c \in Cell, event[c] # "null",
         met' = [met EXCEPT ![c] = @ + 1], event' = [event EXCEPT ![c] = "null"],
         beaten' \in {beaten, beaten \cup {c}}
  PROVE  /\ event[c] = Kind[c]
         /\ met' \in [Cell -> Nat] /\ event' \in [Cell -> Kinds] /\ beaten' \subseteq Cell
         /\ OnlyCleared' /\ EventsOnce'
<1>1. event[c] = Kind[c]
  BY DEF IInv, OnlyCleared
<1>2. met \in [Cell -> Nat] /\ event \in [Cell -> Kinds] /\ beaten \subseteq Cell
  BY DEF IInv, TypeOK
<1>3. met[c] = 0
  BY <1>1, <1>2 DEF IInv, EventsOnce
<1>4. met' = [met EXCEPT ![c] = 1]
  BY <1>2, <1>3
<1>5. OnlyCleared'
  BY <1>2 DEF IInv, OnlyCleared
<1>6. EventsOnce'
  BY <1>1, <1>2, <1>4 DEF IInv, EventsOnce
<1> QED BY <1>1, <1>2, <1>4, <1>5, <1>6 DEF Kinds

LEMMA StopKeeps ==
  ASSUME IInv, NEW won \in BOOLEAN, Stop(won)
  PROVE  IInv'
<1>1. /\ Stays \in Data /\ Stays.finished = game.finished /\ Stays.dice = 0
      /\ walked' = walked /\ inside' = inside /\ awards' = awards
  BY DEF IInv, TypeOK, Data, Stop, Stays
<1>2. game.at \in Cell /\ walked \in Nat /\ granted \in Nat /\ walked <= granted
  BY DEF IInv, TypeOK, Data, StepsArePaid
<1>3. CASE Fought(won)
  <2> DEFINE f == game.finished \/ (won /\ event[game.at] = "boss")
             g == [Stays EXCEPT !.finished = f]
  <2>1. game' = Done(g)
    BY <1>1, <1>3 DEF Fought
  <2>2. g \in Data /\ g.dice = 0 /\ g.finished = f
    BY <1>1 DEF Data, IInv, TypeOK
  <2>3. game' \in Data /\ game'.dice = 0 /\ game'.finished = f
    BY <2>1, <2>2, Resting
  <2>4. /\ event[game.at] # "null" /\ granted' = granted
        /\ beaten' = IF won THEN beaten \cup {game.at} ELSE beaten
    BY <1>3 DEF Fought
  <2>5. /\ event[game.at] = Kind[game.at]
        /\ met' \in [Cell -> Nat] /\ event' \in [Cell -> Kinds] /\ beaten' \subseteq Cell
        /\ OnlyCleared' /\ EventsOnce'
    BY <1>2, <1>3, <2>4, Happens DEF Fought, Cleared
  <2>6. f <=> Boss \cap beaten' # {}
    BY <1>2, <2>4, <2>5 DEF IInv, AwardIsEarned, Boss
  <2>7. AwardIsEarned'
    BY <1>1, <2>3, <2>6 DEF IInv, AwardIsEarned, Boss
  <2> HIDE DEF f, g
  <2>8. TypeOK' /\ StepsArePaid'
    BY <1>1, <1>2, <2>3, <2>4, <2>5 DEF IInv, TypeOK, StepsArePaid
  <2> QED BY <2>5, <2>7, <2>8 DEF IInv
<1>4. CASE Undergo
  <2>1. game' \in Data /\ game'.dice = 0 /\ game'.finished = game.finished
    BY <1>1, <1>4, Resting DEF Undergo
  <2>2. beaten' = beaten /\ granted' = granted
    BY <1>4 DEF Undergo
  <2>3. /\ met' \in [Cell -> Nat] /\ event' \in [Cell -> Kinds]
        /\ OnlyCleared' /\ EventsOnce'
    BY <1>2, <1>4, Happens DEF Undergo, Cleared
  <2> QED BY <1>1, <1>2, <2>1, <2>2, <2>3 DEF IInv, TypeOK, AwardIsEarned, StepsArePaid, Boss
<1>5. CASE SentBack
  <2> DEFINE g == [Stays EXCEPT !.dice = Back[game.at]]
  <2>1. Back[game.at] \in Nat
    BY <1>2, DiceAssumption
  <2>2. g \in Data /\ g.dice = Back[game.at] /\ g.finished = game.finished
    BY <1>1, <2>1 DEF Data
  <2>3. game' = Done(g)
    BY <1>5 DEF SentBack
  <2>4. game' \in Data /\ game'.dice = Back[game.at] /\ game'.finished = game.finished
    BY <2>2, <2>3, Resting
  <2>5. beaten' = beaten /\ granted' = granted + Back[game.at]
    BY <1>5 DEF SentBack, Grant
  <2>6. /\ met' \in [Cell -> Nat] /\ event' \in [Cell -> Kinds]
        /\ OnlyCleared' /\ EventsOnce'
    BY <1>2, <1>5, Happens DEF SentBack, Cleared
  <2>7. StepsArePaid' /\ granted' \in Nat
    BY <1>1, <1>2, <2>1, <2>4, <2>5 DEF StepsArePaid
  <2> QED BY <1>1, <1>2, <2>4, <2>5, <2>6, <2>7 DEF IInv, TypeOK, AwardIsEarned, Boss
<1>6. CASE NothingThere
  <2>1. game' \in Data /\ game'.dice = 0 /\ game'.finished = game.finished
    BY <1>1, <1>6, Resting DEF NothingThere
  <2> QED BY <1>1, <1>2, <1>6, <2>1
          DEF IInv, TypeOK, OnlyCleared, EventsOnce, AwardIsEarned, StepsArePaid, NothingThere, Boss
<1> QED BY <1>3, <1>4, <1>5, <1>6 DEF Stop

LEMMA FreshData == Fresh \in Data /\ Fresh.dice = 0 /\ Fresh.finished = FALSE
BY DiceAssumption DEF Fresh, Data

LEMMA InitHolds == Init => IInv
<1> SUFFICES ASSUME Init PROVE IInv
  OBVIOUS
<1> USE DEF Init
<1>1. TypeOK
  BY DiceAssumption, FreshData DEF TypeOK
<1>2. OnlyCleared /\ EventsOnce
  BY DEF OnlyCleared, EventsOnce
<1>3. AwardIsEarned
  BY FreshData DEF AwardIsEarned
<1>4. StepsArePaid
  BY FreshData DEF StepsArePaid
<1> QED BY <1>1, <1>2, <1>3, <1>4 DEF IInv

LEMMA StepKeeps ==
  ASSUME IInv, [Next]_vars
  PROVE  IInv'
<1>1. CASE Enter
  <2>1. /\ inside' = TRUE /\ awards' = FALSE /\ game' = Fresh /\ event' = Kind
        /\ met' = [c \in Cell |-> 0] /\ beaten' = {} /\ granted' = 0 /\ walked' = 0
    BY <1>1 DEF Enter, FreshHistory
  <2>2. TypeOK'
    BY <2>1, DiceAssumption, FreshData DEF TypeOK
  <2>3. OnlyCleared' /\ EventsOnce'
    BY <2>1 DEF OnlyCleared, EventsOnce
  <2>4. AwardIsEarned' /\ StepsArePaid'
    BY <2>1, FreshData DEF AwardIsEarned, StepsArePaid, Boss
  <2> QED BY <2>2, <2>3, <2>4 DEF IInv
<1>2. CASE Leave
  BY <1>2 DEF Leave, history, IInv, TypeOK, OnlyCleared, EventsOnce, AwardIsEarned, StepsArePaid, Boss
<1>3. CASE UseNowar
  <2>1. game' \in Data /\ game'.dice = game.dice /\ game'.finished = game.finished
    BY <1>3 DEF UseNowar, IInv, TypeOK, Data
  <2> QED BY <1>3, <2>1
          DEF UseNowar, history, IInv, TypeOK, OnlyCleared, EventsOnce, AwardIsEarned, StepsArePaid, Boss
<1>4. CASE Claim
  BY <1>4 DEF Claim, IInv, TypeOK, OnlyCleared, EventsOnce, AwardIsEarned, StepsArePaid, Boss
<1>5. ASSUME NEW n \in Faces, Throw(n) PROVE IInv'
  <2>1. n \in Nat /\ game \in Data /\ game.special \in Nat
    BY DiceAssumption DEF IInv, TypeOK, Data
  <2>2. PICK d \in Nat : game'.dice = d /\ granted' = granted + d /\ game' \in Data /\ game'.finished = game.finished
    <3>1. CASE game.special > 0
      BY <1>5, <2>1, <3>1 DEF Throw, Grant, Data
    <3>2. CASE ~(game.special > 0)
      BY <1>5, <2>1, <3>2 DEF Throw, Grant, Data
    <3> QED BY <3>1, <3>2
  <2>3. game.dice = 0 /\ UNCHANGED <<inside, event, met, beaten, awards, walked>>
    BY <1>5 DEF Throw
  <2> QED BY <2>2, <2>3
          DEF IInv, TypeOK, OnlyCleared, EventsOnce, AwardIsEarned, StepsArePaid, Boss
<1>6. ASSUME NEW n \in ItemDice, Prepare(n) PROVE IInv'
  <2>1. game' \in Data /\ game'.dice = game.dice /\ game'.finished = game.finished
    BY <1>6, DiceAssumption DEF Prepare, IInv, TypeOK, Data
  <2> QED BY <1>6, <2>1
          DEF Prepare, history, IInv, TypeOK, OnlyCleared, EventsOnce, AwardIsEarned, StepsArePaid, Boss
<1>7. ASSUME NEW n \in ItemDice, UseDice(n) PROVE IInv'
  <2>1. n \in Nat /\ game' \in Data /\ game'.dice = n /\ game'.finished = game.finished
    BY <1>7, DiceAssumption DEF UseDice, IInv, TypeOK, Data
  <2>2. walked <= granted /\ walked \in Nat /\ granted \in Nat
    BY DEF IInv, TypeOK, Data, StepsArePaid
  <2>3. StepsArePaid' /\ granted' \in Nat
    BY <1>7, <2>1, <2>2 DEF StepsArePaid, UseDice, Grant
  <2> QED BY <1>7, <2>1, <2>3
          DEF UseDice, IInv, TypeOK, OnlyCleared, EventsOnce, AwardIsEarned, Boss
<1>8. CASE UNCHANGED vars
  BY <1>8 DEF vars, history, IInv, TypeOK, OnlyCleared, EventsOnce, AwardIsEarned, StepsArePaid, Boss
<1> QED BY <1>1, <1>2, <1>3, <1>4, <1>5, <1>6, <1>7, <1>8, MoveKeeps, StopKeeps DEF Next

THEOREM Invariance == Spec => []IInv
<1>1. IInv /\ [Next]_vars => IInv'
  BY StepKeeps
<1> QED BY <1>1, InitHolds, PTL DEF Spec

(* Every variable of DiceGame keeps its type.                              *)
THEOREM TypeCorrect == Spec => []TypeOK
BY Invariance, PTL DEF IInv

(* What is on a cell of the board happens at most once in a game, in any   *)
(* order of requests (do_instance_action).                                 *)
THEOREM EventsCorrect == Spec => []EventsOnce
BY Invariance, PTL DEF IInv

(* An award is only given for a game whose own boss was beaten             *)
(* (handle_instance_finish_reward_request).                                *)
THEOREM AwardsCorrect == Spec => []AwardIsEarned
BY Invariance, PTL DEF IInv

(* Nobody walks on foot further than was granted                           *)
(* (handle_instance_move_request).                                         *)
THEOREM StepsCorrect == Spec => []StepsArePaid
BY Invariance, PTL DEF IInv

-----------------------------------------------------------------------------
(***************************************************************************)
(* The fights.                                                             *)
(***************************************************************************)

(* While a fight goes on both rivals stand, except a role that had no      *)
(* health when it began.                                                   *)
RoleStands == hp > 0 \/ opening.left = 0
Standing   == pc = "fight" => foe > 0 /\ RoleStands /\ round < MaxRound
OpenedWell == hp >= 0 \/ pc # "rest"

FightIInv == FightTypeOK /\ ReplayAgrees /\ VerdictStands /\ Standing /\ OpenedWell

-----------------------------------------------------------------------------
LEMMA FightStarts == FightInit => FightIInv
BY FightAssumption
DEF FightInit, FightIInv, FightTypeOK, ReplayAgrees, VerdictStands, Standing, OpenedWell, Side

LEMMA BoundedRange ==
  ASSUME NEW h \in Int
  PROVE  Bounded(h) \in Int /\ 0 <= Bounded(h) /\ Bounded(h) <= MaxHp
BY FightAssumption DEF Bounded

(* The steps between fights.                                               *)
LEMMA RestKeeps ==
  ASSUME FightIInv, Recover \/ LevelUp \/ \E n \in Changes : Change(n)
  PROVE  FightIInv' /\ round' = round
<1>1. pc' = "rest" /\ UNCHANGED <<foe, turn, round, opening, told, verdict>>
  BY DEF Recover, LevelUp, Change
<1>2. hp' \in Int /\ 0 <= hp' /\ hp' <= MaxHp
  <2>1. CASE \E n \in Changes : Change(n)
    <3>1. PICK n \in Changes : hp' = Bounded(hp + n)
      BY <2>1 DEF Change
    <3>2. hp + n \in Int
      BY FightAssumption DEF FightIInv, FightTypeOK
    <3> QED BY <3>1, <3>2, BoundedRange
  <2>2. CASE Recover \/ LevelUp
    BY <2>2, FightAssumption DEF Recover, LevelUp
  <2> QED BY <2>1, <2>2
<1> QED BY <1>1, <1>2
        DEF FightIInv, FightTypeOK, ReplayAgrees, VerdictStands, Standing, OpenedWell

LEMMA BeginKeeps ==
  ASSUME FightIInv, NEW h \in FoeHp, Begin(h)
  PROVE  FightIInv'
<1>1. /\ pc = "rest" /\ pc' = "fight" /\ foe' = h /\ turn' \in Side /\ round' = 0
      /\ opening' = [left |-> hp, right |-> h] /\ told' = [s \in Side |-> 0]
      /\ verdict' = "none" /\ hp' = hp
  BY DEF Begin
<1>2. hp \in Int /\ hp >= 0 /\ hp <= MaxHp /\ h \in Nat \ {0}
  BY <1>1, FightAssumption DEF FightIInv, FightTypeOK, OpenedWell
<1>3. opening' \in [Side -> Int] /\ told' \in [Side -> Int]
  BY <1>1, <1>2 DEF Side
<1>4. FightTypeOK'
  BY <1>1, <1>2, <1>3, FightAssumption DEF FightTypeOK
<1>5. ReplayAgrees'
  BY <1>1, <1>2 DEF ReplayAgrees, Health, Side
<1>6. opening'.left = hp
  BY <1>1
<1>7. Standing'
  BY <1>1, <1>2, <1>6, FightAssumption DEF Standing, RoleStands
<1> QED BY <1>1, <1>4, <1>5, <1>7 DEF FightIInv, VerdictStands, OpenedWell

-----------------------------------------------------------------------------
(* What a round can bring: blows are numbers, and a fight that goes on     *)
(* leaves the side standing that was struck last.                          *)
LEMMA OutcomeCases ==
  ASSUME hp \in Int, foe \in Int, NEW s \in Side, NEW o \in Outcomes(s)
  PROVE  /\ o.struck \in Nat /\ o.back \in Nat /\ o.over \in BOOLEAN
         /\ \/ o.back = 0 /\ (o.over <=> Health[Other(s)] - o.struck <= 0)
            \/ o.back = 0 /\ o.struck = 0 /\ ~o.over
            \/ Health[Other(s)] - o.struck > 0 /\ (o.over <=> Health[s] - o.back <= 0)
<1>1. Health[s] \in Int /\ Health[Other(s)] \in Int
  BY DEF Health, Side, Other
<1>2. CASE \E a \in Hurts : o = [struck |-> a, back |-> 0, over |-> Health[Other(s)] - a <= 0]
  <2>1. PICK a \in Hurts : o = [struck |-> a, back |-> 0, over |-> Health[Other(s)] - a <= 0]
    BY <1>2
  <2>2. a \in Nat
    BY FightAssumption
  <2>3. o.struck = a /\ o.back = 0
    BY <2>1
  <2>4. o.over \in BOOLEAN /\ (o.over <=> Health[Other(s)] - a <= 0)
    <3>1. CASE Health[Other(s)] - a <= 0
      BY <2>1, <3>1
    <3>2. CASE ~(Health[Other(s)] - a <= 0)
      <4>1. (Health[Other(s)] - a <= 0) = FALSE
        BY <3>2
      <4>2. o.over = FALSE
        BY <2>1, <4>1
      <4> QED BY <3>2, <4>2
    <3> QED BY <3>1, <3>2
  <2> QED BY <2>2, <2>3, <2>4
<1>3. CASE o = [struck |-> 0, back |-> 0, over |-> FALSE]
  BY <1>3
<1>4. CASE \E a \in {x \in Hurts : Health[Other(s)] - x > 0}, b \in Hurts :
             o = [struck |-> a, back |-> b, over |-> Health[s] - b <= 0]
  <2>1. PICK a \in {x \in Hurts : Health[Other(s)] - x > 0} :
          \E b \in Hurts : o = [struck |-> a, back |-> b, over |-> Health[s] - b <= 0]
    BY <1>4
  <2>2. PICK b \in Hurts : o = [struck |-> a, back |-> b, over |-> Health[s] - b <= 0]
    BY <2>1
  <2>3. a \in Nat /\ b \in Nat /\ Health[Other(s)] - a > 0
    BY FightAssumption
  <2>4. o.struck = a /\ o.back = b
    BY <2>2
  <2>5. o.over \in BOOLEAN /\ (o.over <=> Health[s] - b <= 0)
    <3>1. CASE Health[s] - b <= 0
      BY <2>2, <3>1
    <3>2. CASE ~(Health[s] - b <= 0)
      <4>1. (Health[s] - b <= 0) = FALSE
        BY <3>2
      <4>2. o.over = FALSE
        BY <2>2, <4>1
      <4> QED BY <3>2, <4>2
    <3> QED BY <3>1, <3>2
  <2> QED BY <2>3, <2>4, <2>5
<1> QED BY <1>2, <1>3, <1>4 DEF Outcomes

LEMMA RoundKeeps ==
  ASSUME FightIInv, Round
  PROVE  FightIInv' /\ foe > 0 /\ RoleStands
<1>1. PICK o \in Outcomes(turn) :
        /\ hp' = hp - (IF turn = "left" THEN o.back ELSE o.struck)
        /\ foe' = foe - (IF turn = "left" THEN o.struck ELSE o.back)
        /\ told' = [s \in Side |-> told[s] + Report(turn, o)[s]]
        /\ GoOn(o, <<hp', foe'>>)
  BY DEF Round
<1>2. /\ pc = "fight" /\ round' = round + 1 /\ turn' = Other(turn) /\ opening' = opening
  BY DEF Round
<1>3. /\ hp \in Int /\ hp <= MaxHp /\ foe \in Int /\ turn \in Side /\ round \in 0 .. MaxRound
      /\ round < MaxRound /\ foe > 0 /\ RoleStands
      /\ opening \in [Side -> Int] /\ told \in [Side -> Int]
      /\ MaxRound \in Nat /\ MaxHp \in Nat
  BY <1>2, FightAssumption DEF FightIInv, FightTypeOK, Standing
<1>4. /\ o.struck \in Nat /\ o.back \in Nat /\ o.over \in BOOLEAN
      /\ \/ o.back = 0 /\ (o.over <=> Health[Other(turn)] - o.struck <= 0)
         \/ o.back = 0 /\ o.struck = 0 /\ ~o.over
         \/ Health[Other(turn)] - o.struck > 0 /\ (o.over <=> Health[turn] - o.back <= 0)
  BY <1>3, OutcomeCases
<1>5. Health.left = hp /\ Health.right = foe /\ Health["left"] = hp /\ Health["right"] = foe
  BY DEF Health
<1>6. turn = "left" \/ turn = "right"
  BY <1>3 DEF Side
<1>7. hp' \in Int /\ foe' \in Int /\ hp' <= hp /\ foe' <= foe
  BY <1>1, <1>3, <1>4
<1>8. Verdict(<<hp', foe'>>) = IF hp' <= 0 THEN "right" ELSE "left"
  BY DEF Verdict
<1>9. /\ o.over => pc' = "given" /\ verdict' = IF hp' <= 0 THEN "right" ELSE "left"
      /\ ~o.over => /\ pc' = IF round + 1 < MaxRound THEN "fight" ELSE "given"
                    /\ verdict' = "none"
  BY <1>1, <1>8 DEF GoOn
<1>10. /\ o.over => (hp' <= 0 \/ foe' <= 0)
       /\ o.over /\ foe' <= 0 => hp' > 0 \/ opening.left = 0
       /\ ~o.over => foe' > 0 /\ (hp' > 0 \/ opening.left = 0)
  <2>1. CASE turn = "left"
    BY <1>1, <1>3, <1>4, <1>5, <2>1 DEF Other, RoleStands
  <2>2. CASE turn = "right"
    BY <1>1, <1>3, <1>4, <1>5, <2>2 DEF Other, RoleStands
  <2> QED BY <1>6, <2>1, <2>2
<1>11. \A s \in Side : Report(turn, o)[s] \in Int
  BY <1>4 DEF Report
<1>12. told' \in [Side -> Int]
  BY <1>1, <1>3, <1>11
<1>13. FightTypeOK'
  <2>1. pc' \in {"rest", "fight", "given"} /\ verdict' \in Side \cup {"none"}
    BY <1>4, <1>9 DEF Side
  <2>2. turn' \in Side /\ round' \in 0 .. MaxRound /\ hp' <= MaxHp
    BY <1>2, <1>3, <1>7 DEF Side, Other
  <2> QED BY <1>2, <1>3, <1>7, <1>12, <2>1, <2>2 DEF FightTypeOK
<1>14. ReplayAgrees'
  <2>1. opening["left"] + told["left"] = hp /\ opening["right"] + told["right"] = foe
    BY <1>2, <1>5 DEF FightIInv, ReplayAgrees, Side
  <2>2. /\ told'["left"] = told["left"] + Report(turn, o)["left"]
        /\ told'["right"] = told["right"] + Report(turn, o)["right"]
    BY <1>1 DEF Side
  <2>3. /\ Report(turn, o)["left"] = IF turn = "left" THEN -o.back ELSE -o.struck
        /\ Report(turn, o)["right"] = IF turn = "left" THEN -o.struck ELSE -o.back
    BY <1>6 DEF Report, Side
  <2>4. /\ opening["left"] \in Int /\ opening["right"] \in Int
        /\ told["left"] \in Int /\ told["right"] \in Int
    BY <1>3 DEF Side
  <2>5. opening["left"] + told'["left"] = hp' /\ opening["right"] + told'["right"] = foe'
    BY <1>1, <1>3, <1>4, <1>6, <2>1, <2>2, <2>3, <2>4
  <2> QED BY <1>2, <2>5 DEF ReplayAgrees, Health, Side
<1>15. VerdictStands'
  BY <1>2, <1>3, <1>4, <1>7, <1>9, <1>10 DEF VerdictStands
<1>16. Standing' /\ OpenedWell'
  BY <1>2, <1>3, <1>4, <1>9, <1>10 DEF Standing, RoleStands, OpenedWell
<1> QED BY <1>3, <1>13, <1>14, <1>15, <1>16 DEF FightIInv

LEMMA FightKeeps ==
  ASSUME FightIInv, [FightNext]_fightVars
  PROVE  FightIInv'
<1>1. CASE UNCHANGED fightVars
  BY <1>1 DEF fightVars, FightIInv, FightTypeOK, ReplayAgrees, VerdictStands, Standing, RoleStands, OpenedWell, Health
<1> QED BY <1>1, RestKeeps, BeginKeeps, RoundKeeps DEF FightNext

THEOREM FightInvariance == FightSpec => []FightIInv
<1>1. FightIInv /\ [FightNext]_fightVars => FightIInv'
  BY FightKeeps
<1> QED BY <1>1, FightStarts, PTL DEF FightSpec

(* Health never exceeds its maximum (role_modify_hp, count_round_result).  *)
THEOREM FightTypeCorrect == FightSpec => []FightTypeOK
BY FightInvariance, PTL DEF FightIInv

(* The client that replays a fight ends with the server's health           *)
(* (count_round_result).                                                   *)
THEOREM ReplayCorrect == FightSpec => []ReplayAgrees
BY FightInvariance, PTL DEF FightIInv

(* The verdict names the side that stands (count_fight_result).            *)
THEOREM VerdictCorrect == FightSpec => []VerdictStands
BY FightInvariance, PTL DEF FightIInv

(* No round is fought by a side that fell in the fight                     *)
(* (count_round_result and the loop of count_fight_result).                *)
THEOREM FallenCorrect == FightSpec => FallenRest
<1>1. FightIInv /\ [FightNext]_fightVars =>
        [round' = round + 1 => foe > 0 /\ (hp > 0 \/ opening.left = 0)]_fightVars
  <2> SUFFICES ASSUME FightIInv, FightNext, round' = round + 1
               PROVE  foe > 0 /\ (hp > 0 \/ opening.left = 0)
    OBVIOUS
  <2>1. round \in Nat
    BY DEF FightIInv, FightTypeOK
  <2>2. round' # round /\ round' # 0
    BY <2>1
  <2>3. Round
    BY <2>2, RestKeeps DEF FightNext, Begin
  <2> QED BY <2>3, RoundKeeps DEF RoleStands
<1> QED BY <1>1, FightInvariance, PTL DEF FightSpec, FallenRest

-----------------------------------------------------------------------------
(***************************************************************************)
(* The dungeon.                                                            *)
(***************************************************************************)

LEMMA QuietStops ==
  ASSUME Quiet
  PROVE  Stop(FALSE) /\ UNCHANGED fightVars
BY DEF Quiet, Stop, AtRest

LEMMA BoardStep ==
  ASSUME DungeonNext
  PROVE  Next \/ UNCHANGED vars
<1>1. CASE Play
  BY <1>1 DEF Play, Next
<1>2. CASE Quiet
  BY <1>2, QuietStops DEF Next
<1>3. CASE Exchange \/ Grow \/ \E h \in FoeHp : Meet(h)
  BY <1>3 DEF Exchange, Grow, Meet
<1>4. CASE Conclude
  <2>1. PICK won \in BOOLEAN : Stop(won)
    BY <1>4 DEF Conclude
  <2> QED BY <2>1 DEF Next
<1>5. CASE \E n \in Changes : HealOrTrap(n)
  BY <1>5 DEF HealOrTrap, Next
<1> QED BY <1>1, <1>2, <1>3, <1>4, <1>5 DEF DungeonNext

LEMMA FightStep ==
  ASSUME DungeonNext
  PROVE  FightNext \/ UNCHANGED fightVars
<1>1. CASE Play
  BY <1>1 DEF Play, AtRest
<1>2. CASE Quiet
  BY <1>2, QuietStops
<1>3. CASE Exchange \/ Grow \/ Conclude
  BY <1>3 DEF Exchange, Grow, Conclude, FightNext
<1>4. CASE \E h \in FoeHp : Meet(h)
  BY <1>4 DEF Meet, FightNext
<1>5. CASE \E n \in Changes : HealOrTrap(n)
  BY <1>5 DEF HealOrTrap, FightNext
<1> QED BY <1>1, <1>2, <1>3, <1>4, <1>5 DEF DungeonNext

-----------------------------------------------------------------------------
(* Requests, stops and fights together make steps of the board only        *)
(* (do_instance_action).                                                   *)
THEOREM ImplementsBoard == DungeonSpec => Spec
<1>1. DungeonInit => Init
  BY DEF DungeonInit
<1>2. [DungeonNext]_dungeonVars => [Next]_vars
  BY BoardStep DEF dungeonVars
<1> QED BY <1>1, <1>2, PTL DEF DungeonSpec, Spec

(* ... and steps of the fights only (test_fight, role_modify_hp).          *)
THEOREM ImplementsFights == DungeonSpec => FightSpec
<1>1. DungeonInit => FightInit
  BY DEF DungeonInit
<1>2. [DungeonNext]_dungeonVars => [FightNext]_fightVars
  BY FightStep DEF dungeonVars
<1> QED BY <1>1, <1>2, PTL DEF DungeonSpec, FightSpec

-----------------------------------------------------------------------------
(* The only step that adds to the beaten is the end of a fight the role    *)
(* won.                                                                    *)
LEMMA OnlyVictories ==
  ASSUME DungeonNext, beaten' # beaten, beaten' # {}
  PROVE  pc = "given" /\ verdict = "left"
<1>1. CASE Play
  BY <1>1 DEF Play, Enter, FreshHistory, Leave, UseNowar, Claim, Throw, Prepare, UseDice, Move, history
<1>2. CASE Quiet
  BY <1>2 DEF Quiet, Undergo, SentBack, NothingThere
<1>3. CASE Exchange \/ Grow \/ \E h \in FoeHp : Meet(h)
  BY <1>3 DEF Exchange, Grow, Meet, vars, history
<1>4. CASE Conclude
  <2>1. pc = "given" /\ Stop(verdict = "left")
    BY <1>4 DEF Conclude, Recover
  <2>2. Fought(verdict = "left")
    BY <2>1 DEF Stop, Undergo, SentBack, NothingThere
  <2> QED BY <2>1, <2>2 DEF Fought
<1>5. CASE \E n \in Changes : HealOrTrap(n)
  BY <1>5 DEF HealOrTrap, Stop, Fought, Undergo, SentBack, NothingThere
<1> QED BY <1>1, <1>2, <1>3, <1>4, <1>5 DEF DungeonNext

(* Nothing on the board counts as beaten without a fight the client saw    *)
(* the role win, on any board and with rivals of any strength              *)
(* (do_instance_action after test_fight).                                  *)
THEOREM BeatenCorrect == DungeonSpec => BeatenInAFight
<1>1. FightIInv /\ [DungeonNext]_dungeonVars =>
        [beaten' # beaten /\ beaten' # {} =>
           /\ pc = "given" /\ opening.right + told.right <= 0
           /\ opening.left + told.left > 0]_dungeonVars
  <2> SUFFICES ASSUME FightIInv, DungeonNext, beaten' # beaten, beaten' # {}
               PROVE  /\ pc = "given" /\ opening.right + told.right <= 0
                      /\ opening.left + told.left > 0
    OBVIOUS
  <2>1. pc = "given" /\ hp > 0 /\ foe <= 0
    BY OnlyVictories DEF FightIInv, VerdictStands
  <2>2. opening["left"] + told["left"] = hp /\ opening["right"] + told["right"] = foe
    BY <2>1 DEF FightIInv, ReplayAgrees, Health, Side
  <2> QED BY <2>1, <2>2
<1> QED BY <1>1, ImplementsFights, FightInvariance, PTL DEF DungeonSpec, BeatenInAFight
=============================================================================
