------------------------------ MODULE DiceGame -------------------------------
(* The board of an instance and the one role that plays on it: it throws,  *)
(* walks as many cells as the dice show, stops, and what is on the cell    *)
(* happens.  A client may send these requests in any order.                *)
EXTENDS Integers, Sequences, FiniteSets

CONSTANTS
  Cell,      \* the nodes of the map
  Start,     \* the node at index 0
  Kind,      \* Kind[c]: the type of the action of a node
  Around,    \* Around[c]: the nodes up, down, left and right of it
  Back,      \* Back[c]: func->move of a backward node
  Faces,     \* what get_rand_between(1, 6) returns
  ItemDice,  \* item_param of the dice item, special_dice of the GM command
  Nowhere,   \* an id that is no node of the map
  MaxPath,   \* bound of the model: the cells in a request
  MaxSteps   \* bound of the model: steps granted in one game

(* The types elite, luck, rand and forward do nothing, as "heal" does here *)
(* where no hit points are counted.                                        *)
Kinds == {"null", "boss", "fight", "heal", "backward", "transport"}

ASSUME DiceAssumption ==
  /\ Start \in Cell /\ Nowhere \notin Cell
  /\ Kind \in [Cell -> Kinds]
  /\ Around \in [Cell -> SUBSET Cell]
  /\ Back \in [Cell -> Nat]
  /\ Faces \subseteq Nat \ {0} /\ ItemDice \subseteq Nat
  /\ MaxPath \in Nat \ {0} /\ MaxSteps \in Nat

VARIABLES
  inside,    \* role->instance.p is set
  game,      \* role->instance_data
  event,     \* event[c]: the type node[c].action has now
  met,       \* history: met[c], how often the event of a cell took place
  beaten,    \* history: the cells whose monster was beaten
  awards,    \* history: an award was given for this game
  granted,   \* history: steps thrown, used, or sent back
  walked     \* history: steps paid for

history == <<met, beaten, awards, granted, walked>>
vars    == <<inside, game, event, history>>

(* struct instance_data, and as memset leaves it.                          *)
Data  == [at : Cell, dice : Nat, special : Nat, nowar : 0 .. 3, pending : BOOLEAN, finished : BOOLEAN]
Fresh == [at |-> Start, dice |-> 0, special |-> 0, nowar |-> 0, pending |-> FALSE, finished |-> FALSE]

FreshHistory ==
  /\ met' = [c \in Cell |-> 0]
  /\ beaten' = {}
  /\ awards' = FALSE
  /\ granted' = 0
  /\ walked' = 0

Init ==
  /\ inside = FALSE
  /\ game = Fresh
  /\ event = Kind
  /\ met = [c \in Cell |-> 0]
  /\ beaten = {} /\ awards = FALSE /\ granted = 0 /\ walked = 0

Grant(n) ==
  /\ granted + n <= MaxSteps
  /\ granted' = granted + n

-----------------------------------------------------------------------------
(* handle_enter_instance_request: new_instance, init_instance_by_config,   *)
(* enter_instance.                                                         *)
EnterKeeping ==                                    \* mutant: without the memset
  /\ ~inside
  /\ inside' = TRUE
  /\ game' = [game EXCEPT !.at = Start]
  /\ event' = Kind
  /\ FreshHistory
Enter ==
  /\ ~inside
  /\ inside' = TRUE
  /\ game' = Fresh
  /\ event' = Kind
  /\ FreshHistory

(* handle_leave_instance_request; instance_data stays as it is.            *)
Leave ==
  /\ inside
  /\ inside' = FALSE
  /\ UNCHANGED <<game, event, history>>

(* handle_rand_dice_request, which does not ask for an instance.           *)
Throw(n) ==
  /\ game.dice = 0
  /\ IF game.special > 0
     THEN /\ game' = [game EXCEPT !.dice = game.special, !.special = 0]
          /\ Grant(game.special)
     ELSE /\ n \in Faces
          /\ game' = [game EXCEPT !.dice = n]
          /\ Grant(n)
  /\ UNCHANGED <<inside, event, met, beaten, awards, walked>>

(* gm_dice_handle                                                          *)
Prepare(n) ==
  /\ game' = [game EXCEPT !.special = n]
  /\ UNCHANGED <<inside, event, history>>

(* do_instance_use_item: nobody asks whether the role has the item.        *)
UseDice(n) ==
  /\ inside
  /\ game' = [game EXCEPT !.dice = n]
  /\ Grant(n)
  /\ UNCHANGED <<inside, event, met, beaten, awards, walked>>

UseNowar ==
  /\ inside
  /\ game' = [game EXCEPT !.nowar = 3]
  /\ UNCHANGED <<inside, event, history>>

-----------------------------------------------------------------------------
(* handle_instance_move_request.  The cell before step i of a path; a step *)
(* from a transport cell must be the last and may lead anywhere.           *)
Before(path, i) == IF i = 1 THEN game.at ELSE path[i - 1]
IsStep(path, i) ==
  IF event[Before(path, i)] = "transport" THEN i = Len(path) ELSE path[i] \in Around[Before(path, i)]
IsPath(path) == \A i \in 1 .. Len(path) : IsStep(path, i)
Jumps(path)  == event[Before(path, Len(path))] = "transport"

Walk(path) ==
  /\ ~Jumps(path)
  /\ Len(path) <= game.dice
  /\ game' = [game EXCEPT !.at = path[Len(path)], !.pending = TRUE, !.dice = @ - Len(path)]
  /\ walked' = walked + Len(path)
  /\ UNCHANGED granted

(* The dice are set to the length of the request before its target is      *)
(* looked up: a jump to a node of the map costs what the dice showed, a    *)
(* jump to no node leaves the length on the dice.                          *)
Jump(path) ==
  /\ Jumps(path)
  /\ IF path[Len(path)] \in Cell
     THEN /\ game' = [game EXCEPT !.at = path[Len(path)], !.pending = TRUE, !.dice = 0]
          /\ UNCHANGED granted
     ELSE /\ game' = [game EXCEPT !.dice = Len(path)]
          /\ Grant(Len(path))
  /\ UNCHANGED walked

Paths ==
  UNION {{Append(p, c) : p \in [1 .. n -> Cell], c \in Cell \cup {Nowhere}} : n \in 0 .. MaxPath - 1}

Move(path) ==
  /\ inside
  /\ IsPath(path)
  /\ Walk(path) \/ Jump(path)
  /\ UNCHANGED <<inside, event, met, beaten, awards>>

-----------------------------------------------------------------------------
(* handle_instance_stop_request, do_instance_action.  At a dead end the    *)
(* dice are taken away first.                                              *)
Stays == IF Cardinality(Around[game.at]) <= 1 THEN [game EXCEPT !.dice = 0] ELSE game
Rested(g) == [g EXCEPT !.nowar = IF @ > 0 THEN @ - 1 ELSE 0]
Done(g)   == [Rested(g) EXCEPT !.pending = FALSE]

ClearedIfWon(won) ==                               \* mutant: a lost fight can be fought again
  event' = IF won THEN [event EXCEPT ![game.at] = "null"] ELSE event
Cleared(won) == event' = [event EXCEPT ![game.at] = "null"]

Fought(won) ==
  /\ \/ event[game.at] = "boss"
     \/ event[game.at] = "fight" /\ game.nowar = 0
  /\ game' = Done([Stays EXCEPT !.finished = @ \/ (won /\ event[game.at] = "boss")])
  /\ beaten' = IF won THEN beaten \cup {game.at} ELSE beaten
  /\ met' = [met EXCEPT ![game.at] = @ + 1]
  /\ Cleared(won)
  /\ UNCHANGED granted

Undergo ==
  /\ \/ event[game.at] = "heal"
     \/ event[game.at] = "fight" /\ game.nowar > 0
  /\ game' = Done(Stays)
  /\ met' = [met EXCEPT ![game.at] = @ + 1]
  /\ Cleared(TRUE)
  /\ UNCHANGED <<beaten, granted>>

SentBack ==
  /\ event[game.at] = "backward"
  /\ game' = Done([Stays EXCEPT !.dice = Back[game.at]])
  /\ met' = [met EXCEPT ![game.at] = @ + 1]
  /\ Cleared(TRUE)
  /\ Grant(Back[game.at])
  /\ UNCHANGED beaten

NothingThere ==
  /\ event[game.at] \in {"null", "transport"}
  /\ game' = Rested(Stays)
  /\ UNCHANGED <<event, met, beaten, granted>>

Stop(won) ==
  /\ inside
  /\ Stays.dice = 0
  /\ Fought(won) \/ Undergo \/ SentBack \/ NothingThere
  /\ UNCHANGED <<inside, awards, walked>>

(* handle_instance_finish_reward_request, as often as it is sent.          *)
Claim ==
  /\ inside
  /\ game.finished
  /\ awards' = TRUE
  /\ UNCHANGED <<inside, game, event, met, beaten, granted, walked>>

Next ==
  \/ Enter \/ Leave \/ UseNowar \/ Claim
  \/ \E n \in Faces : Throw(n)
  \/ \E n \in ItemDice : Prepare(n) \/ UseDice(n)
  \/ \E path \in Paths : Move(path)
  \/ \E won \in BOOLEAN : Stop(won)

Spec == Init /\ [][Next]_vars

-----------------------------------------------------------------------------
TypeOK ==
  /\ inside \in BOOLEAN /\ awards \in BOOLEAN
  /\ game \in Data
  /\ event \in [Cell -> Kinds]
  /\ met \in [Cell -> Nat] /\ beaten \subseteq Cell
  /\ granted \in Nat /\ walked \in Nat

(* Whatever a client sends, what is on a cell happens once in a game: no   *)
(* monster can be beaten twice for its drop, and none that won can be met  *)
(* again.                                                                  *)
EventsOnce ==
  \A c \in Cell : /\ met[c] <= 1
                  /\ met[c] = 1 <=> event[c] # Kind[c]
                  /\ c \in beaten => met[c] = 1

(* A game is finished when its own boss was beaten, and only then is there *)
(* an award; a boss that won once keeps the game from ever being finished. *)
Boss == {c \in Cell : Kind[c] = "boss"}
AwardIsEarned ==
  /\ awards => game.finished
  /\ game.finished <=> Boss \cap beaten # {}

(* What a role has walked on foot and what its dice still show was granted *)
(* by a throw, an item, a cell that sends back, or a jump that failed.     *)
StepsArePaid == walked + game.dice <= granted
=============================================================================
