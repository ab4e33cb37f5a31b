-------------------------------- MODULE Quest --------------------------------
(* The line of main quests of the roles, on top of their bags: a quest is  *)
(* accepted, follows what its role kills and carries, and is completed for *)
(* a reward.  Its counters are told of a change of the bag by              *)
(* on_bag_changed, which not every change of a bag calls.                  *)
EXTENDS Bag

CONSTANTS
  Last,      \* the main quests are 1 .. Last
  KillNpc,   \* kill_npc of a quest, None for 0
  Collect,   \* collect_item of a quest, None for 0
  Award,     \* the list of things a quest gives
  Money,     \* award_money of a quest
  Monster,   \* the monsters that are killed
  MaxQuest,  \* MAX_QUEST_PER_ROLE
  Quester,   \* bound of the model: roles that accept quests
  MaxKill    \* bound of the model: kills a quest counts

QuestId == 1 .. Last

ASSUME QuestAssumption ==
  /\ Last \in Nat /\ MaxQuest \in Nat /\ MaxKill \in Nat \ {0}
  /\ KillNpc \in [QuestId -> Monster \cup {None}]
  /\ Collect \in [QuestId -> Item \cup {None}]
  /\ Award \in [QuestId -> Gift \cup {<< >>}]
  /\ Money \in [QuestId -> Nat]
  /\ None \notin Monster /\ Quester \subseteq Role

(* The fields of a role while it plays, the columns of its row otherwise.  *)
VARIABLES
  log,    \* log[r]: the accepted quests, by id
  main,   \* main_quest_index
  money   \* what the quests have paid

own   == <<log, main, money>>
qvars == <<vars, own>>

QuestInit ==
  /\ Init
  /\ log = [r \in Role |-> << >>]
  /\ main = [r \in Role |-> 0]
  /\ money = [r \in Role |-> 0]

(* DB_QUEST_INFO.  "raw" is no field: it says that one of the fields the   *)
(* quest depends on still holds what the stack held.                       *)
Entry == [done : BOOLEAN, kill : 0 .. MaxKill, collect : Nat, raw : BOOLEAN]

Has(b, id) == MapThenSumSet(LAMBDA p : b[p].num, {p \in In(b) : b[p].id = id})

(* update_main_quest_state                                                 *)
FulfilledFirst(q, e) ==                            \* mutant: the second test is not reached
  IF Collect[q] # None THEN e.collect > 0 ELSE KillNpc[q] # None => e.kill > 0
Fulfilled(q, e) ==
  /\ Collect[q] # None => e.collect > 0
  /\ KillNpc[q] # None => e.kill > 0
Updated(q, e) == [e EXCEPT !.done = Fulfilled(q, e)]

(* on_bag_changed, when the bag of r has become b: the next quest only.    *)
BagChangedOnce(r, b) ==                            \* mutant: what is finished stays finished
  LET q == main[r] + 1
  IN  IF q \in DOMAIN log[r] /\ ~log[r][q].done
      THEN [log EXCEPT ![r][q] = Updated(q, [@ EXCEPT !.collect = Has(b, Collect[q]), !.raw = FALSE])]
      ELSE log
BagChanged(r, b) ==
  LET q == main[r] + 1
  IN  IF q \in DOMAIN log[r]
      THEN [log EXCEPT ![r][q] = Updated(q, [@ EXCEPT !.collect = Has(b, Collect[q]), !.raw = FALSE])]
      ELSE log

(* quest_status_check: what it makes of a DB_QUEST_INFO on the stack.  A   *)
(* quest to kill for does not touch the number of things, a quest to       *)
(* collect for leaves the state alone when there is nothing.               *)
Checked(r, q) ==
  IF KillNpc[q] # None
  THEN [done : {FALSE}, kill : {0}, collect : IF Collect[q] = None THEN {0} ELSE {0, MaxNum},
        raw : {Collect[q] # None}]
  ELSE IF Collect[q] = None \/ Has(bag[r], Collect[q]) > 0
  THEN [done : {TRUE}, kill : {0}, collect : {IF Collect[q] = None THEN 0 ELSE 1}, raw : {FALSE}]
  ELSE [done : BOOLEAN, kill : {0}, collect : {0}, raw : {TRUE}]

(* add_role_quest, remove_role_quest: a sorted array, unique by id.        *)
WithQuest(r, q, e) ==
  IF q \in DOMAIN log[r] \/ Cardinality(DOMAIN log[r]) >= MaxQuest THEN log
  ELSE [log EXCEPT ![r] = [i \in DOMAIN @ \cup {q} |-> IF i = q THEN e ELSE @[i]]]
QuestKept(r, q) == log                             \* mutant: a completed quest stays
WithoutQuest(r, q) ==
  [log EXCEPT ![r] = [i \in DOMAIN @ \ {q} |-> @[i]]]

-----------------------------------------------------------------------------
(* handle_quest_operate_request                                            *)
Accept(r, q) ==
  /\ Playing(r)
  /\ main[r] = q - 1
  /\ \E e \in Checked(r, q) : log' = WithQuest(r, q, e)
  /\ UNCHANGED <<vars, main, money>>

Cancel(r, q) ==
  /\ Playing(r)
  /\ log' = WithoutQuest(r, q)
  /\ UNCHANGED <<vars, main, money>>

(* give_role_quest_reward: things first.  When there is no place for them, *)
(* or the pool runs out, the request fails, and what was put by then stays *)
(* without a call of on_bag_changed.                                       *)
Complete(r, q) ==
  /\ Playing(r)
  /\ q \in DOMAIN log[r] /\ log[r][q].done
  /\ \A id \in Item : Total(r, id) + Amount(Award[q], id) <= MaxNum
  /\ LET pos == Plan(bag[r], Award[q])
         b   == Put(Of(r), pos, Award[q])
     IN  /\ Len(pos) = Len(Award[q])
         /\ Become(r, b)
         /\ IF b.ok
            THEN /\ log' = WithoutQuest(r, q)
                 /\ main' = [main EXCEPT ![r] = q]
                 /\ money' = [money EXCEPT ![r] = @ + Money[q]]
            ELSE UNCHANGED own
  /\ UNCHANGED <<worn, row>>

(* on_kill_monster                                                         *)
Kill(r, npc) ==
  /\ Playing(r)
  /\ LET q == main[r] + 1
     IN  /\ q \in DOMAIN log[r] /\ ~log[r][q].done
         /\ KillNpc[q] = npc
         /\ log[r][q].kill < MaxKill
         /\ log' = [log EXCEPT ![r][q] = Updated(q, [@ EXCEPT !.kill = log[r][q].kill + 1])]
  /\ UNCHANGED <<vars, main, money>>

-----------------------------------------------------------------------------
(* The operations of the bag, with what they tell the quests.              *)
Receive(r, list) ==
  /\ GiveList(r, list)
  /\ log' = IF Put(Of(r), Plan(bag[r], list), list).ok THEN BagChanged(r, bag'[r]) ELSE log
  /\ UNCHANGED <<main, money>>

Discard(r, p, num) ==
  /\ Drop(r, p, num)
  /\ log' = BagChanged(r, bag'[r])
  /\ UNCHANGED <<main, money>>

Rearrange(r) ==
  /\ \/ \E p, q \in Pos : Swap(r, p, q)
     \/ \E p \in Pos \cup {Size} : Equip(r, p)
     \/ Leave(r)
     \/ Load(r)
  /\ UNCHANGED own

QuestNext ==
  \E r \in Role :
    \/ \E q \in QuestId : (r \in Quester /\ Accept(r, q)) \/ Cancel(r, q) \/ Complete(r, q)
    \/ \E npc \in Monster : Kill(r, npc)
    \/ \E list \in Gift : Receive(r, list)
    \/ \E p \in Pos \cup {Size}, num \in 0 .. 2 : Discard(r, p, num)
    \/ Rearrange(r)

QuestSpec == QuestInit /\ [][QuestNext]_qvars

-----------------------------------------------------------------------------
Due(r) == LET due[q \in 0 .. Last] == IF q = 0 THEN 0 ELSE due[q - 1] + Money[q]
          IN  due[main[r]]

(* Over cancelling, accepting again, logging out and rewards that fail     *)
(* half way, a role has been paid for each quest up to its index exactly   *)
(* once, the only quest it can have is the next one, and that one is       *)
(* finished exactly when its counters, once written, say so.               *)
PaidOnce ==
  \A r \in Role :
    /\ main[r] \in 0 .. Last /\ money[r] = Due(r)
    /\ DOMAIN log[r] \subseteq QuestId \cap {main[r] + 1}
    /\ \A q \in DOMAIN log[r] :
         /\ log[r][q] \in Entry
         /\ ~log[r][q].raw => (log[r][q].done <=> Fulfilled(q, log[r][q]))

(* A quest to collect for follows the bag: a step after which its counter  *)
(* and the bag disagree on whether there is something, while they agreed   *)
(* before, is a change of equipment, a load or a gift the pool had too     *)
(* little for, or the acceptance that initialises only half of it.         *)
Carried(r) == IF Playing(r) THEN bag[r] ELSE row[r]
Agree(r) ==
  \A q \in DOMAIN log[r] :
    Collect[q] # None => (log[r][q].collect > 0 <=> Has(Carried(r), Collect[q]) > 0)
CountsFollowTheBag ==
  [][\A r \in Role :
       (Agree(r) /\ ~Agree(r)') =>
         \/ \E p \in Pos : Equip(r, p)
         \/ /\ taken' = PoolSize
            /\ \/ Load(r) \/ \E list \in Gift : GiveList(r, list)
               \/ \E q \in QuestId : GiveList(r, Award[q])
         \/ \E q \in QuestId : Accept(r, q) /\ log'[r][q].raw]_qvars

(* A quest with a monster to kill is not completed without a kill since it *)
(* was accepted, whatever was on the stack.                                *)
NoKillNoReward ==
  [][\A r \in Role : \A q \in QuestId :
       (main'[r] = q /\ main[r] # q /\ KillNpc[q] # None) => log[r][q].kill > 0]_qvars
=============================================================================
