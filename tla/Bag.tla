--------------------------------- MODULE Bag ---------------------------------
(* The bags of the roles: positions that hold things from the one pool all *)
(* bags share.  A role is given lists of things, drops, moves and wears    *)
(* them; its bag is stored when it leaves and filled again when it is      *)
(* loaded.  Every operation may meet an empty pool half way.  Quest takes  *)
(* these steps.                                                            *)
EXTENDS Naturals, Sequences, FiniteSets, FiniteSetsExt

CONSTANTS
  Role,       \* roles with a bag
  Item,       \* kinds of things
  Wearable,   \* the kinds that fit the place for equipment
  StackAble,  \* StackAble[id]: stack_able of the configuration
  Gift,       \* lists of things a quest or a drop gives
  PoolSize,   \* max_thing_obj_in_game
  Size,       \* max_thing_num of every bag
  None,       \* NULL / no id / no such row
  MaxNum      \* bound of the model: things of one kind a role comes to

Pos == 0 .. Size - 1

ASSUME BagAssumption ==
  /\ IsFiniteSet(Role) /\ Wearable \subseteq Item
  /\ StackAble \in [Item -> Nat]
  /\ Gift \subseteq Seq([id : Item, num : Nat \ {0}])
  /\ None \notin Item /\ None \notin [id : Item, num : Nat]
  /\ None \notin [Pos -> {None} \cup [id : Item, num : Nat]]
  /\ PoolSize \in Nat /\ Size \in Nat \ {0} /\ MaxNum \in Nat

VARIABLES
  taken,   \* elements in the used list of the pool of things
  bag,     \* bag[r][p]: what is at a position of a bag
  worn,    \* worn[r]: the item a role wears
  row      \* row[r]: the bag in the database, None while the role plays

vars == <<taken, bag, worn, row>>

Nothing == [p \in Pos |-> None]
Playing(r) == row[r] = None

Init ==
  /\ taken = 0
  /\ bag = [r \in Role |-> Nothing]
  /\ worn = [r \in Role |-> None]
  /\ row = [r \in Role |-> Nothing]

-----------------------------------------------------------------------------
(* A bag with the pool behind it, and whether the last call succeeded.     *)
Of(r) == [bag |-> bag[r], taken |-> taken, ok |-> TRUE]

(* add_thing_bypos                                                         *)
AddByPosReplaces(b, p, e) ==                       \* mutant: the number is not added
  CASE p \in Pos /\ b.bag[p] = None /\ b.taken < PoolSize ->
         [bag |-> [b.bag EXCEPT ![p] = e], taken |-> b.taken + 1, ok |-> TRUE]
    [] p \in Pos /\ b.bag[p] # None /\ b.bag[p].id = e.id ->
         [b EXCEPT !.bag[p].num = e.num, !.ok = TRUE]
    [] OTHER -> [b EXCEPT !.ok = FALSE]
AddByPos(b, p, e) ==
  CASE p \in Pos /\ b.bag[p] = None /\ b.taken < PoolSize ->
         [bag |-> [b.bag EXCEPT ![p] = e], taken |-> b.taken + 1, ok |-> TRUE]
    [] p \in Pos /\ b.bag[p] # None /\ b.bag[p].id = e.id ->
         [b EXCEPT !.bag[p].num = @ + e.num, !.ok = TRUE]
    [] OTHER -> [b EXCEPT !.ok = FALSE]

(* delete_thing_bypos                                                      *)
DeleteByPos(b, p, num) ==
  IF p \notin Pos \/ b.bag[p] = None \/ b.bag[p].num < num THEN [b EXCEPT !.ok = FALSE]
  ELSE IF b.bag[p].num = num
       THEN [bag |-> [b.bag EXCEPT ![p] = None], taken |-> b.taken - 1, ok |-> TRUE]
       ELSE [b EXCEPT !.bag[p].num = @ - num, !.ok = TRUE]

(* The first loop of add_thing_list: add_stack_thing, then                 *)
(* add_unstack_thing, for each entry on its own.  The result is the list   *)
(* of positions; it is too short when there is no place for an entry.      *)
StackPos(b, e) ==
  {p \in Pos : /\ StackAble[e.id] > 1
               /\ b[p] # None
               /\ b[p].id = e.id
               /\ b[p].num + e.num <= StackAble[e.id]}
EmptyPos(b, begin) == {p \in Pos : p >= begin /\ b[p] = None}

Plan(b, list) ==
  LET step[i \in 0 .. Len(list)] ==
        IF i = 0 THEN [pos |-> <<>>, begin |-> 0]
        ELSE LET had == step[i - 1]
                 stack == StackPos(b, list[i])
                 empty == EmptyPos(b, had.begin)
             IN  CASE Len(had.pos) < i - 1 -> had
                   [] Len(had.pos) = i - 1 /\ stack # {} ->
                        [had EXCEPT !.pos = Append(@, Min(stack))]
                   [] Len(had.pos) = i - 1 /\ stack = {} /\ empty # {} ->
                        [pos |-> Append(had.pos, Min(empty)), begin |-> Min(empty) + 1]
                   [] OTHER -> had
  IN  step[Len(list)].pos

(* The second loop stops at the first failure; what has been put by then   *)
(* stays, since the loop behind "fail" never runs.                         *)
Put(b, pos, list) ==
  LET step[i \in 0 .. Len(list)] ==
        IF i = 0 THEN b
        ELSE IF step[i - 1].ok THEN AddByPos(step[i - 1], pos[i], list[i]) ELSE step[i - 1]
  IN  step[Len(list)]

(* init_role_data_from_db: every stored thing to its position; a failure   *)
(* is not noticed.                                                         *)
Fill(b, things) ==
  LET step[i \in 0 .. Size] ==
        IF i = 0 THEN b
        ELSE IF things[i - 1] = None THEN step[i - 1]
        ELSE AddByPos(step[i - 1], i - 1, things[i - 1])
  IN  step[Size]

(* What a role has of an item, in its bag or in its row, and on it.        *)
Amount(list, id) == MapThenSumSet(LAMBDA i : list[i].num, {i \in DOMAIN list : list[i].id = id})
In(b) == {p \in Pos : b[p] # None}
Total(r, id) ==
  LET b == IF Playing(r) THEN bag[r] ELSE row[r]
  IN  MapThenSumSet(LAMBDA p : b[p].num, {p \in In(b) : b[p].id = id})
      + (IF worn[r] = id THEN 1 ELSE 0)

Become(r, b) ==
  /\ bag' = [bag EXCEPT ![r] = b.bag]
  /\ taken' = b.taken

-----------------------------------------------------------------------------
(* give_role_thing_list: a reward, a drop.                                 *)
GiveList(r, list) ==
  /\ Playing(r)
  /\ \A id \in Item : Total(r, id) + Amount(list, id) <= MaxNum
  /\ LET pos == Plan(bag[r], list)
     IN  /\ Len(pos) = Len(list)
         /\ Become(r, Put(Of(r), pos, list))
  /\ UNCHANGED <<worn, row>>

(* handle_drop_container_request                                           *)
Drop(r, p, num) ==
  /\ Playing(r)
  /\ Become(r, DeleteByPos(Of(r), p, num))
  /\ UNCHANGED <<worn, row>>

(* handle_swap_container_request, swap_thing_pos                           *)
SwapOver(r, p, q) ==                               \* mutant: the first is overwritten
  /\ Playing(r)
  /\ {p, q} \subseteq Pos
  /\ bag' = [bag EXCEPT ![r][p] = bag[r][q]]
  /\ UNCHANGED <<taken, worn, row>>
Swap(r, p, q) ==
  /\ Playing(r)
  /\ {p, q} \subseteq Pos
  /\ bag' = [bag EXCEPT ![r][p] = bag[r][q], ![r][q] = bag[r][p]]
  /\ UNCHANGED <<taken, worn, row>>

(* handle_equip_change_request: the thing at p and the item worn change    *)
(* places; whether the item found room in the bag is not asked.            *)
Equip(r, p) ==
  /\ Playing(r)
  /\ LET thing == IF p \in Pos THEN bag[r][p] ELSE None
         item  == [id |-> worn[r], num |-> 1]
     IN  \/ /\ thing # None
            /\ thing.num <= 1 /\ thing.id \in Wearable
            /\ Become(r, IF worn[r] # None THEN [Of(r) EXCEPT !.bag[p].id = worn[r]]
                         ELSE DeleteByPos(Of(r), p, 1))
            /\ worn' = [worn EXCEPT ![r] = thing.id]
         \/ /\ thing = None
            /\ Become(r, IF worn[r] # None THEN AddByPos(Of(r), p, item) ELSE Of(r))
            /\ worn' = [worn EXCEPT ![r] = None]
  /\ UNCHANGED row

(* role_logout: the bag is stored, its things go back to the pool.         *)
LeaveKeeping(r) ==                                 \* mutant: the things stay taken
  /\ Playing(r)
  /\ row' = [row EXCEPT ![r] = bag[r]]
  /\ bag' = [bag EXCEPT ![r] = Nothing]
  /\ UNCHANGED <<taken, worn>>
Leave(r) ==
  /\ Playing(r)
  /\ row' = [row EXCEPT ![r] = bag[r]]
  /\ bag' = [bag EXCEPT ![r] = Nothing]
  /\ taken' = taken - Cardinality(In(bag[r]))
  /\ UNCHANGED worn

(* init_role_data_from_db: a new bag is filled.                            *)
Load(r) ==
  /\ ~Playing(r)
  /\ row' = [row EXCEPT ![r] = None]
  /\ Become(r, Fill([bag |-> Nothing, taken |-> taken, ok |-> TRUE], row[r]))
  /\ UNCHANGED worn

-----------------------------------------------------------------------------
Place == {None} \cup [id : Item, num : Nat \ {0}]

(* The types: a position holds nothing or a positive number of things.     *)
TypeOK ==
  /\ taken \in 0 .. PoolSize
  /\ bag \in [Role -> [Pos -> Place]]
  /\ worn \in [Role -> Wearable \cup {None}]
  /\ row \in [Role -> [Pos -> Place] \cup {None}]

(* An element of the pool is in use exactly when it is at a position of a  *)
(* bag: nothing leaks, over any number of logins, nothing is freed that is *)
(* still in a bag, and no position holds something with the number 0.      *)
PoolExact ==
  /\ TypeOK
  /\ taken = Cardinality({at \in Role \X Pos : bag[at[1]][at[2]] # None})
  /\ \A r \in Role : ~Playing(r) => bag[r] = Nothing

(* A role gets the list it is given as a whole, or, when that empties the  *)
(* pool, the first entries of it.                                          *)
GiftsAreWhole ==
  [][\A r \in Role :
       (\E id \in Item : Total(r, id)' > Total(r, id)) =>
         \E list \in Gift : \E n \in 1 .. Len(list) :
           /\ n < Len(list) => taken' = PoolSize
           /\ \A id \in Item : Total(r, id)' = Total(r, id) + Amount(SubSeq(list, 1, n), id)]_vars

(* What a role has gets less only by what it drops.  The exceptions are    *)
(* the code's: a load or an unequip for which the pool has nothing left,   *)
(* and an unequip to a position behind the end of the bag.                 *)
NothingVanishes ==
  [][\A r \in Role :
       (\E id \in Item : Total(r, id)' < Total(r, id)) =>
         \/ \E p \in Pos, num \in 1 .. 2 : Drop(r, p, num)
         \/ (Load(r) \/ \E p \in Pos : Equip(r, p)) /\ taken' = PoolSize
         \/ Equip(r, Size)]_vars
=============================================================================
