------------------------------- MODULE Friends -------------------------------
(* The friends and the blacklist of a role: two arrays of ids in shared    *)
(* memory, filled from the front, the first 0 closing the list.  Putting   *)
(* an account on one takes it off the other.  kill -9 may fall between any *)
(* two writes, and the restarted process goes on with what it finds.       *)
EXTENDS Naturals

CONSTANTS
  Id,     \* accounts, with their area
  None,   \* 0: no account
  Max     \* MAX_GAME_FRIEND_PER_ROLE

ASSUME FriendsAssumption == None \notin Id /\ Max \in Nat \ {0}

Kind  == {"friend", "blacklist"}
Entry == 1 .. Max

VARIABLES
  array,   \* array[l]: the entries of list l
  of, at,  \* a removal under way: the list, and the entry it writes next;
           \* at is 0 when there is none
  unbroken \* no kill has fallen into a request

friendsvars == <<array, of, at, unbroken>>

FriendsInit ==
  /\ array = [l \in Kind |-> [i \in Entry |-> None]]
  /\ of = "friend"
  /\ at = 0
  /\ unbroken = TRUE

OtherThan(l) == IF l = "friend" THEN "blacklist" ELSE "friend"

(* The loop that looks for id stops at id, or at the first 0.              *)
Stop(l, id) ==
  {i \in Entry : /\ array[l][i] \in {id, None}
                 /\ \A j \in 1 .. i - 1 : array[l][j] \notin {id, None}}

(* del_role_game_friend, del_role_blacklist up to the first write.         *)
StartRemoval(l, id) ==
  /\ of' = l
  /\ \/ \E i \in Stop(l, id) : array[l][i] = id /\ at' = i
     \/ (\A i \in Stop(l, id) : array[l][i] # id) /\ at' = 0

Remove(l, id) ==
  /\ at = 0
  /\ StartRemoval(l, id)
  /\ UNCHANGED <<array, unbroken>>

(* add_role_game_friend, add_role_blacklist: nothing happens when it is    *)
(* there already or the array is full.                                     *)
AddOnly(l, id) ==                                 \* mutant: stays on the other list
  /\ at = 0
  /\ \E i \in Stop(l, id) :
       /\ array[l][i] # id
       /\ array' = [array EXCEPT ![l][i] = id]
  /\ UNCHANGED <<of, at, unbroken>>
Add(l, id) ==
  /\ at = 0
  /\ \E i \in Stop(l, id) :
       /\ array[l][i] # id
       /\ array' = [array EXCEPT ![l][i] = id]
  /\ StartRemoval(OtherThan(l), id)
  /\ UNCHANGED unbroken

(* One write of the removal: the entries behind move up, the last one is 0.*)
ClearOnly ==                                      \* mutant: the others do not move up
  /\ at # 0
  /\ array' = [array EXCEPT ![of][at] = None]
  /\ at' = 0
  /\ UNCHANGED <<of, unbroken>>
Shift ==
  /\ at # 0
  /\ array' = [array EXCEPT ![of][at] = IF at < Max THEN array[of][at + 1] ELSE None]
  /\ at' = IF at < Max THEN at + 1 ELSE 0
  /\ UNCHANGED <<of, unbroken>>

(* A kill between two requests changes nothing here.                       *)
KillRequest ==
  /\ at # 0
  /\ at' = 0
  /\ unbroken' = FALSE
  /\ UNCHANGED <<array, of>>

(* Logout and login: the store counts the entries before the first 0, the  *)
(* load fills the rest with 0.                                             *)
RestoredShort(L) ==                               \* mutant: one entry too few
  [i \in Entry |-> IF \E j \in 1 .. i + 1 : j \in Entry /\ L[j] = None THEN None ELSE L[i]]
Restored(L) == [i \in Entry |-> IF \E j \in 1 .. i : L[j] = None THEN None ELSE L[i]]

Reload ==
  /\ at = 0
  /\ array' = [l \in Kind |-> Restored(array[l])]
  /\ UNCHANGED <<of, at, unbroken>>

FriendsNext ==
  \/ \E l \in Kind, id \in Id \cup {None} : Add(l, id) \/ Remove(l, id)
  \/ Shift \/ KillRequest \/ Reload

FriendsSpec == FriendsInit /\ [][FriendsNext]_friendsvars

-----------------------------------------------------------------------------
(* A removal writes inside its array.                                      *)
FriendsTypeOK ==
  /\ array \in [Kind -> [Entry -> Id \cup {None}]]
  /\ of \in Kind
  /\ at \in 0 .. Max
  /\ unbroken \in BOOLEAN

(* No list has a gap, not even in the middle of a removal or after a kill: *)
(* every loop over a list stops at the first 0, and would lose what is     *)
(* behind it.                                                              *)
NoGaps ==
  \A l \in Kind : \A i, j \in Entry :
    i < j /\ array[l][i] = None => array[l][j] = None

(* The entries that count: during a removal the one it writes next holds   *)
(* what is being removed, or a copy of the entry before it.                *)
Counts(l) == {i \in Entry : ~(l = of /\ i = at)}

(* An account has one entry in the two lists together, unless a kill has   *)
(* fallen into a request.                                                  *)
Once ==
  unbroken =>
    \A l, k \in Kind : \A i \in Counts(l), j \in Counts(k) :
      array[l][i] = array[k][j] /\ array[l][i] # None => l = k /\ i = j

OnList(l) == {array[l][i] : i \in Counts(l)} \ {None}

R == INSTANCE Relations WITH listed <- [l \in Kind |-> OnList(l)], whole <- unbroken

(* Nobody is lost from a list, or gets on it, except by the player's       *)
(* request; a store and a load change nothing.                             *)
KeepsRelations == R!RSpec
=============================================================================
