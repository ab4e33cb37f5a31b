------------------------------ MODULE Listing --------------------------------
(* What sortarray.c promises of a list: keys, each of them once, until a   *)
(* kill falls into a call; and how little such a kill can spoil.           *)
EXTENDS Integers

CONSTANTS Key

VARIABLES
  copies,   \* copies[k]: how often k is listed
  answer,   \* the last call that returned: what it was and whether it did it
  kills     \* 1 after an odd number of kills

Calls == {"insert", "delete"}
NoCall == [call |-> "delete", key |-> CHOOSE k \in Key : TRUE, done |-> FALSE]

Init ==
  /\ copies = [k \in Key |-> 0]
  /\ answer = NoCall
  /\ kills = 0

Enter(k) ==
  /\ copies[k] = 0
  /\ copies' = [copies EXCEPT ![k] = 1]
  /\ answer' = [call |-> "insert", key |-> k, done |-> TRUE]
  /\ UNCHANGED kills

TakeOut(k) ==
  /\ copies[k] > 0
  /\ copies' = [copies EXCEPT ![k] = @ - 1]
  /\ answer' = [call |-> "delete", key |-> k, done |-> TRUE]
  /\ UNCHANGED kills

Refuse(c, k) ==
  /\ c = "insert" <=> copies[k] > 0
  /\ answer' = [call |-> c, key |-> k, done |-> FALSE]
  /\ UNCHANGED <<copies, kills>>

(* A kill in the middle of a call on k may double keys and lose others,    *)
(* each by one copy, but none below k, and none but k comes new.           *)
CutShort(k) ==
  /\ kills' = 1 - kills
  /\ copies' \in [Key -> Nat]
  /\ \A j \in Key :
       /\ copies'[j] \in {copies[j] - 1, copies[j], copies[j] + 1}
       /\ j < k => copies'[j] = copies[j]
       /\ j # k /\ copies[j] = 0 => copies'[j] = 0
  /\ UNCHANGED answer

Next ==
  \/ \E k \in Key : Enter(k) \/ TakeOut(k) \/ CutShort(k)
  \/ \E c \in Calls, k \in Key : Refuse(c, k)

Spec == Init /\ [][Next]_<<copies, answer, kills>>
=============================================================================
