------------------------------ MODULE Relations ------------------------------
(* What the two lists of a role promise: an account is a friend, or on the *)
(* blacklist, or neither, and stays what it is until the player says       *)
(* otherwise.  A process killed in the middle of a request may leave an    *)
(* account on both lists, or on one it was being taken off; from then on   *)
(* taking it off may take more than one request.                           *)
CONSTANTS Kind, Id

VARIABLES
  listed,      \* listed[k]: the accounts on list k
  whole        \* no process was killed in the middle of a request

EnterOn(l, id) ==
  /\ listed' \in {[k \in Kind |-> IF k = l THEN listed[k] \cup {id} ELSE listed[k] \ {id}]}
                 \cup (IF whole THEN {}
                       ELSE {[listed EXCEPT ![l] = @ \cup {id}]})
  /\ UNCHANGED whole

TakeOff(l, id) ==
  /\ listed' = [listed EXCEPT ![l] = @ \ {id}]
  /\ UNCHANGED whole

CutShort(l) ==
  /\ \/ UNCHANGED listed
     \/ \E id \in Id : listed' = [listed EXCEPT ![l] = @ \cup {id}]
  /\ whole' = FALSE

RInit == listed = [k \in Kind |-> {}] /\ whole = TRUE
RNext == \E l \in Kind : CutShort(l) \/ \E id \in Id : EnterOn(l, id) \/ TakeOff(l, id)
RSpec == RInit /\ [][RNext]_<<listed, whole>>
=============================================================================
