------------------------------- MODULE Account -------------------------------
(* What the servers promise the owner of an account about its money: it    *)
(* appears once, grows only while its role is online, and never falls back *)
(* to an earlier amount, whatever logins, logouts, kicks and database      *)
(* traffic happen in between.  Only a death of game_srv, or a query of the *)
(* account that fails, can take money back, and not from a role that is    *)
(* online.                                                                 *)
EXTENDS Naturals

CONSTANTS RoleId, None

VARIABLES balance, online, deaths, failures

avars == <<balance, online, deaths, failures>>

AInit ==
  /\ balance \in [RoleId -> {0, None}]
  /\ online = {}
  /\ deaths = 0
  /\ failures = [id \in RoleId |-> 0]

Open(id) ==
  /\ balance[id] = None
  /\ balance' = [balance EXCEPT ![id] = 0]
  /\ UNCHANGED <<online, deaths, failures>>

Enter(id) ==
  /\ balance[id] # None
  /\ id \notin online
  /\ online' = online \cup {id}
  /\ UNCHANGED <<balance, deaths, failures>>

Earn(id) ==
  /\ id \in online
  /\ balance' = [balance EXCEPT ![id] = @ + 1]
  /\ UNCHANGED <<online, deaths, failures>>

Leave(id) ==
  /\ id \in online
  /\ online' = online \ {id}
  /\ UNCHANGED <<balance, deaths, failures>>

(* An account that is not online may fall back.                            *)
Setback(id) ==
  IF id \in online \/ balance[id] = None THEN balance'[id] = balance[id]
  ELSE balance'[id] \in 0 .. balance[id]

Crash ==
  /\ deaths' = deaths + 1
  /\ UNCHANGED <<online, failures>>
  /\ \A id \in RoleId : Setback(id)

(* A query fails: failures[id] tells an odd number of them from an even.   *)
Fail(id) ==
  /\ failures' = [failures EXCEPT ![id] = 1 - @]
  /\ UNCHANGED <<online, deaths>>
  /\ Setback(id)
  /\ \A other \in RoleId \ {id} : balance'[other] = balance[other]

ANext ==
  \/ Crash
  \/ \E id \in RoleId : Open(id) \/ Enter(id) \/ Earn(id) \/ Leave(id) \/ Fail(id)

ASpec == AInit /\ [][ANext]_avars
=============================================================================
