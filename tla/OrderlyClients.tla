---------------------------- MODULE OrderlyClients ----------------------------
(* GameSrv under clients that behave: a client asks for a login or a new   *)
(* role only when no load of that account is on its way, on a connection   *)
(* that has no role, and plays only after its role's data arrived.  It may *)
(* still leave at any moment, a second connection may take over an account *)
(* that is online, and game_srv may be killed and restarted at any moment. *)
(* The modules' deepest promises hold under these clients and not under    *)
(* arbitrary ones; no line of the server enforces the discipline.          *)
EXTENDS GameSrv

(* No load of id is in flight.                                             *)
Idle(id) == \A k \in DOMAIN InFlight :
              InFlight[k].id = id => InFlight[k].type = "store"

Playing(s) == \E r \in BySession(s) : named[r]
Waiting(s) == \E r \in BySession(s) : ~named[r]

OrderlyRequest ==
  \E s \in Session :
    \/ \E id \in RoleId :
         /\ Idle(id)
         /\ \/ BySession(s) = {} /\ LoginRequest(s, id, 0)
            \/ Waiting(s) /\ CreateroleRequest(s, id)
    \/ LogoutRequest(s)
    \/ /\ Playing(s)
       /\ \/ \E sc \in Scene : /\ \A r \in BySession(s) : inst[r] = None
                               /\ TransportRequest(s, sc)
          \/ EnterInstanceRequest(s)
          \/ LeaveInstanceRequest(s)
          \/ EarnMoney(s)

OrderlyNext == OrderlyRequest \/ DbResponse \/ DbServer \/ Kill \/ Resume

OrderlySpec == Init /\ [][OrderlyNext]_vars

-----------------------------------------------------------------------------
(* A scene lists only roles that are in use, have their data, point back   *)
(* at that scene and are not in an instance: broadcasts and resume never   *)
(* follow a dangling or a doubled entry.                                   *)
ScenesExact ==
  \A sc \in Scene : \A r \in members[sc] :
    r \in used /\ named[r] /\ scene[r] = sc /\ inst[r] = None

(* Nothing leaks: every used role is found by its id and by its session,   *)
(* and every container in use is the bag of one of them.                   *)
NothingLeaks ==
  /\ proc = "up" => used = idIdx /\ used = fdIdx
  /\ bags = {bag[r] : r \in {q \in used : named[q]}}

(* No load is in flight for a role that has its data: an answer never      *)
(* overwrites what the role did since.                                     *)
LoadsOnce ==
  \A r \in idIdx : named[r] => Idle(roleId[r])

-----------------------------------------------------------------------------
(* Where an account's money is: in the role while it is online, else in    *)
(* the last store on its way to db_srv, else in its row.                   *)
OnlineRoles(id) == {r \in used : roleId[r] = id /\ named[r]}
Stores(id)      == {k \in DOMAIN toDb : toDb[k].id = id /\ toDb[k].type = "store"}

Balance ==
  [id \in RoleId |->
     IF OnlineRoles(id) # {} THEN money[CHOOSE r \in OnlineRoles(id) : TRUE]
     ELSE IF Stores(id) # {}
     THEN toDb[CHOOSE k \in Stores(id) : \A j \in Stores(id) : j <= k].data.money
     ELSE IF row[id] = None THEN None ELSE row[id].money]

A == INSTANCE Account WITH balance  <- Balance,
                           online   <- {id \in RoleId : OnlineRoles(id) # {}},
                           deaths   <- crashes,
                           failures <- failed

(* The servers implement Account.  A role that is online keeps its money   *)
(* over a kill and the restart on the shared memory, and whatever queries  *)
(* fail; a store that fails takes no other account's money, and what was   *)
(* lost never comes back by a store or a load that arrives late.           *)
KeepsAccounts == A!ASpec
=============================================================================
