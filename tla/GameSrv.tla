------------------------------- MODULE GameSrv -------------------------------
(***************************************************************************)
(* The life cycle of a player's role inside game_srv, together with the    *)
(* database server that persists it: what handle_login_request,            *)
(* handle_createrole_request, handle_logout_request, the transport and     *)
(* instance requests, the answers of db_srv, a kill of game_srv and its    *)
(* restart from shared memory do to the role pool, the role indexes, the   *)
(* scenes, the bags, the instances and the rows.                           *)
(*                                                                         *)
(* game_srv is single threaded: one handler runs at a time, so one handler *)
(* is one action.  The clients and conn_srv are the environment: any       *)
(* session may send any request at any time, which includes every order    *)
(* the gateway can produce (late messages of a kicked client, a reused     *)
(* descriptor, two connections of one account, two gateways).              *)
(*                                                                         *)
(* Shared memory (survives a kill): used, roleId, session, named, scene,   *)
(* bag, inst, money, members, bags, insts, team.  Process memory:          *)
(* idIdx, fdIdx.  The third index, by name, is written but never read      *)
(* (get_role_by_name has no caller) and is left out.                       *)
(***************************************************************************)
EXTENDS RoleTable, Sequences

CONSTANTS
  Area,            \* area_id of a login request; 0 is the only area in use
  Scene,           \* scenes created from the configuration
  RetiredScene,    \* scene ids a row may still name but no scene has
  StartScene,      \* scene of a newly inserted row
  Bag,             \* elements of the container pool
  Instance,        \* elements of the instance pool
  MaxRolePerScene, \* MAX_ROLE_PER_SCENE
  MaxMoney,        \* bound of the model: largest amount of money
  MaxPending,      \* bound of the model: messages in flight per direction
  MaxCrash         \* bound of the model: number of kills and faults

RowScene == Scene \cup RetiredScene

(* The part of DB_ROLE_INFO the properties tell apart.                     *)
Row == [scene : RowScene, money : 0..MaxMoney]

ASSUME ConstantsAssumption ==
  /\ None \notin Slot \cup RowScene \cup Bag \cup Instance \cup RoleId \cup Session
  /\ None \notin Row /\ None \notin 0..MaxMoney
  /\ Scene \cap RetiredScene = {}
  /\ StartScene \in RowScene
  /\ 0 \in Area /\ Area \subseteq Nat
  /\ MaxRolePerScene \in Nat
  /\ MaxMoney \in Nat
  /\ MaxPending \in Nat
  /\ MaxCrash \in Nat

VARIABLES
  crashes,   \* kills and faults so far
  named, scene, bag, inst, money,  \* fields of each slot, with roleId, session
  members,   \* members[sc]: slots listed in scene sc
  bags,      \* containers in use
  insts,     \* instances in use
  team,      \* team[i]: slots listed in instance i
  row,       \* the table DBRoleInfo
  failed,    \* history: flips with each fetch or store of the account that fails
  toDb,      \* requests to db_srv, in order
  fromDb     \* answers of db_srv, in order (its cache while game_srv is away)

fields  == <<roleId, session, named, scene, bag, inst, money>>
indexes == <<idIdx, fdIdx>>
things  == <<members, bags, insts, team>>
vars    == <<proc, crashes, used, indexes, fields, things, row, failed, toDb, fromDb>>

-----------------------------------------------------------------------------
(* Messages.  A store and the answer to a load carry a row.                *)

Request ==
       [type : {"fetch", "create"}, id : RoleId]
  \cup [type : {"store"}, id : RoleId, data : Row]

Answer ==
       [type : {"fetch", "create"}, id : RoleId, data : Row \cup {None}]
  \cup [type : {"store"}, id : RoleId]

TypeOK ==
  /\ proc \in {"up", "down"}
  /\ crashes \in 0..MaxCrash
  /\ used \subseteq Slot
  /\ idIdx \subseteq Slot
  /\ fdIdx \subseteq Slot
  /\ roleId \in [Slot -> RoleId \cup {None}]
  /\ session \in [Slot -> Session \cup {None}]
  /\ named \in [Slot -> BOOLEAN]
  /\ scene \in [Slot -> Scene \cup {None}]
  /\ bag \in [Slot -> Bag \cup {None}]
  /\ inst \in [Slot -> Instance \cup {None}]
  /\ money \in [Slot -> 0..MaxMoney]
  /\ members \in [Scene -> SUBSET Slot]
  /\ bags \subseteq Bag
  /\ insts \subseteq Instance
  /\ team \in [Instance -> SUBSET Slot]
  /\ row \in [RoleId -> Row \cup {None}]
  /\ failed \in [RoleId -> {0, 1}]
  /\ toDb \in Seq(Request)
  /\ fromDb \in Seq(Answer)

(* A fresh start: empty pools, any table.                                  *)
Init ==
  /\ proc = "up"
  /\ crashes = 0
  /\ used = {}
  /\ idIdx = {}
  /\ fdIdx = {}
  /\ roleId = [r \in Slot |-> None]
  /\ session = [r \in Slot |-> None]
  /\ named = [r \in Slot |-> FALSE]
  /\ scene = [r \in Slot |-> None]
  /\ bag = [r \in Slot |-> None]
  /\ inst = [r \in Slot |-> None]
  /\ money = [r \in Slot |-> 0]
  /\ members = [sc \in Scene |-> {}]
  /\ bags = {}
  /\ insts = {}
  /\ team = [i \in Instance |-> {}]
  /\ row \in [RoleId -> [scene : RowScene, money : {0}] \cup {None}]
  /\ failed = [id \in RoleId |-> 0]
  /\ toDb = <<>>
  /\ fromDb = <<>>

-----------------------------------------------------------------------------
(* add_role_to_scene: refused when the scene is full or lists r already.   *)
SceneFull(mem, sc)    == Cardinality(mem[sc]) >= MaxRolePerScene
Refuses(mem, sc, r)   == SceneFull(mem, sc) \/ r \in mem[sc]

JoinFullScene(mem, sc, r) == [mem EXCEPT ![sc] = @ \cup {r}]    \* mutant: full is only logged
JoinScene(mem, sc, r)     == IF Refuses(mem, sc, r) THEN mem
                             ELSE [mem EXCEPT ![sc] = @ \cup {r}]

(* create_container: any element of the free list, none when it is empty.  *)
FreeBags      == Bag \ bags

(* send_store_role_request: silent for a role without name, bag or scene.  *)
StoreOf(r, mon) == [type |-> "store", id |-> roleId[r],
                    data |-> [scene |-> scene[r], money |-> mon[r]]]

Stayers(E)  == {r \in E : /\ named[r] /\ bag[r] # None /\ scene[r] # None
                          /\ money[r] > 0}         \* mutant: not without money
Storable(E) == {r \in E : named[r] /\ bag[r] # None /\ scene[r] # None}

StoreRequests(E, mon) ==
  IF Storable(E) = {} THEN <<>>
  ELSE <<StoreOf(CHOOSE r \in Storable(E) : TRUE, mon)>>

(* What role_logout leaves, for the roles E it is run on (none, or one).   *)
ScenesWithout(E) == [sc \in Scene |-> members[sc] \ {r \in E : scene[r] = sc}]
BagsKept(E)      == bags                                        \* mutant: bag not destroyed
BagsWithout(E)   == bags \ {bag[r] : r \in E}
TeamWithout(E)   == [i \in Instance |-> team[i] \ {r \in E : inst[r] = i}]
InstsKept(E)     == insts                                       \* mutant: instance not destroyed
InstsWithout(E)  == {i \in insts : TeamWithout(E)[i] # {}
                                   \/ \A r \in E : inst[r] # i}
InstWithout(E)   == [r \in Slot |-> IF r \in E THEN None ELSE inst[r]]

-----------------------------------------------------------------------------
(* Requests of the clients, passed on by conn_srv.                         *)

Room(n) == Len(toDb) + n <= MaxPending

(* The process dies, by a signal or by a fault of its own.  db_srv still   *)
(* reads a prefix of what was sent; what it had answered is lost with the  *)
(* socket.  Shared memory stays as it is.                                  *)
GoDown ==
  /\ crashes < MaxCrash
  /\ crashes' = crashes + 1
  /\ Forget
  /\ \E n \in 0..Len(toDb) : toDb' = SubSeq(toDb, 1, n)
  /\ fromDb' = <<>>
  /\ UNCHANGED <<row, failed>>

(* init_role_data of slot r, after role_logout on E.                       *)
InitRoleData(E, r) ==
  /\ named' = [named EXCEPT ![r] = FALSE]
  /\ scene' = [scene EXCEPT ![r] = None]
  /\ bag' = [bag EXCEPT ![r] = None]
  /\ inst' = [InstWithout(E) EXCEPT ![r] = None]
  /\ UNCHANGED money

AdmitAnyRole(E, s, id) ==                                       \* mutant: any element
  \E r \in Slot : Enlist(E, r, s, id) /\ InitRoleData(E, r)
(* create_role, init_role_data and add_one_role, after role_logout on E.   *)
(* Which free slot the pool hands out is left open.                        *)
AdmitRole(E, s, id) ==
  \E r \in Slot \ (used \ E) : Enlist(E, r, s, id) /\ InitRoleData(E, r)

(* role_logout of E: store, unlink, leave scene, bag and instance.  The    *)
(* caller says what becomes of used, the indexes and the fields.           *)
ReleaseThings(E) ==
  /\ members' = ScenesWithout(E)
  /\ bags' = BagsWithout(E)
  /\ insts' = InstsWithout(E)
  /\ team' = TeamWithout(E)

(* What a login sends: the store of the kicked role, then the fetch.       *)
FetchRequest(id) == <<[type |-> "fetch", id |-> id]>>

FetchFirst(E, id)    == FetchRequest(id) \o StoreRequests(E, money)   \* mutant
FetchTwice(E, id)    == StoreRequests(E, money) \o FetchRequest(id) \o FetchRequest(id)  \* mutant
LoginMessages(E, id) == StoreRequests(E, money) \o FetchRequest(id)

(* handle_login_request.  The role of the same id is kicked first, which   *)
(* sends its store; then a new role is admitted and its row requested.     *)
(* The lookup uses the id with the area, the new role drops the area.      *)
LoginRequest(s, id, a) ==
  LET E == IF a = 0 THEN ById(id) ELSE {}
  IN  /\ proc = "up"
      /\ Room(2)
      /\ ReleaseThings(E)
      /\ AdmitRole(E, s, id)
      /\ toDb' = toDb \o LoginMessages(E, id)
      /\ UNCHANGED <<proc, crashes, row, failed, fromDb>>

(* The pool is full and there was nobody to kick: the failure answer is    *)
(* addressed with ROLE_FD(NULL), and the process dies.                     *)
LoginPoolFull(s, id, a) ==
  /\ proc = "up"
  /\ used = Slot
  /\ a = 0 => ById(id) = {}
  /\ GoDown
  /\ UNCHANGED <<used, fields, things>>

(* handle_createrole_request on a session that has a role, which must be   *)
(* unnamed and have the same id.                                           *)
CreateroleRequest(s, id) ==
  /\ proc = "up"
  /\ Room(1)
  /\ \E r \in BySession(s) : ~named[r] /\ roleId[r] = id
  /\ toDb' = Append(toDb, [type |-> "create", id |-> id])
  /\ UNCHANGED <<proc, crashes, used, indexes, fields, things, row, failed, fromDb>>

(* ... and on a session without one.                                       *)
CreateroleNewRole(s, id) ==
  /\ proc = "up"
  /\ Room(1)
  /\ BySession(s) = {}
  /\ AdmitRole({}, s, id)
  /\ toDb' = Append(toDb, [type |-> "create", id |-> id])
  /\ UNCHANGED <<proc, crashes, things, row, failed, fromDb>>

CreaterolePoolFull(s) ==
  /\ proc = "up"
  /\ BySession(s) = {}
  /\ used = Slot
  /\ GoDown
  /\ UNCHANGED <<used, fields, things>>

(* The pool and the indexes after role_logout of E, E's fields left behind.*)
ReleaseRoles(E) ==
  /\ Delist(E)
  /\ inst' = InstWithout(E)
  /\ UNCHANGED <<named, scene, bag>>

(* handle_logout_request: sent by a client, or by conn_srv for a client    *)
(* that went away.                                                         *)
LogoutRequest(s) ==
  LET E == BySession(s)
  IN  /\ proc = "up"
      /\ Room(1)
      /\ E # {}
      /\ ReleaseThings(E)
      /\ ReleaseRoles(E)
      /\ toDb' = toDb \o StoreRequests(E, money)
      /\ UNCHANGED <<proc, crashes, money, row, failed, fromDb>>

(* handle_transport_request to an existing scene: leave the old scene's    *)
(* list, enter the new one unless it is full.  Neither the instance nor    *)
(* whether the role's row has arrived is looked at.                        *)
TransportRequest(s, sc) ==
  /\ proc = "up"
  /\ \E r \in BySession(s) :
       LET left == ScenesWithout({r})
       IN  /\ members' = JoinScene(left, sc, r)
           /\ scene' = [scene EXCEPT ![r] = IF Refuses(left, sc, r) THEN @ ELSE sc]
  /\ UNCHANGED <<proc, crashes, used, indexes, roleId, session, named, bag, inst,
                 money, bags, insts, team, row, failed, toDb, fromDb>>

(* ... of a session without a role: the refusal reads the request that was *)
(* never unpacked (req is still NULL), and the process dies.               *)
TransportNoRole(s) ==
  /\ proc = "up"
  /\ BySession(s) = {}
  /\ GoDown
  /\ UNCHANGED <<used, fields, things>>

(* handle_enter_instance_request: a new instance for the role, which       *)
(* leaves its scene's list but keeps its scene.                            *)
EnterInstanceRequest(s) ==
  /\ proc = "up"
  /\ \E r \in BySession(s), i \in Instance \ insts :
       /\ scene[r] # None
       /\ inst[r] = None
       /\ insts' = insts \cup {i}
       /\ team' = [team EXCEPT ![i] = {r}]
       /\ inst' = [inst EXCEPT ![r] = i]
       /\ members' = ScenesWithout({r})
  /\ UNCHANGED <<proc, crashes, used, indexes, roleId, session, named, scene, bag,
                 money, bags, row, failed, toDb, fromDb>>

(* handle_leave_instance_request: back to the scene's list unless full.    *)
LeaveInstanceRequest(s) ==
  /\ proc = "up"
  /\ \E r \in BySession(s) :
       /\ scene[r] # None
       /\ inst[r] # None
       /\ insts' = InstsWithout({r})
       /\ team' = TeamWithout({r})
       /\ inst' = InstWithout({r})
       /\ members' = JoinScene(members, scene[r], r)
  /\ UNCHANGED <<proc, crashes, used, indexes, roleId, session, named, scene, bag,
                 money, bags, row, failed, toDb, fromDb>>

(* modify_role_money, as the rewards of quests and drops call it.          *)
EarnMoney(s) ==
  /\ proc = "up"
  /\ \E r \in BySession(s) :
       /\ named[r]
       /\ money[r] < MaxMoney
       /\ money' = [money EXCEPT ![r] = @ + 1]
  /\ UNCHANGED <<proc, crashes, used, indexes, roleId, session, named, scene, bag,
                 inst, things, row, failed, toDb, fromDb>>

-----------------------------------------------------------------------------
(* Answers of db_srv, handled by handle_roledb_msg.                        *)

(* init_role_data_from_db with a scene and a free container, then          *)
(* role_login.  A bag the role already had is not freed.                   *)
LoadSucceeds(r, d) ==
  /\ d.scene \in Scene
  /\ \E b \in FreeBags :
       /\ bags' = bags \cup {b}
       /\ bag' = [bag EXCEPT ![r] = b]
  /\ named' = [named EXCEPT ![r] = TRUE]
  /\ scene' = [scene EXCEPT ![r] = d.scene]
  /\ money' = [money EXCEPT ![r] = d.money]
  /\ members' = JoinScene(members, d.scene, r)
  /\ UNCHANGED <<proc, crashes, used, indexes, roleId, session, inst, insts, team,
                 row, failed, toDb>>

LoadRefused(d) == d.scene \notin Scene \/ bags = Bag

(* ... without: only the money has been taken over.  The role is kicked,   *)
(* and the caller goes on with the released role: role_login lists it in   *)
(* its scene again if it has a name.                                       *)
LoadFails(r, d) ==
  LET mon  == [money EXCEPT ![r] = d.money]
      left == ScenesWithout({r})
  IN  /\ LoadRefused(d)
      /\ money' = mon
      /\ ReleaseRoles({r})
      /\ bags' = BagsWithout({r})
      /\ insts' = InstsWithout({r})
      /\ team' = TeamWithout({r})
      /\ members' = IF named[r] THEN JoinScene(left, scene[r], r) ELSE left
      /\ toDb' = toDb \o StoreRequests({r}, mon)
      /\ UNCHANGED <<proc, crashes, row, failed>>

(* ... or the process dies on the uninitialised blob_info it frees.        *)
LoadFaults(r, d) ==
  /\ LoadRefused(d)
  /\ money' = [money EXCEPT ![r] = d.money]
  /\ GoDown
  /\ UNCHANGED <<used, roleId, session, named, scene, bag, inst, things>>

(* A refused answer still ends in role_login of the role it finds.         *)
RefusedLogin(r) ==
  /\ members' = IF named[r] THEN JoinScene(members, scene[r], r) ELSE members
  /\ UNCHANGED <<proc, crashes, used, indexes, fields, bags, insts, team, row, failed, toDb>>

(* send_login_resp and send_createrole_resp.                               *)
RoleDataResponse ==
  /\ proc = "up"
  /\ fromDb # <<>>
  /\ LET m == Head(fromDb)
     IN  /\ m.type \in {"fetch", "create"}
         /\ \/ /\ fromDb' = Tail(fromDb)
               /\ \/ /\ ById(m.id) = {}
                     /\ UNCHANGED <<proc, crashes, used, indexes, fields, things, row, failed, toDb>>
                  \/ \E r \in ById(m.id) :
                       IF m.data = None THEN RefusedLogin(r)
                       ELSE LoadSucceeds(r, m.data) \/ LoadFails(r, m.data)
            \/ \E r \in ById(m.id) : m.data # None /\ LoadFaults(r, m.data)

(* The answer to a store is only logged.                                   *)
StoreResponse ==
  /\ proc = "up"
  /\ fromDb # <<>>
  /\ Head(fromDb).type = "store"
  /\ fromDb' = Tail(fromDb)
  /\ UNCHANGED <<proc, crashes, used, indexes, fields, things, row, failed, toDb>>

-----------------------------------------------------------------------------
(* db_srv: one request at a time, answered in order.  While game_srv is    *)
(* away an answer is cached, or lost in the closing socket.                *)

DbAnswersOrNot(m) == fromDb' \in {Append(fromDb, m), fromDb}    \* mutant: may be lost

DbAnswers(m) ==
  \/ fromDb' = Append(fromDb, m)
  \/ proc = "down" /\ UNCHANGED fromDb

DbHandle ==
  /\ toDb # <<>>
  /\ Len(fromDb) < MaxPending
  /\ toDb' = Tail(toDb)
  /\ UNCHANGED <<proc, crashes, used, indexes, fields, things>>

(* query fails: mysqld refuses the statement, its connection breaks, or an *)
(* update meets other than one row.                                        *)
QueryFails(id) ==
  /\ failed' = [failed EXCEPT ![id] = 1 - @]
  /\ UNCHANGED row

(* fetch_role_handle: a query that fails is answered like a missing row.   *)
FetchRole ==
  /\ DbHandle
  /\ LET q     == Head(toDb)
         of(d) == [type |-> "fetch", id |-> q.id, data |-> d]
     IN  /\ q.type = "fetch"
         /\ \/ DbAnswers(of(row[q.id])) /\ UNCHANGED <<row, failed>>
            \/ DbAnswers(of(None)) /\ QueryFails(q.id)

(* create_role_handle: an insert.  It is refused when the row exists or    *)
(* another row has the name, and may fail for any other reason; one that   *)
(* broke off may have reached the table all the same.                      *)
CreateRole ==
  /\ DbHandle
  /\ LET q     == Head(toDb)
         new   == [scene |-> StartScene, money |-> 0]
         of(d) == [type |-> "create", id |-> q.id, data |-> d]
     IN  /\ q.type = "create"
         /\ \/ /\ row[q.id] = None
               /\ row' = [row EXCEPT ![q.id] = new]
               /\ DbAnswers(of(new)) \/ DbAnswers(of(None))
            \/ DbAnswers(of(None)) /\ UNCHANGED row
  /\ UNCHANGED failed

(* store_role_handle: an update, which changes nothing without a row or    *)
(* when it fails.  game_srv only logs that it failed, so the answer does   *)
(* not tell.                                                               *)
StoreRole ==
  /\ DbHandle
  /\ LET q == Head(toDb)
     IN  /\ q.type = "store"
         /\ DbAnswers([type |-> "store", id |-> q.id])
         /\ \/ /\ row' = [row EXCEPT ![q.id] = IF @ = None THEN @ ELSE q.data]
               /\ UNCHANGED failed
            \/ QueryFails(q.id)

-----------------------------------------------------------------------------
(* kill -9 of game_srv, and its restart with the shared memory kept.       *)

Kill ==
  /\ proc = "up"
  /\ GoDown
  /\ UNCHANGED <<used, fields, things>>

(* init_all_objs(resume): resume_role_data links the used slots again in   *)
(* the order of the used list.                                             *)
Resume ==
  /\ Relink
  /\ UNCHANGED <<crashes, fields, things, row, failed, toDb, fromDb>>

-----------------------------------------------------------------------------
ClientRequest ==
  \E s \in Session :
    \/ \E id \in RoleId :
         \/ \E a \in Area : LoginRequest(s, id, a) \/ LoginPoolFull(s, id, a)
         \/ CreateroleRequest(s, id)
         \/ CreateroleNewRole(s, id)
    \/ CreaterolePoolFull(s)
    \/ LogoutRequest(s)
    \/ \E sc \in Scene : TransportRequest(s, sc)
    \/ TransportNoRole(s)
    \/ EnterInstanceRequest(s)
    \/ LeaveInstanceRequest(s)
    \/ EarnMoney(s)

DbResponse == RoleDataResponse \/ StoreResponse
DbServer   == FetchRole \/ CreateRole \/ StoreRole

Next == ClientRequest \/ DbResponse \/ DbServer \/ Kill \/ Resume

Spec == Init /\ [][Next]_vars

(* libevent serves every descriptor that stays readable.                   *)
FairSpec == Spec /\ WF_vars(DbResponse) /\ WF_vars(DbServer) /\ WF_vars(Resume)

-----------------------------------------------------------------------------
(* Properties.                                                             *)

(* Every role the session index finds is found by its id too, both find    *)
(* roles of the used list only, a used role has both keys, and a key finds *)
(* one role: what lets role_logout unlink and free whatever role a lookup  *)
(* returned.                                                               *)
IndexInv ==
  /\ fdIdx \subseteq idIdx
  /\ idIdx \subseteq used
  /\ \A r \in used : roleId[r] # None /\ session[r] # None
  /\ \A r, q \in idIdx : roleId[r] = roleId[q] => r = q
  /\ \A r, q \in fdIdx : session[r] = session[q] => r = q

(* No container is the bag of two roles, and the bag of a role is not in   *)
(* the free list: a logout never frees what another role still uses, in    *)
(* whatever order logins, loads, kicks and kills come.                     *)
BagInv ==
  /\ \A r \in used : bag[r] # None => bag[r] \in bags
  /\ \A r, q \in used : bag[r] = bag[q] /\ bag[r] # None => r = q

(* An instance is in use exactly while its list of roles is not empty, and *)
(* it lists exactly the used roles that point at it: no role keeps a       *)
(* pointer to a destroyed instance, and no instance is left behind.        *)
InstanceInv ==
  /\ insts = {i \in Instance : team[i] # {}}
  /\ \A i \in Instance : team[i] = {r \in used : inst[r] = i}

(* Bags and instances have the owners that point at them, and no others.   *)
OwnersInv == BagInv /\ InstanceInv

(* A role with a name has a scene and a bag: role_login asserts the scene, *)
(* send_store_role_request would drop the role's data without them, and    *)
(* resume_role_data would not link the role again.                         *)
NamedInv ==
  \A r \in used : named[r] => scene[r] # None /\ bag[r] # None

InFlight == fromDb \o toDb

(* As long as game_srv is not killed, the last load in flight for a role   *)
(* that is linked is not followed by a store of the same id, and when it   *)
(* has been answered the answer is still what the table holds: the store   *)
(* of a kicked role always reaches db_srv before the load of its successor.*)
LoadIsFresh == crashes = 0 =>
  \A r \in idIdx : \A k \in DOMAIN InFlight :
    LET m == InFlight[k]
    IN  /\ m.type # "store"
        /\ m.id = roleId[r]
        /\ \A j \in k + 1 .. Len(InFlight) :
             InFlight[j].id = m.id => InFlight[j].type = "store"
        => /\ \A j \in k + 1 .. Len(InFlight) : InFlight[j].id # m.id
           /\ k \in DOMAIN fromDb /\ m.data # None => m.data = row[m.id]

(* A role with a name never leaves game_srv, by logout, kick or a refused  *)
(* load, without a store of its last scene and money behind everything     *)
(* sent before.                                                            *)
StoredOnRelease ==
  [][\A r \in used :
       named[r] /\ (r \notin used' \/ ~named'[r]) =>
         \E k \in Len(toDb) + 1 .. Len(toDb') :
           toDb'[k] = [type |-> "store", id |-> roleId[r],
                       data |-> [scene |-> scene[r], money |-> money'[r]]]]_vars

(* A load that is on its way for a linked role whose row exists ends: the  *)
(* role gets its data, or it is gone, or a query of its account fails      *)
(* meanwhile (a fetch that fails leaves the role linked and without data,  *)
(* and nobody asks again).                                                 *)
LoadEnds ==
  \A r \in Slot, id \in RoleId, f \in {0, 1} :
    /\ r \in idIdx /\ roleId[r] = id /\ ~named[r] /\ row[id] # None
    /\ failed[id] = f
    /\ \E k \in DOMAIN toDb : toDb[k] = [type |-> "fetch", id |-> id]
    ~> named[r] \/ r \notin idIdx \/ roleId[r] # id \/ failed[id] # f
=============================================================================
