------------------------------ MODULE RoleTable ------------------------------
(* game_srv reduced to its table of roles: which elements of the pool are  *)
(* used, and what the two indexes find.  GameSrv adds everything a handler *)
(* does beside this and is shown to implement TableSpec; GameSystem puts   *)
(* the table behind the gateway.                                           *)
EXTENDS Naturals, FiniteSets

CONSTANTS
  Slot,      \* elements of the role pool
  RoleId,    \* account ids (the low 32 bits of a role_id)
  Session,   \* connection identities: fd | index of the conn_srv << 16
  None       \* NULL / MAX_IDX / no such row

VARIABLES
  proc,      \* "up", or "down" between a kill and the restart
  used,      \* slots in the used list of the role pool
  idIdx,     \* slots linked in root_role_id_head
  fdIdx,     \* slots linked in root_role_fd_head
  roleId,    \* account of each slot
  session    \* session of each slot

table == <<proc, used, idIdx, fdIdx, roleId, session>>

(* Lookups: the roles a search of an index returns (none, or one).         *)
ById(id)     == {r \in idIdx : roleId[r] = id}
BySession(s) == {r \in fdIdx : session[r] = s}

(* role_rbdata_add: the id index first, then the session index; a          *)
(* duplicate key stops it, and add_one_role reports success all the same.  *)
(* (Operators marked "mutant" are planted errors, used by no action.)      *)
LinkId(ids, r, id) == IF \E q \in ids : roleId[q] = id THEN ids ELSE ids \cup {r}

LinkFdAnyway(ids, fds, r, id, s) == fds \cup {r}               \* mutant: no duplicate check
LinkFd(ids, fds, r, id, s) ==
  IF \/ \E q \in ids : roleId[q] = id
     \/ \E q \in fds : session[q] = s
  THEN fds ELSE fds \cup {r}

(* create_role and add_one_role of slot r, after role_logout on E.         *)
Enlist(E, r, s, id) ==
  /\ used' = (used \ E) \cup {r}
  /\ idIdx' = LinkId(idIdx \ E, r, id)
  /\ fdIdx' = LinkFd(idIdx \ E, fdIdx \ E, r, id, s)
  /\ roleId' = [roleId EXCEPT ![r] = id]
  /\ session' = [session EXCEPT ![r] = s]
  /\ UNCHANGED proc

(* role_logout of E: unlinked and freed, its fields left behind.           *)
DelistIdOnly(E) ==                                              \* mutant: fd tree forgotten
  /\ used' = used \ E
  /\ idIdx' = idIdx \ E
  /\ UNCHANGED <<proc, fdIdx, roleId, session>>
Delist(E) ==
  /\ used' = used \ E
  /\ idIdx' = idIdx \ E
  /\ fdIdx' = fdIdx \ E
  /\ UNCHANGED <<proc, roleId, session>>

(* The process dies; the trees were its own memory, the pool is shared.    *)
Forget ==
  /\ proc = "up"
  /\ proc' = "down"
  /\ idIdx' = {}
  /\ fdIdx' = {}
  /\ UNCHANGED <<used, roleId, session>>

(* resume_role_data links the used slots again in the order of the used    *)
(* list; of several with one key one gets the place.                       *)
OneForEachKey(linked, roles, key) ==
  /\ \A r \in roles : \E q \in linked : key[q] = key[r]
  /\ \A r, q \in linked : key[r] = key[q] => r = q

Relink ==
  /\ proc = "down"
  /\ proc' = "up"
  /\ \E ids \in SUBSET used, fds \in SUBSET used :
       /\ OneForEachKey(ids, used, roleId)
       /\ fds \subseteq ids
       /\ OneForEachKey(fds, ids, session)
       /\ idIdx' = ids
       /\ fdIdx' = fds
  /\ UNCHANGED <<used, roleId, session>>

-----------------------------------------------------------------------------
TableInit ==
  /\ proc \in {"up", "down"}
  /\ used = {}
  /\ idIdx = {}
  /\ fdIdx = {}
  /\ roleId = [r \in Slot |-> None]
  /\ session = [r \in Slot |-> None]

(* A login with or without a kick, or a new role on a session without one; *)
(* a logout or a refused load; a death; a restart.                         *)
TableNext ==
  \/ /\ proc = "up"
     /\ \/ \E s \in Session, id \in RoleId : \E E \in {ById(id), {}} :
             \E r \in Slot \ (used \ E) : Enlist(E, r, s, id)
        \/ \E r \in idIdx : Delist({r})
  \/ Forget
  \/ Relink

TableSpec == TableInit /\ [][TableNext]_table
=============================================================================
