------------------------------ MODULE GameSystem ------------------------------
(* The gateway in front of the role table: ConnSrv and RoleTable composed. *)
(* game_srv knows a client by its descriptor only; descriptors are reused, *)
(* kicks and LOGOUTs cross each other on the way, and the game server may  *)
(* die and come back with the roles it had.  GameSrv implements RoleTable, *)
(* so what holds here of the table holds of game_srv behind the gateway.   *)
(*                                                                         *)
(* Clients log in once on a connection, and leave by closing it: a         *)
(* LOGOUT_REQUEST of their own is not sent.  With one conn_srv the session *)
(* of a request is its descriptor.                                         *)
EXTENDS RoleTable, Sequences

CONSTANTS
  Play,        \* any request but a login or a logout
  Logout,      \* the gateway's, for a client that went away
  CacheSize, MaxConn, MaxQueue,
  MaxCrash     \* bound of the model: deaths of the game server

ASSUME GameSystemAssumption ==
  /\ Play \notin RoleId /\ Logout \notin RoleId \cup {Play}
  /\ CacheSize \in Nat /\ MaxConn \in Nat /\ MaxQueue \in Nat /\ MaxCrash \in Nat

VARIABLES
  conn, count, link, alone, cache, toGame, fromGame, tainted,  \* ConnSrv
  owner,     \* owner[r]: the connection whose login the role r is from
  logins,    \* connections that have sent their login
  crashes    \* deaths so far

(* A request that is an account id is a login of that account.             *)
C == INSTANCE ConnSrv WITH Fd <- Session, Body <- RoleId \cup {Play}

gate == <<conn, count, link, alone, cache, toGame, fromGame, tainted>>
vars == <<table, gate, owner, logins, crashes>>

Init ==
  /\ TableInit
  /\ proc = "down"
  /\ C!Init
  /\ owner = [r \in Slot |-> 0]
  /\ logins = {}
  /\ crashes = 0

-----------------------------------------------------------------------------
(* Clients and the gateway.                                                *)

ClientConnects(fd) ==
  /\ C!Accept(fd)
  /\ UNCHANGED <<table, owner, logins, crashes>>

ClientLogsIn(fd, id) ==
  /\ conn[fd] \notin logins
  /\ C!Forward(fd, id)
  /\ logins' = logins \cup {conn[fd]}
  /\ UNCHANGED <<table, owner, crashes>>

ClientPlays(fd) ==
  /\ conn[fd] \in logins
  /\ C!Forward(fd, Play)
  /\ UNCHANGED <<table, owner, logins, crashes>>

ClientGone(fd) ==
  /\ C!ClientGone(fd)
  /\ UNCHANGED <<table, owner, logins, crashes>>

GatewayKicks ==
  /\ C!KickRead
  /\ UNCHANGED <<table, owner, logins, crashes>>

ServerGone ==
  /\ C!ServerGone
  /\ UNCHANGED <<table, owner, logins, crashes>>

-----------------------------------------------------------------------------
(* game_srv.                                                               *)

(* kick_role sends its notice to the descriptor of the role.               *)
KicksOf(E) ==
  IF E = {} THEN <<>>
  ELSE LET r == CHOOSE q \in E : TRUE
       IN  <<[fd |-> session[r], conn |-> owner[r]]>>

(* handle_login_request                                                    *)
Login ==
  /\ proc = "up"
  /\ toGame # <<>>
  /\ LET m == Head(toGame)
     IN  /\ m.body \in RoleId
         /\ \E r \in Slot \ (used \ ById(m.body)) :
              /\ Enlist(ById(m.body), r, m.fd, m.body)
              /\ owner' = [owner EXCEPT ![r] = m.conn]
         /\ C!GameReads(KicksOf(ById(m.body)))
  /\ UNCHANGED <<logins, crashes>>

(* handle_logout_request; no role, nothing to do.                          *)
LogOut ==
  /\ proc = "up"
  /\ toGame # <<>>
  /\ Head(toGame).body = Logout
  /\ Delist(BySession(Head(toGame).fd))
  /\ C!GameReads(<<>>)
  /\ UNCHANGED <<owner, logins, crashes>>

(* Every other request changes nothing of the table.                       *)
Handle ==
  /\ proc = "up"
  /\ toGame # <<>>
  /\ Head(toGame).body = Play
  /\ C!GameReads(<<>>)
  /\ UNCHANGED <<table, owner, logins, crashes>>

(* A load that is refused kicks its role.                                  *)
LoadFails(r) ==
  /\ proc = "up"
  /\ r \in idIdx
  /\ C!GameWrites(KicksOf({r}))
  /\ Delist({r})
  /\ UNCHANGED <<owner, logins, crashes>>

(* The process dies, also of a login that finds the pool full, and is      *)
(* started again on its shared memory.                                     *)
GameDies ==
  /\ crashes < MaxCrash
  /\ crashes' = crashes + 1
  /\ Forget
  /\ C!GameDies
  /\ UNCHANGED <<owner, logins>>

GameStarts ==
  /\ Relink
  /\ C!GameConnects
  /\ UNCHANGED <<owner, logins, crashes>>

GameHandles == Login \/ LogOut \/ Handle

Next ==
  \/ \E fd \in Session :
       \/ ClientConnects(fd)
       \/ \E id \in RoleId : ClientLogsIn(fd, id)
       \/ ClientPlays(fd)
       \/ ClientGone(fd)
  \/ GatewayKicks \/ ServerGone
  \/ GameHandles
  \/ \E r \in Slot : LoadFails(r)
  \/ GameDies \/ GameStarts

Spec == Init /\ [][Next]_vars

-----------------------------------------------------------------------------
(* Properties.                                                             *)

TypeOK ==
  /\ C!TypeOK
  /\ used \subseteq Slot /\ idIdx \subseteq Slot /\ fdIdx \subseteq Slot
  /\ roleId \in [Slot -> RoleId \cup {None}]
  /\ session \in [Slot -> Session \cup {None}]
  /\ owner \in [Slot -> 0 .. MaxConn]
  /\ proc = "up" <=> link = "up" \/ alone
  /\ logins \subseteq 1 .. MaxConn
  /\ crashes \in 0 .. MaxCrash

(* What ConnSrv promises, with a game server that reads, kicks and dies as *)
(* game_srv does.                                                          *)
OldestFirst == TypeOK /\ C!OldestFirst
ActsAsWire  == C!ActsAsWire

LogoutPending(r) ==
  \E k \in DOMAIN C!Pending :
    LET m == C!Pending[k]
    IN  m.fd = session[r] /\ m.conn = owner[r] /\ m.body = Logout

(* Every role has a way out: its client is still connected, or the LOGOUT  *)
(* of its client is on the way; a role whose client is gone would stay     *)
(* online for ever.  On a descriptor whose LOGOUT was lost, or that a late *)
(* kick has closed under another client, this is not so.                   *)
EveryRoleHasAWayOut ==
  \A r \in used :
    \/ session[r] \in tainted
    \/ conn[session[r]] = owner[r]
    \/ LogoutPending(r)

(* No client acts for another: what the game server reads next acts on the *)
(* role its own connection logged in, though it is found by a descriptor   *)
(* that other clients have had and will have.  On a tainted descriptor the *)
(* role that was left behind acts for whoever comes next.                  *)
NoImpersonation ==
  proc = "up" /\ toGame # <<>> /\ Head(toGame).body \notin RoleId =>
    LET m == Head(toGame)
    IN  \A r \in BySession(m.fd) : m.fd \in tainted \/ owner[r] = m.conn
=============================================================================
