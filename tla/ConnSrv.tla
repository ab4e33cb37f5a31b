------------------------------- MODULE ConnSrv -------------------------------
(* The gateway: it gives every client connection a descriptor, passes the  *)
(* clients' requests on to the one game server it is connected to, tells   *)
(* it of clients that went away, and closes connections the game server    *)
(* kicks.  While no game server is connected it keeps the requests in a    *)
(* cache.  Single threaded: one callback of the event loop is one action.  *)
(*                                                                         *)
(* A descriptor is reused as soon as it is closed.  The messages carry     *)
(* only the descriptor; the connection (conn) they belong to is known to   *)
(* the model alone, no guard of the code depends on it.                    *)
(*                                                                         *)
(* Answers to clients change no state of the gateway and are left out; see *)
(* Sight.  GameSystem puts a game server behind these steps.               *)
EXTENDS Naturals, Sequences, FiniteSets

CONSTANTS
  Fd,          \* descriptors of clients
  Body,        \* what a client can request
  Logout,      \* the request the gateway sends for a client that went away
  CacheSize,   \* MAX_CACHED_BUF_SIZE, in units of Size
  MaxConn,     \* bound of the model: client connections
  MaxQueue     \* bound of the model: messages in a socket

VARIABLES
  conn,      \* conn[fd]: the connection on fd, 0 when there is none
  count,     \* connections so far
  link,      \* server_map_head: "none", "up", or "broken" (the game server is
             \* gone, but its socket has not been read to the end yet)
  alone,     \* a game server runs whose connection was refused
  cache,     \* cached_buf
  toGame,    \* bytes on their way to the game server
  fromGame,  \* kicks on their way from the game server
  tainted    \* descriptors of connections that ended without the game server
             \* being told, and without its having asked for it

gate == <<conn, count, link, alone, cache, toGame, fromGame, tainted>>

Message == [fd : Fd, conn : 1 .. MaxConn, body : Body \cup {Logout}]
Notice  == [fd : Fd, conn : 1 .. MaxConn]

Init ==
  /\ conn = [fd \in Fd |-> 0]
  /\ count = 0
  /\ link = "none"
  /\ alone = FALSE
  /\ cache = <<>>
  /\ toGame = <<>>
  /\ fromGame = <<>>
  /\ tainted = {}

-----------------------------------------------------------------------------
(* Clients.                                                                *)

(* cb_listen, get_client_client_map: accept gives a free descriptor.       *)
Accept(fd) ==
  /\ conn[fd] = 0
  /\ count < MaxConn
  /\ count' = count + 1
  /\ conn' = [conn EXCEPT ![fd] = count + 1]
  /\ UNCHANGED <<link, alone, cache, toGame, fromGame, tainted>>

(* cache_to_gamesrv_buf: a message that does not fit is dropped.  A LOGOUT *)
(* is shorter than most requests.                                          *)
Size(m) == IF m.body = Logout THEN 1 ELSE 2
Fits(m) == LET long == {k \in DOMAIN cache : cache[k].body # Logout}
           IN  Len(cache) + Cardinality(long) + Size(m) <= CacheSize

(* transfer_to_gameserver, send_logout_request: to the socket, also when   *)
(* nobody reads it any more, or to the cache when there is none.           *)
Pass(m) ==
  \/ /\ link = "up"
     /\ Len(toGame) < MaxQueue
     /\ toGame' = Append(toGame, m)
     /\ UNCHANGED <<cache, tainted>>
  \/ /\ link = "none"
     /\ Fits(m)
     /\ cache' = Append(cache, m)
     /\ UNCHANGED <<toGame, tainted>>
  \/ /\ link = "broken" \/ (link = "none" /\ ~Fits(m))
     /\ tainted' = IF m.body = Logout THEN tainted \cup {m.fd} ELSE tainted
     /\ UNCHANGED <<cache, toGame>>

(* conn_cb_client_recv with a whole request in the buffer.                 *)
Forward(fd, body) ==
  /\ conn[fd] # 0
  /\ Pass([fd |-> fd, conn |-> conn[fd], body |-> body])
  /\ UNCHANGED <<conn, count, link, alone, fromGame>>

(* ... and at the end of the client's stream: LOGOUT, then the descriptor  *)
(* is closed and the slot released.                                        *)
ClientGoneKept(fd) ==                              \* mutant: the slot stays
  /\ conn[fd] # 0
  /\ Pass([fd |-> fd, conn |-> conn[fd], body |-> Logout])
  /\ UNCHANGED <<conn, count, link, alone, fromGame>>
ClientGone(fd) ==
  /\ conn[fd] # 0
  /\ Pass([fd |-> fd, conn |-> conn[fd], body |-> Logout])
  /\ conn' = [conn EXCEPT ![fd] = 0]
  /\ UNCHANGED <<count, link, alone, fromGame>>

(* conn_cb_server_recv on a KICK_ROLE_NOTIFY: kick_role closes whatever    *)
(* connection has the descriptor now, without a LOGOUT.                    *)
KickRead ==
  /\ link # "none"
  /\ fromGame # <<>>
  /\ LET n == Head(fromGame)
     IN  /\ conn' = [conn EXCEPT ![n.fd] = 0]
         /\ tainted' = IF conn[n.fd] \in {0, n.conn} THEN tainted
                       ELSE tainted \cup {n.fd}
  /\ fromGame' = Tail(fromGame)
  /\ UNCHANGED <<count, link, alone, cache, toGame>>

-----------------------------------------------------------------------------
(* The game server.                                                        *)

(* A connection while there is none: registered, then the cache is sent;   *)
(* or refused, because the one before has not been given up yet.           *)
FlushKeeps == toGame' = toGame \o cache /\ UNCHANGED cache     \* mutant: cached_len stays
FlushDrops == cache' = <<>> /\ UNCHANGED toGame                \* mutant: nothing is sent
Flush      == toGame' = toGame \o cache /\ cache' = <<>>

GameConnects ==
  /\ ~alone
  /\ \/ /\ link = "none"
        /\ link' = "up"
        /\ Flush
        /\ UNCHANGED alone
     \/ /\ link = "broken"
        /\ alone' = TRUE
        /\ UNCHANGED <<link, cache, toGame>>
  /\ UNCHANGED <<conn, count, fromGame, tainted>>

LogoutsOn(s) == {s[k].fd : k \in {j \in DOMAIN s : s[j].body = Logout}}

(* It dies: what it has not read is lost.  What it had sent may still be   *)
(* read, or be lost with a reset.                                          *)
GameDies ==
  /\ link = "up" \/ alone
  /\ alone' = FALSE
  /\ link' = IF link = "up" THEN "broken" ELSE link
  /\ tainted' = tainted \cup LogoutsOn(toGame)
  /\ toGame' = <<>>
  /\ UNCHANGED <<conn, count, cache, fromGame>>

(* conn_cb_server_recv at the end of its stream.                           *)
ServerGone ==
  /\ link = "broken"
  /\ link' = "none"
  /\ fromGame' = <<>>
  /\ UNCHANGED <<conn, count, alone, cache, toGame, tainted>>

(* It handles its next message and sends kicks.                            *)
GameReads(kicks) ==
  /\ link = "up"
  /\ toGame # <<>>
  /\ Len(fromGame) + Len(kicks) <= MaxQueue
  /\ toGame' = Tail(toGame)
  /\ fromGame' = fromGame \o kicks
  /\ UNCHANGED <<conn, count, link, alone, cache, tainted>>

(* It sends kicks for another reason; without a connection they are lost.  *)
GameWrites(kicks) ==
  /\ link = "up" \/ alone
  /\ Len(fromGame) + Len(kicks) <= MaxQueue
  /\ fromGame' = IF link = "up" THEN fromGame \o kicks ELSE fromGame
  /\ UNCHANGED <<conn, count, link, alone, cache, toGame, tainted>>

-----------------------------------------------------------------------------
(* A connection has one descriptor, and no message comes from a connection *)
(* that was never accepted.                                                *)
TypeOK ==
  /\ conn \in [Fd -> 0 .. MaxConn]
  /\ count \in 0 .. MaxConn
  /\ link \in {"none", "up", "broken"}
  /\ alone \in BOOLEAN
  /\ cache \in Seq(Message)
  /\ toGame \in Seq(Message)
  /\ fromGame \in Seq(Notice)
  /\ tainted \subseteq Fd

(* All that is on its way to the game server, in the order it will read it.*)
Pending == toGame \o cache

(* A new client never gets in front of the one whose descriptor it took    *)
(* over: on each descriptor the messages of an older connection come       *)
(* first, its LOGOUT is its last one, and the connection that is open now  *)
(* has not been logged out.  The cache never waits behind a socket in use. *)
OldestFirst ==
  /\ \A j, k \in DOMAIN Pending : j < k /\ Pending[j].fd = Pending[k].fd =>
       \/ Pending[j].conn < Pending[k].conn
       \/ Pending[j].conn = Pending[k].conn /\ Pending[j].body # Logout
  /\ \A k \in DOMAIN Pending : conn[Pending[k].fd] # 0 =>
       \/ Pending[k].conn < conn[Pending[k].fd]
       \/ Pending[k].conn = conn[Pending[k].fd] /\ Pending[k].body # Logout
  /\ cache # <<>> => link = "none"

IsLogout(m) == m.body = Logout

W == INSTANCE Wire WITH
       Ends  <- IsLogout,
       queue <- Pending,
       ended <- {c \in 1 .. count : \A fd \in Fd : conn[fd] # c}

(* Socket, cache, refusals and reconnections are one queue to the clients. *)
ActsAsWire == W!WSpec
=============================================================================
