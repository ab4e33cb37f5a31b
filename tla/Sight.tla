-------------------------------- MODULE Sight ---------------------------------
(* What players see of each other.  game_srv keeps who is in a scene and   *)
(* where, and never sends it as a whole twice: a client is told who is     *)
(* there when it comes, and from then on who comes, goes and moves.  The   *)
(* notices pass conn_srv, which looks at nothing but descriptors.  A       *)
(* handler writes and sends step by step, and game_srv may be killed after *)
(* any step of a load, a move or a change of place; a logout is not cut    *)
(* short, and what a kill costs a LOGOUT is in GameSystem.                 *)
(*                                                                         *)
(* Clients change scenes and instances as their user interface lets them,  *)
(* and log in to accounts that are not online; GameSystem has the others.  *)
EXTENDS Naturals, Sequences, FiniteSets

CONSTANTS
  Role, Scene, Pos,  \* accounts, scenes, places in a scene
  Fd,                \* descriptors of clients
  None,
  Enter,             \* enter_pos_x, enter_pos_y of a scene
  Cap,               \* MAX_ROLE_PER_SCENE
  MaxRequest,        \* bound of the model: logins and LOGOUTs in the socket
  MaxWire,           \* bound of the model: notices in the socket when a handler begins
  MaxFault           \* bound of the model

ASSUME SightAssumption ==
  /\ None \notin Role \cup Scene \cup Fd \cup Pos
  /\ Enter \in Pos /\ Cap \in Nat /\ MaxRequest \in Nat /\ MaxWire \in Nat /\ MaxFault \in Nat

VARIABLES
  owner,     \* owner[f]: the account the client on f plays, None without a client
  toGame,    \* logins and LOGOUTs on their way to game_srv
  session,   \* session[r]: ROLE.session_id, None without a role
  away,      \* roles in an instance
  path,      \* ROLE.path
  place,     \* ROLE.scene, None before the data of the role has arrived
  members,   \* SCENE.roles
  wire,      \* notices on their way to conn_srv
  missed,    \* descriptors whose client missed a notice since it last changed place
  sight,     \* sight[f]: whom the client on f sees, and where
  faults     \* deaths of game_srv and notices lost so far

clients == <<owner, toGame>>
roles   == <<session, away, path>>
tables  == <<place, members>>
vars    == <<clients, roles, tables, wire, missed, sight, faults>>

Nobody == [r \in Role |-> None]
Online == {r \in Role : session[r] # None}

Init ==
  /\ owner = [f \in Fd |-> None] /\ toGame = << >>
  /\ session = [r \in Role |-> None] /\ place = [r \in Role |-> None]
  /\ away = {} /\ path = [r \in Role |-> Enter]
  /\ members = [s \in Scene |-> {}]
  /\ wire = << >> /\ missed = {}
  /\ sight = [f \in Fd |-> Nobody] /\ faults = 0

-----------------------------------------------------------------------------
(* Clients.                                                                *)
Request(m) ==
  /\ Len(toGame) < MaxRequest
  /\ toGame' = Append(toGame, m)

Leaving(f) == \E k \in DOMAIN toGame : toGame[k] = <<"logout", f>>

(* A new client, and its login.                                            *)
Open(f, r) ==
  /\ owner[f] = None /\ \A g \in Fd : owner[g] # r
  /\ Request(<<"login", f, r>>)
  /\ owner' = [owner EXCEPT ![f] = r]
  /\ UNCHANGED <<roles, tables, wire, missed, sight, faults>>

(* conn_srv sends the LOGOUT, and the descriptor is free for another one.  *)
Close(f) ==
  /\ owner[f] # None
  /\ Request(<<"logout", f>>)
  /\ owner' = [owner EXCEPT ![f] = None]
  /\ sight' = [sight EXCEPT ![f] = Nobody]
  /\ UNCHANGED <<roles, tables, wire, missed, faults>>

-----------------------------------------------------------------------------
(* game_srv: what a handler does to scenes and clients, step by step.  A   *)
(* step turns t, the state so far, into the next one.                      *)
Tell(t, to, what) == IF to = {} THEN t ELSE [t EXCEPT !.wire = Append(@, [to |-> to, what |-> what])]

(* What is shown of a set of roles: dump_role_sight_info.                  *)
Shown(R, where) == [q \in Role |-> IF q \in R THEN where[q] ELSE None]

(* send_transport_resp and the like; from here on the client sees nobody.  *)
Answer(t, r) == [Tell(t, {session'[r]}, <<"answer">>) EXCEPT !.missed = @ \ {session'[r]}]

(* broadcast_to_scene, broadcast_to_scene_except                           *)
Others(t, r) == {session'[q] : q \in t.members[t.place[r]] \ {r}}

(* array_insert and set_role_scene; a refusal is the end of the handler.   *)
(* A role is refused as listed already when a kill cut short the handler   *)
(* that took it into an instance; it is then not told who is there.        *)
InsertAnyway(t, r, s) ==                           \* mutant: the room is not looked at
  [t EXCEPT !.members[s] = @ \cup {r}, !.place[r] = s]
Insert(t, r, s) ==
  IF r \in t.members[s] \/ Cardinality(t.members[s]) >= Cap
  THEN [t EXCEPT !.over = TRUE, !.missed = IF r \in t.members[s] THEN @ \cup {session'[r]} ELSE @]
  ELSE [t EXCEPT !.members[s] = @ \cup {r}, !.place[r] = s]

(* send_role_info_to_otherrole, send_otherrole_info_to_client              *)
TellCome(t, r)  == Tell(t, Others(t, r), <<"show", Shown({r}, path')>>)
TellThere(t, r) ==
  LET R == t.members[t.place[r]] \ {r}
  IN  Tell(t, IF R = {} THEN {} ELSE {session'[r]}, <<"show", Shown(R, path')>>)

(* del_role_from_scene: the role need not be listed where it points.       *)
Delete(t, r)    == [t EXCEPT !.members[t.place[r]] = @ \ {r}]
TellGone(t, r)  == Tell(t, Others(t, r), <<"gone", r>>)

(* broadcast_move_notify                                                   *)
TellMove(t, r)  == Tell(t, Others(t, r), <<"move", r, path'[r]>>)

Step(t, r, op) ==
  IF t.over THEN t
  ELSE CASE op[1] = "answer" -> Answer(t, r)
         [] op[1] = "delete" -> Delete(t, r)
         [] op[1] = "gone"   -> TellGone(t, r)
         [] op[1] = "come"   -> TellCome(t, r)
         [] op[1] = "list"   -> TellThere(t, r)
         [] op[1] = "move"   -> TellMove(t, r)
         [] op[1] = "insert" -> Insert(t, r, op[2])

(* The handler's steps are taken, to the end or until a kill; of the       *)
(* notices sent before a kill some of the last ones, and of the requests   *)
(* all that were not handled, are lost.  GameSystem has what a lost LOGOUT *)
(* leaves behind.                                                          *)
After(r, p, ops, n) ==
  LET t[k \in 0 .. n] ==
        IF k = 0
        THEN [place |-> p, members |-> members, wire |-> wire, missed |-> missed, over |-> FALSE]
        ELSE Step(t[k - 1], r, ops[k])
  IN  t[n]

Become(t) == place' = t.place /\ members' = t.members /\ wire' = t.wire /\ missed' = t.missed

Killed(t) ==
  /\ faults < MaxFault /\ faults' = faults + 1
  /\ \A f \in Fd : ~Leaving(f)
  /\ toGame' = << >>
  /\ \E n \in 0 .. Len(t.wire) : wire' = SubSeq(t.wire, 1, n)
  /\ place' = t.place /\ members' = t.members /\ missed' = Fd

Run(r, p, ops) ==
  /\ Len(wire) < MaxWire
  /\ \/ Become(After(r, p, ops, Len(ops))) /\ UNCHANGED <<toGame, faults>>
     \/ \E n \in 0 .. Len(ops) - 1 : Killed(After(r, p, ops, n))
  /\ UNCHANGED <<owner, sight>>

-----------------------------------------------------------------------------
(* The handlers.  A request that is still on its way when its client has   *)
(* left comes before the LOGOUT.                                           *)
Come(s) == << <<"insert", s>>, <<"come">>, <<"list">> >>
Go      == << <<"delete">>, <<"gone">> >>

Login ==
  /\ toGame # << >> /\ Head(toGame)[1] = "login"
  /\ session' = [session EXCEPT ![Head(toGame)[3]] = Head(toGame)[2]]
  /\ toGame' = Tail(toGame)
  /\ UNCHANGED <<owner, away, path, tables, wire, missed, sight, faults>>

(* The answer of db_srv: init_role_data_from_db, send_login_resp.          *)
Load(r, s, p) ==
  /\ r \in Online /\ place[r] = None
  /\ path' = [path EXCEPT ![r] = p]
  /\ UNCHANGED <<session, away>>
  /\ Run(r, [place EXCEPT ![r] = s], << <<"answer">> >> \o Come(s))

(* role_logout                                                             *)
Logout ==
  /\ toGame # << >> /\ Head(toGame)[1] = "logout"
  /\ Len(wire) < MaxWire
  /\ LET R == {r \in Online : session[r] = Head(toGame)[2]}
     IN  /\ session' = [r \in Role |-> IF r \in R THEN None ELSE session[r]]
         /\ away' = away \ R
         /\ path' = [r \in Role |-> IF r \in R THEN Enter ELSE path[r]]
         /\ \/ \E r \in R : LET t == After(r, place, Go, IF place[r] = None THEN 0 ELSE Len(Go))
                            IN  Become([t EXCEPT !.place[r] = None])
            \/ R = {} /\ UNCHANGED <<tables, wire, missed>>
  /\ toGame' = Tail(toGame)
  /\ UNCHANGED <<owner, sight, faults>>

Move(r, p) ==
  /\ place[r] # None
  /\ path' = [path EXCEPT ![r] = p]
  /\ UNCHANGED <<session, away>>
  /\ Run(r, place, << <<"move">> >>)

(* The client of a role changes scenes when its data has come, outside.    *)
TransportListFirst(r, s) ==                        \* mutant: the answer comes last
  /\ place[r] # None /\ r \notin away
  /\ path' = [path EXCEPT ![r] = Enter]
  /\ UNCHANGED <<session, away>>
  /\ Run(r, place, Go \o Come(s) \o << <<"answer">> >>)
Transport(r, s) ==
  /\ place[r] # None /\ r \notin away
  /\ path' = [path EXCEPT ![r] = Enter]
  /\ UNCHANGED <<session, away>>
  /\ Run(r, place, << <<"answer">> >> \o Go \o Come(s))

EnterInstance(r) ==
  /\ place[r] # None /\ r \notin away
  /\ away' = away \cup {r}
  /\ UNCHANGED <<session, path>>
  /\ Run(r, place, Go \o << <<"answer">> >>)

LeaveInstance(r) ==
  /\ r \in away
  /\ away' = away \ {r}
  /\ UNCHANGED <<session, path>>
  /\ Run(r, place, << <<"answer">> >> \o Come(place[r]))

(* killall -9 between two handlers.                                        *)
Kill ==
  /\ Killed([place |-> place, members |-> members, wire |-> wire])
  /\ UNCHANGED <<owner, roles, sight>>

-----------------------------------------------------------------------------
(* What a client makes of a notice: a new place, someone who is there, who *)
(* left, who moved.                                                        *)
Seen(v, what) ==
  CASE what[1] = "answer" -> Nobody
    [] what[1] = "show" -> [q \in Role |-> IF what[2][q] # None THEN what[2][q] ELSE v[q]]
    [] what[1] = "gone" -> [v EXCEPT ![what[2]] = None]
    [] what[1] = "move" -> [v EXCEPT ![what[2]] = IF @ = None THEN None ELSE what[3]]

(* conn_srv: transfer_to_client, broadcast_to_client, to whoever has the   *)
(* descriptor now.  What a slow client's socket does not take is not sent  *)
(* again.                                                                  *)
DeliverTo(fds) ==
  /\ sight' = [f \in Fd |-> IF f \in fds /\ owner[f] # None
                            THEN Seen(sight[f], Head(wire).what) ELSE sight[f]]
  /\ wire' = Tail(wire)
  /\ UNCHANGED <<clients, roles, tables>>

Deliver ==
  /\ wire # << >>
  /\ DeliverTo(Head(wire).to)
  /\ UNCHANGED <<missed, faults>>

DeliverSlow(slow) ==
  /\ wire # << >> /\ slow \in Head(wire).to
  /\ faults < MaxFault /\ faults' = faults + 1
  /\ DeliverTo(Head(wire).to \ {slow})
  /\ LET again == \E k \in DOMAIN wire' : slow \in wire'[k].to /\ wire'[k].what[1] = "answer"
     IN  missed' = IF again THEN missed ELSE missed \cup {slow}

Next ==
  \/ \E f \in Fd : Close(f) \/ DeliverSlow(f) \/ \E r \in Role : Open(f, r)
  \/ Login \/ Logout
  \/ \E r \in Role :
       \/ \E p \in Pos : Move(r, p) \/ \E s \in Scene : Load(r, s, p)
       \/ \E s \in Scene : Transport(r, s)
       \/ EnterInstance(r) \/ LeaveInstance(r)
  \/ Kill
  \/ Deliver

Spec == Init /\ [][Next]_vars

-----------------------------------------------------------------------------
TypeOK ==
  /\ owner \in [Fd -> Role \cup {None}]
  /\ session \in [Role -> Fd \cup {None}]
  /\ away \subseteq Online
  /\ path \in [Role -> Pos]
  /\ place \in [Role -> Scene \cup {None}]
  /\ members \in [Scene -> SUBSET Online]
  /\ \A s \in Scene : Cardinality(members[s]) <= Cap
  /\ sight \in [Fd -> [Role -> Pos \cup {None}]]
  /\ missed \subseteq Fd
  /\ faults \in 0 .. MaxFault

(* What the client on f will see when all notices have reached it.         *)
WillSee(f) ==
  LET v[k \in 0 .. Len(wire)] ==
        IF k = 0 THEN sight[f]
        ELSE IF f \in wire[k].to THEN Seen(v[k - 1], wire[k].what) ELSE v[k - 1]
  IN  v[Len(wire)]

(* Who is there with r.                                                    *)
There(r) == IF r \in members[place[r]] THEN Shown(members[place[r]] \ {r}, path) ELSE Nobody

(* Every player sees exactly who is in the scene with it, and where, once  *)
(* what is on its way has come: whoever came, went and moved in between,   *)
(* whoever had its descriptor before, and also after a notice was lost or  *)
(* game_srv died, as soon as it changes its place.                         *)
SightExact ==
  /\ TypeOK
  /\ \A f \in Fd \ missed : \A r \in Role :
    session[r] = f /\ place[r] # None /\ owner[f] # None /\ ~Leaving(f)
      => WillSee(f) = There(r)
=============================================================================
