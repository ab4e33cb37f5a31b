-------------------------------- MODULE DbLink --------------------------------
(* The one connection between game_srv and db_srv over the deaths of       *)
(* game_srv.  db_srv has a single slot for it; the answers it cannot write *)
(* any more it keeps for the game server that connects next.  A request    *)
(* and its answer are one message, numbered in the order of asking.        *)
EXTENDS Naturals, Sequences, SequencesExt

CONSTANTS
  CacheSize,   \* MAX_CACHED_BUF_SIZE, in answers
  MaxProc,     \* bound of the model: processes of game_srv
  MaxAsked     \* bound of the model: requests

ASSUME DbLinkAssumption ==
  CacheSize \in Nat /\ MaxProc \in Nat /\ MaxAsked \in Nat

VARIABLES
  proc,      \* processes of game_srv so far; the last one is the only one
             \* that may run
  state,     \* state[p]: "none" before it starts, "up", or how its end shows
             \* to db_srv: "fin", the next write still succeeds; "reset", it fails
  asked,     \* requests so far
  req,       \* req[p]: requests in the socket of p that db_srv has not read
  waiting,   \* connections db_srv has not accepted yet
  slot,      \* the process whose connection has the slot, 0 when it is free
  cache,     \* cached_buf
  ans,       \* answers in the socket of the running process
  heard      \* what the running process was answered

linkvars == <<proc, state, asked, req, waiting, slot, cache, ans, heard>>

Process == 1 .. MaxProc
Message == [by : Process, no : 1 .. MaxAsked]

LinkInit ==
  /\ proc = 0 /\ asked = 0 /\ slot = 0
  /\ state = [p \in Process |-> "none"]
  /\ req = [p \in Process |-> << >>]
  /\ waiting = << >> /\ cache = << >> /\ ans = << >> /\ heard = << >>

Running == proc # 0 /\ state[proc] = "up"
Linked(p) == slot = p \/ Contains(waiting, p)

-----------------------------------------------------------------------------
(* game_srv.                                                               *)

(* main: it connects once, and never again.                                *)
Start ==
  /\ ~Running /\ proc < MaxProc
  /\ proc' = proc + 1
  /\ state' = [state EXCEPT ![proc + 1] = "up"]
  /\ waiting' = Append(waiting, proc + 1)
  /\ heard' = << >>
  /\ UNCHANGED <<asked, req, slot, cache, ans>>

(* send_one_msg to db_srv; after a refusal the request goes nowhere.       *)
Ask ==
  /\ Running /\ asked < MaxAsked
  /\ asked' = asked + 1
  /\ req' = IF Linked(proc)
            THEN [req EXCEPT ![proc] = Append(@, [by |-> proc, no |-> asked + 1])]
            ELSE req
  /\ UNCHANGED <<proc, state, waiting, slot, cache, ans, heard>>

(* gamesrv_cb_roledb_recv                                                  *)
Hear ==
  /\ Running /\ ans # << >>
  /\ heard' = Append(heard, Head(ans))
  /\ ans' = Tail(ans)
  /\ UNCHANGED <<proc, state, asked, req, waiting, slot, cache>>

(* killall -9: what it has not read is lost.  The end shows as a reset     *)
(* when there was something it had not read.                               *)
Kill ==
  /\ Running
  /\ state' = [state EXCEPT ![proc] = IF ans = << >> THEN "fin" ELSE "reset"]
  /\ ans' = << >>
  /\ heard' = << >>
  /\ UNCHANGED <<proc, asked, req, waiting, slot, cache>>

-----------------------------------------------------------------------------
(* db_srv.                                                                 *)

(* cb_listen with the slot free: dbsrv_cb_server_listen_after sends what   *)
(* is cached, and forgets it also when the connection is already dead.     *)
AcceptKeeping ==                                   \* mutant: cached_len stays
  /\ waiting # << >> /\ slot = 0
  /\ slot' = Head(waiting)
  /\ waiting' = Tail(waiting)
  /\ ans' = IF state[slot'] = "up" THEN cache ELSE ans
  /\ UNCHANGED <<proc, state, asked, req, cache, heard>>
Accept ==
  /\ waiting # << >> /\ slot = 0
  /\ slot' = Head(waiting)
  /\ waiting' = Tail(waiting)
  /\ ans' = IF state[slot'] = "up" THEN cache ELSE ans
  /\ cache' = << >>
  /\ UNCHANGED <<proc, state, asked, req, heard>>

(* ... and with the slot in use: create_client_map finds no element and    *)
(* the connection is closed.                                               *)
Refuse ==
  /\ waiting # << >> /\ slot # 0
  /\ waiting' = Tail(waiting)
  /\ req' = [req EXCEPT ![Head(waiting)] = << >>]
  /\ UNCHANGED <<proc, state, asked, slot, cache, ans, heard>>

(* send_to_game_srv: to the socket; a dead one takes answers until it is   *)
(* seen to be dead, after that they are cached while there is room.        *)
Cache(m) == cache' = IF Len(cache) < CacheSize THEN Append(cache, m) ELSE cache

SendToGameSrv(m) ==
  \/ /\ state[slot] = "up"
     /\ ans' = Append(ans, m)
     /\ UNCHANGED <<state, cache>>
  \/ /\ state[slot] = "fin"
     /\ state' \in {state, [state EXCEPT ![slot] = "reset"]}
     /\ UNCHANGED <<ans, cache>>
  \/ /\ state[slot] = "reset"
     /\ Cache(m)
     /\ UNCHANGED <<ans, state>>

(* dbsrv_cb_server_recv, handle_db_msg.                                    *)
AnswerOrNot ==                                     \* mutant: a failed query is not answered
  /\ slot # 0 /\ req[slot] # << >>
  /\ req' = [req EXCEPT ![slot] = Tail(@)]
  /\ \/ SendToGameSrv(Head(req[slot]))
     \/ UNCHANGED <<state, cache, ans>>
  /\ UNCHANGED <<proc, asked, waiting, slot, heard>>
Answer ==
  /\ slot # 0 /\ req[slot] # << >>
  /\ req' = [req EXCEPT ![slot] = Tail(@)]
  /\ SendToGameSrv(Head(req[slot]))
  /\ UNCHANGED <<proc, asked, waiting, slot, heard>>

(* ... at the end of the stream: roledb_release_client_map.  A reset may   *)
(* show before the rest was read.                                          *)
ReleaseWhenDry ==                                  \* mutant: an error is not an end
  /\ slot # 0 /\ state[slot] = "fin" /\ req[slot] = << >>
  /\ slot' = 0
  /\ UNCHANGED <<proc, state, asked, req, waiting, cache, ans, heard>>
Release ==
  /\ slot # 0
  /\ \/ state[slot] = "fin" /\ req[slot] = << >>
     \/ state[slot] = "reset"
  /\ slot' = 0
  /\ req' = [req EXCEPT ![slot] = << >>]
  /\ UNCHANGED <<proc, state, asked, waiting, cache, ans, heard>>

Listen == Accept \/ Refuse

LinkNext == Start \/ Ask \/ Hear \/ Kill \/ Listen \/ Answer \/ Release

LinkSpec == LinkInit /\ [][LinkNext]_linkvars

(* The event loops call back for what is readable and for every new        *)
(* connection.                                                             *)
FairLink ==
  /\ LinkSpec
  /\ WF_linkvars(Hear) /\ WF_linkvars(Listen) /\ WF_linkvars(Answer) /\ WF_linkvars(Release)

-----------------------------------------------------------------------------
LinkTypeOK ==
  /\ proc \in 0 .. MaxProc
  /\ state \in [Process -> {"none", "up", "fin", "reset"}]
  /\ asked \in 0 .. MaxAsked
  /\ req \in [Process -> Seq(Message)]
  /\ waiting \in Seq(Process)
  /\ slot \in 0 .. proc
  /\ cache \in Seq(Message) /\ Len(cache) <= CacheSize
  /\ ans \in Seq(Message) /\ (~Running => ans = << >>)
  /\ heard \in Seq(Message)

(* Everything on its way, in the order in which it can still be heard.     *)
Line ==
  heard \o ans \o cache \o (IF slot = 0 THEN << >> ELSE req[slot])
    \o FlattenSeq([i \in DOMAIN waiting |-> req[waiting[i]]])

(* game_srv hears answers in the order of asking and each once, over any   *)
(* number of deaths: what a process before it asked comes before all that  *)
(* it asks itself, so that a stale answer is never taken for its own.      *)
OldestFirst ==
  /\ LinkTypeOK
  /\ \A i, j \in DOMAIN Line : i < j => Line[i].no < Line[j].no

(* What a running game server that has the slot asks is answered.          *)
Answered ==
  \A m \in Message :
    slot = m.by /\ Contains(req[m.by], m) ~> Contains(heard, m) \/ state[m.by] # "up"

(* The slot of a dead game server becomes free, so that the next one can   *)
(* be accepted.                                                            *)
SlotFreed ==
  \A p \in Process : slot = p /\ state[p] # "up" ~> slot # p
=============================================================================
