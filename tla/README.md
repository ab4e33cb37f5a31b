# A verification development for txgg

txgg is a small role-playing game server written in C: clients talk protobuf
over TCP to a gateway (`conn_srv`), which passes their messages to the game
server (`game_srv`), which keeps the live state in shared memory and loads and
stores roles through a database server (`db_srv`).  This directory holds TLA+
modules translated from that source, the TLC configurations that check them,
and proofs that TLAPS checks.  Every run and every `*Proof` module is called
like these two:

    tlc  -workers 2 -config GameSrv_lifecycle.cfg MCGameSrv
    tlapm GameSrvProof.tla

All paths below are relative to `src/server/` unless they start with `src/`.

## 1. The system

| part | source | state | operations |
|------|--------|-------|------------|
| gateway | `conn_srv/conn_srv.c` | one slot per client descriptor, one slot for the game server, a cache of what could not be sent | accept, receive and forward a request with the sender's descriptor, send LOGOUT for a client that went away, route an answer or a broadcast by descriptor without waiting for a slow client, kick |
| role life cycle | `game_srv/role.c`, `handle_conn_msg.c`, `handle_roledb_msg.c` | the role pool in shared memory; in process memory three red-black trees over it (by id, by session, by name) | login, createrole, logout, load, store, kick, resume |
| scenes | `game_srv/scene.c` | per scene the list of roles (at most 200) | add, remove, transport; tell who comes, goes and moves, and the new one who is there |
| instances (dice game) | `game_srv/instance.c` | an instance pool, per instance up to 5 roles; per role dice, position, action | enter, leave, throw, move, stop, reward |
| bags | `game_srv/container.c`, `thing_obj.c` | per role a container of at most 64 positions; one pool of things for all of them | give a list, drop, swap, change equipment, load, free on logout |
| friends and blacklist | `game_srv/friend.c`, `role.c` | two arrays per role, closed by the first 0 | add to one (and take off the other), remove, store, load |
| quests | `game_srv/quest.c` | per role the accepted quests with their counters, and how far the main quests have come | accept, cancel, count kills and things, complete |
| fights | `game_srv/fight.c`, `one_role.c` | the health of the role and of the monster of a cell | a fight with the rounds reported to the client; heal, hurt, level up |
| object pools | `lib/mempool.h`, `lib/game_queue.h` | used and free lists in shared memory, linked by index | create, destroy, rebuild after a restart |
| database server | `db_srv/*.c` | table DBRoleInfo, one connection slot, a cache of answers | fetch, create, store; accept or refuse a game server, hand on cached answers |
| sorted arrays, client map, message framing | `src/common-lib/lib/sortarray.c`, `client_map.c`, `game_net.c` | arrays and per-connection buffers | search, insert, delete; split the byte stream into messages |
| event loop | `src/common-lib/lib/game_event.c` | libevent descriptors | accept, read, write |

How they interact.  A client's request reaches game_srv with its *session*
(descriptor in conn_srv, index of the conn_srv).  game_srv finds the role by
session or by id, handles the request to its end in one callback, and sends
answers back by session.  A login frees the role the account already has
(`role_logout`, which sends a store), admits an empty role and sends a fetch;
the answer, which carries nothing but the account id, fills the role found
under that id.  db_srv handles its requests one after the other.  game_srv may
be killed with -9 and started again on its shared memory
(`resume_game_srv.sh`): pools survive, trees and sockets do not.

What is hard:

* one account logs in twice, or a third time before the first answer came back;
* the order of a store and of the fetch that replaces the role it stores;
* answers that arrive for a role that was freed, replaced or already loaded;
* requests of a role that has no data yet, or no longer exists;
* every pool at its limit, in the middle of an operation (load, login);
* a kill between two handlers, or inside a pool or list operation, and lost or
  late messages around it;
* a full scene, which several operations go on without noticing;
* requests of a game that come in another order than the game means: the server
  keeps a dice game as separate fields, each handler looking at a few of them;
* counters that follow the bag, when not every change of the bag tells them;
* notices that tell only what changed, over descriptors that are reused and
  sockets that are full;
* three single-threaded servers that block in `send` and read nothing meanwhile;
* a byte stream cut anywhere, and a buffer that a message just fills.

What makes it correct, per part: the indexes agree with the pool; every shared
object has one owner and is in the free list when it has none; scene and
instance lists agree with the roles' own pointers; whatever leaves game_srv was
stored, and whatever is loaded is what was stored last; what waits for an
answer gets one; every client sees who is there; what a client is shown of a
fight is what the server counted; nothing is paid or awarded twice.

`PROJECT.json` lists the components with their status and every hazard with the
line where it bites.

## 2. The modules

| module | what it is |
|--------|------------|
| `RoleTable` | the table of roles in game_srv: the used slots and what the two indexes find |
| `GameSrv` | the role life cycle in game_srv together with the db_srv that serves it, under arbitrary clients, faults, kills and restarts |
| `OrderlyClients` | the same servers under clients that wait for their data |
| `Account` | abstract specification: the money of an account |
| `MemPool` | `POOL_DEF` over the linked lists of `game_queue.h`, one action per write, with kills between the writes |
| `Allocator` | abstract specification of a pool: one holder at a time |
| `ConnSrv` | the gateway between the clients and the one game server |
| `Wire` | abstract specification of the gateway: one lossy queue |
| `GameSystem` | `ConnSrv` composed with `RoleTable` |
| `Friends` | the two lists of a role, one action per write to an array, with kills between the writes |
| `Relations` | abstract specification of the two lists: two sets |
| `Bag` | the bags of several roles over the one pool of things |
| `Quest` | the main quests of the roles, on top of `Bag` |
| `DiceGame` | the board of an instance and the role on it, under requests in any order |
| `Fight` | a fight round by round, what is reported of it, and the health around it |
| `Dungeon` | `DiceGame` composed with `Fight`: what happens on a cell is a fight, a change of health, or neither |
| `SortArray` | `sortarray.c`, one action per comparison, memmove and write, with kills in between and inside the memmove |
| `Listing` | abstract specification of a sorted array: a set with a record of calls, and what a kill may do to it |
| `GameNet` | one direction of a connection: messages into a byte stream and out of it |
| `DbLink` | the one connection between game_srv and db_srv over deaths of game_srv |
| `Sight` | what clients see of each other, from the handlers through the gateway to the client |
| `MCGameSrv`, `MCOrderlyClients`, `MCGameSystem`, `MCQuest`, `MCDungeon`, `MCSight` | symmetry, views and definitions for TLC |
| `GameSrvProof`, `GameSystemProof`, `MemPoolProof`, `QuestProof`, `DungeonProof`, `ArraysProof`, `LinksProof`, `SightProof` | theorems (section 4) |

`GameSrv` extends `RoleTable`: its handlers change the table through `Enlist`,
`Delist`, `Forget` and `Relink` only, and it is proved to implement
`TableSpec`.  `GameSystem` puts the table, without what `GameSrv` adds to it,
behind an instance of `ConnSrv`; that is what keeps the composition small enough
for TLC.  `OrderlyClients` extends `GameSrv`: its next-state relation uses the
same actions of the servers and only restricts which requests the clients send.
The abstract specifications are instantiated with refinement mappings: `Account`
in `OrderlyClients`, `Allocator` in `MemPool`, `Wire` in `ConnSrv` (checked in
`GameSystem`, with the game server bound to it), `Relations`
in `Friends`, `Listing` in `SortArray`.  `Quest` extends `Bag`: each of its steps
is a step of a bag, of the quests, or of both.  `Dungeon` does the same with the
board and the fights, and is proved to implement both.  `Sight` composes the
scenes of game_srv, the descriptors of conn_srv and the clients.

### GameSrv and the code

game_srv is single threaded and handles one message per callback, so each
handler is one action with everything it calls.  The variables:

| variable | code |
|----------|------|
| `used` | used list of `POOL_DEF(role)`; a `Slot` is an element of the pool |
| `idIdx`, `fdIdx` | the slots linked in `root_role_id_head`, `root_role_fd_head` |
| `roleId`, `session`, `named`, `scene`, `bag`, `inst`, `money` | fields of `ROLE`; `named` is "the name is not empty", the code's test for "the data has been loaded" |
| `members`, `bags`, `insts`, `team` | the scenes' lists, the used containers, the used instances and their lists |
| `row` | the table `DBRoleInfo`, with the columns the properties tell apart |
| `failed` | history: whether an odd number of the account's fetches and stores has failed |
| `toDb`, `fromDb` | the bytes between game_srv and db_srv, in order |
| `proc`, `crashes` | whether game_srv runs, and how often it died |

| action | code |
|--------|------|
| `LoginRequest`, `LoginPoolFull` | `handle_login_request`: kick the role of the same id, create, initialise, index, fetch |
| `CreateroleRequest`, `CreateroleNewRole`, `CreaterolePoolFull` | `handle_createrole_request` |
| `LogoutRequest` | `handle_logout_request`, `role_logout` |
| `TransportRequest`, `TransportNoRole` | `handle_transport_request` |
| `EnterInstanceRequest`, `LeaveInstanceRequest` | the instance handlers with `enter_instance`, `leave_instance` |
| `EarnMoney` | `modify_role_money`, the change of data every reward ends in |
| `RoleDataResponse` (`LoadSucceeds`, `LoadFails`, `LoadFaults`, `RefusedLogin`) | `send_login_resp`, `send_createrole_resp`, `init_role_data_from_db`, `role_login` |
| `StoreResponse` | `handle_roledb_msg` on a store's answer |
| `FetchRole`, `CreateRole`, `StoreRole`, with `QueryFails` | the three handlers of db_srv with `query` and `send_to_game_srv` |
| `Kill`, `Resume` | `resume_game_srv.sh`, `init_all_objs(resume)`, `resume_role_data` |

Details worth knowing when comparing the two:

* `role_rbdata_add` links by id, then by session, and stops at the first
  duplicate; `add_one_role` reports success in every case.  `LinkId` and
  `LinkFd` say so.  A role that was not linked stays in the pool.
* The login searches the id *with* the area and stores the role *without* it,
  so with an area other than 0 nobody is kicked.
* When the pool is full, or a transport request finds no role, the failure
  path follows a NULL pointer.  These actions end the process (`GoDown`).
* A load that finds no scene or no container kicks the role and the caller
  continues with it; and it frees `blob_info`, which that path never set:
  `LoadFails` and `LoadFaults` are the two outcomes.
* Any query may fail (`query` in `mysql_module.c`), and an update may meet another
  number of rows than one.  A fetch that fails is answered like a missing row, so
  the role stays linked and without data; a store that fails leaves the row as it
  was, and game_srv only logs that; an insert may fail for any reason, also after
  it has reached the table.
* A scene refuses a role when it is full or lists the role already (`Refuses`).
* `init_role_data` does not reset the money; an unnamed role's money is never
  read before it is loaded, and the `VIEW` of the TLC instances drops it.
* The tree by name is written and never searched; it is left out.
* Which free element a pool hands out, and which of two used roles with one
  key is linked first on resume, depend on list orders and are left open.

### MemPool and the code

`list` holds the used and the free list with the head's and every element's
links, `holders` counts for each element how often it was handed out and not
given back, `op`, `cur` and `done` say which call is under way and how many of
its six writes have been made.

| action | code |
|--------|------|
| `Create`, `Destroy` | the entry of `create_##name`, `destory_##name` |
| `Write`, `Return` | the next statement of `GAME_CIRCLEQ_REMOVE` (two) and `GAME_CIRCLEQ_INSERT_HEAD` (four) |
| `Kill`, `Resume` | `kill -9`; `resume_##name`, which walks the used list |

Each link is stored as a pointer and as an index, and the restarted process
rebuilds the first from the second; the model keeps the index.  The server is
built with `-O0` and has one thread, so a kill leaves a prefix of the writes of
game_srv's own statements in source order.  (What libc does inside `memmove` is
another matter, see `SortArray`.)  A kill between the two statements of a removal from the used
list, or between the third and the fourth statement of an insertion, leaves a
backward link that a later removal will follow to the wrong place.  The model
marks that (`torn`), checks what the restart finds, and does not go on from
there: what such a process does next is arbitrary.

### ConnSrv, GameSystem and the code

conn_srv is single threaded too.  A descriptor is reused as soon as it is
closed, and messages carry nothing but the descriptor.  The model gives every
connection a number (`conn`, `owner`) which no guard reads: it is there for the
properties to say whose message it was.  `ConnSrv` has no next-state relation of
its own: `GameSystem` is the only game server behind it.

| variable | code |
|----------|------|
| `conn` | the slots of the client map, by descriptor |
| `link` | the server map: `none`, `up`, or `broken` while the game server is dead and its socket not yet read to the end |
| `alone` | a game server is running whose connection was refused, because `broken` |
| `cache` | `cached_buf`; a LOGOUT takes 1, any other request 2 units of `CacheSize` |
| `toGame`, `fromGame` | the two directions of the socket; of what comes back only kicks |
| `tainted` | see below |

| action | code |
|--------|------|
| `Accept`, `Forward`, `ClientGone` | `get_client_client_map`, `conn_cb_client_recv` with a request or at the end of the stream (`send_logout_request`) |
| `KickRead` | `kick_role` of conn_srv: closes whatever has the descriptor now |
| `GameConnects`, `ServerGone` | `get_server_client_map` with `send_all_cached_gamesrv_buf`; `release_server_client_map` |
| `GameDies` | the socket of a killed game_srv: what it had not read is lost |
| `GameReads`, `GameWrites` | the other end of the socket, bound to game_srv's handlers in `GameSystem`: `Login`, `LogOut`, `Handle`, `LoadFails` |

In `GameSystem` a client logs in once on a connection.  Answers and broadcasts
are left out: they change no state of either server.

`tainted` holds the descriptors of connections that ended without game_srv being
told: the LOGOUT was in the socket of a game_srv that died, or was dropped by
a full cache or a broken connection, or a kick arrived so late that it closed
the *next* client of the descriptor.  On such a descriptor the role that stays
behind is found for whoever connects next, and acts for them.  The code has
this flaw; the properties of `GameSystem` say that nothing else leads there.

### Friends and the code

`array` holds the two arrays of `game_friend_data` in shared memory, with `None`
for 0.  All four requests reduce to two operations on a list and its
counterpart, since the friend and the blacklist functions of `role.c` differ in
nothing but the array (and in a notification).

| action | code |
|--------|------|
| `Add` | `add_role_game_friend`, `add_role_blacklist` up to and including the write of the new entry, and the search on the other list that follows it |
| `Remove` | the search of `del_role_game_friend`, `del_role_blacklist` |
| `Shift` | one write of the loop that moves the entries up, the last of them the closing 0 |
| `KillRequest` | a kill while such a loop is under way; the restarted process goes on with the arrays as they are |
| `Reload` | store, logout, login: `get_role_game_friend_num` counts up to the first 0, the load fills the rest with 0 |

`of` and `at` are the list and the index a removal under way writes next.
`unbroken` is history: no kill has fallen into a request yet.  The searches loop to
the first match or the first 0, which is `Stop`; on a full array without a match
they run to the end, and `Stop` is empty.  A request for the id 0 is possible
and does nothing but a removal of zeros.  Requests before the load write to data
the load replaces, and are left out.

### Bag and the code

| variable | code |
|----------|------|
| `taken` | length of the used list of `POOL_DEF(thing_obj)`; which element is handed out does not matter here (`MemPool` is about that) |
| `bag` | `things[pos]` of the role's container: item and number of the thing it points at |
| `worn` | one place for equipment of the role (`get_role_equip_id`) |
| `row` | the bag in the database while the role is away |

`GiveList` is `give_role_thing_list`: `Plan` is the loop of `add_thing_list` that
looks for positions, where each entry sees the bag as it was before the list;
`Put` is the loop that fills them and stops at the first failure.  The loop that
should undo what was put (`for (j = 0; j < j; ++j)`) never runs, so nothing is
undone.  `Drop`, `Swap` and `Equip` are the handlers, with positions behind the
end among their inputs.  `Leave` is the part of `role_logout` that stores and
frees the bag, `Load` the part of `init_role_data_from_db` that fills a new one
from the row, without a look at the result of `add_thing_bypos`.  The exceptions
in `GiftsAreWhole` and `NothingVanishes` are what the code does when the pool of
things is empty, or when an item is taken off to a position that does not exist.
The number of a thing is 16 bits wide in the code; stacks stay far below that.
The notification of quests (`on_bag_changed`) is in `Quest`, where the run is; a kill inside a
handler is not modelled.

### Quest and the code

`log[r]` is the sorted array of accepted quests, `main` the index of the last
main quest that was completed, `money` what quests have paid (history).

| action | code |
|--------|------|
| `Accept`, `Cancel`, `Complete` | `handle_quest_operate_request` with `quest_accept_check`, `quest_status_check`, `add_role_quest`, `remove_role_quest`, `give_role_quest_reward` |
| `Kill` | `on_kill_monster` |
| `Receive`, `Discard` | `GiveList` and `Drop` of `Bag`, with `on_bag_changed` at their end |
| `Rearrange` | swap, change of equipment, logout and load, which do not call it |

`quest_status_check` fills a `DB_QUEST_INFO` on the stack and leaves some of it
alone; what `Checked` returns is every value the stack may have held, and `raw`
marks such an entry until a later event writes the field.  A quest that asks for
a monster *and* a thing is one of these.  `Complete` gives the things first: a
failure of the pool in the middle leaves them in the bag and the quest
accepted, so the things, unlike the money, can be had again.

### DiceGame and the code

| variable | code |
|----------|------|
| `inside` | `role->instance.p` is set |
| `game` | `role->instance_data` (`at`, `dice`, `special`, `nowar`, `pending` for `action`, `finished`) |
| `event` | the `action` of every node of the instance |
| `met`, `beaten`, `awards`, `granted`, `walked` | history |

| action | code |
|--------|------|
| `Enter`, `Leave` | the instance handlers, with the `memset` of `instance_data` |
| `Throw`, `Prepare` | `handle_rand_dice_request`, which does not ask for an instance; `gm_dice_handle` |
| `UseDice`, `UseNowar` | `do_instance_use_item`, which does not ask for the item |
| `Walk`, `Jump` in `Move` | `handle_instance_move_request` |
| `Fought`, `Undergo`, `SentBack`, `NothingThere` in `Stop` | `handle_instance_stop_request`, `do_instance_action` by type of the cell |
| `Claim` | `handle_instance_finish_reward_request` |

`Move` checks a path the way the code does, from the cell the role is on; on a
transport cell it does not look at neighbours and, before it looks the target
up, sets the dice to the number of ids in the request.  What is won on a cell is
in `Bag`; how a fight goes is in `Fight`.  A new game starts from a new `Enter`; the history variables
speak of one game.

### Fight and the code

`Begin` is `test_fight` up to the first round, `Round` is `count_round_result` with
the loop of `count_fight_result`, `Recover` the reset of the role at the end of
`test_fight`, `Change` `role_modify_hp`, `LevelUp` `reset_one_role_attribute`.
Strength, skill and luck decide which of the `Outcomes` a round has; all are
possible in the model.  `told` adds up what the `round_data` report, `opening` is
the `cur_hp` sent first.  A trap may leave the role at 0; nothing looks at that
before the next fight, which it then loses whatever happens, and which the
properties except by `opening.left = 0`.

### Dungeon and the code

game_srv has one thread, and a fight takes place inside the handler of the stop
(`do_instance_action` calls `test_fight`): the board stands still while `pc` is not
"rest".  `Meet` is a stop at a monster up to that call, `Exchange` a round of it,
`Conclude` its return and the rest of `do_instance_action`, which reads the
verdict; a fight without one has no notify and counts as lost.  `HealOrTrap` is
the stop on a cell that changes the health, `Quiet` any other stop, `Play` the
requests that leave the health alone, `Grow` a new level.

### SortArray and the code

`Start` is the entry of `array_insert` and `array_delete` (every caller compares
the length with the capacity first), `Search` one turn of the loop of
`array_bsearch`, `Move` the whole `memmove`, `Write` the `memcpy` of the new entry,
`Count` the change of `*pnmemb`.  `Span` are the places `memmove` writes, and
`Moved(S)` is the array when it has written those in `S`.  In which order libc
copies, in blocks or entry by entry, from which end, is not known, so a `Kill`
inside it leaves `Moved(S)` for *any* subset `S` of `Span`.  What is assumed is that
an entry (a word or less, or a structure whose key is one word) is not torn and
that each place gets its last value at once.  Elsewhere a `Kill` falls between two
actions.  It leaves `mem` and `n`, which are in shared memory.  All callers ask for
unique keys; `array_delete_index` is the part of a deletion behind its search.

`Listing` ties what a kill may do to a kill: `kills` changes with `CutShort` only.
Inside a call on `k` it may lose some keys and double others, each by one copy; it
leaves the keys below `k` alone, since only places behind that of `k` are written,
and lists no key that was not listed, but for `k`.  Everything else is an insertion
of a key that was not there, a removal of one copy, or a refusal.

### GameNet and the code

A byte is its offset in all that was ever sent, so that a buffer is an interval
(`first`, `got`).  `Send` and `Push` are `send_one_msg` with `force` 0, `GetOneBuf`
`recv` and the test behind it in `get_one_buf`, `Handle` the body of the loop of a
receive callback with `remove_one_buf`, `Close` what the callbacks do when
`get_one_buf` reports the end.  `HeaderAt` reads a length: the one of the message
that begins there, and anything at all at an offset where no message begins, so
that a receiver that lost its place would do everything.  `Reserve` is
`pos_begin`.  The lengths a sender uses fit into the receiver's buffer
(`Length \subseteq Header .. Space - Reserve`), which the senders of the repository
keep; a longer one fills the buffer, and `recv` with a length of 0 looks like the
end of the stream.

### DbLink and the code

| action | code |
|--------|------|
| `Start`, `Ask`, `Hear`, `Kill` | `main` of game_srv (it connects once), `send_one_msg` to db_srv, `gamesrv_cb_roledb_recv`, `killall -9` |
| `Accept`, `Refuse` | `cb_listen` with the slot free (`dbsrv_cb_server_listen_after` sends the cache), or not |
| `Answer` | `handle_db_msg` with `send_to_game_srv` |
| `Release` | `roledb_release_client_map` at the end of the stream |

`state[p]` says how the end of a process shows at the other side: after a FIN the
next write still succeeds and its answer is lost, after a reset it fails and the
answer is cached.  The second process of game_srv may connect before db_srv has
seen the end of the first: it is refused, and asks in vain until it is restarted
again.  db_srv does not set SIGPIPE to be ignored, the MySQL client library it
links does.

### Sight and the code

game_srv, conn_srv and the clients, with everything left away that no client can
see.  A handler is a sequence of steps (`Come`, `Go`, an answer, a move), each of
them a change of a scene's list or a message sent; `Run` takes them all, or a
first part before a kill.

| action | code |
|--------|------|
| `Open`, `Close` | a client connects and logs in; conn_srv sends its LOGOUT |
| `Login`, `Load`, `Logout` | `handle_login_request`, `send_login_resp` with `role_login`, `role_logout` |
| `Move` | `handle_move_request` |
| `Transport`, `EnterInstance`, `LeaveInstance` | the handlers of these requests |
| `Kill` | `kill -9` between two handlers |
| `Deliver`, `DeliverSlow` | `transfer_to_client`, `broadcast_to_client`; a client whose socket is full misses the notice |

The client is external: `Seen` says what it makes of a notice, and its requests
are the ones its interface allows (it changes scenes when its data has come and
it is in no instance, and logs in to an account nobody is playing).  `missed`
holds the descriptors whose client lost something, until it is told its place
anew.

Operators marked `mutant` are planted errors used by no action.

## 3. What is checked

| run | question | instance | result |
|-----|----------|----------|--------|
| `lifecycle` | do pool, indexes, bags, instances and fields agree under arbitrary clients, faults and a kill, and is the table a `RoleTable`? `IndexInv OwnersInv TableSpec` | 2 slots, 2 accounts, 2 sessions, 2 areas, 2 bags, 1 instance, 2 messages per direction, 1 death | holds (1.1M states) |
| `stores` | without a kill, is a store ever left out or overtaken, and does a load end unless a query of its account fails? `LoadIsFresh StoredOnRelease LoadEnds` | 2 slots, 1 account, 1 session, a row that may name a scene that is gone, money 0..1, 2 messages per direction, any number of failed queries, `FairSpec` | holds (306k) |
| `orderly` | do scenes list exactly the live roles, does nothing leak, does no answer hit a live role, and do the servers implement `Account`? `ScenesExact NothingLeaks LoadsOnce KeepsAccounts` | 2 slots, 2 accounts, 3 sessions, 2 scenes of one place and one that is gone, 2 bags, 1 instance, money 0..1, 3 messages per direction, any number of failed queries, 1 death | holds (341k) |
| `system` | is the gateway one queue, does a reused descriptor ever overtake, does a client act for another, does a role stay behind? `OldestFirst ActsAsWire EveryRoleHasAWayOut NoImpersonation` | 2 slots, 2 accounts, 2 descriptors, 4 connections, sockets of 3, cache of 5 units, 1 death | holds (1.3M) |
| `pool` | wherever a kill falls, does the restart find what was held, do the lists agree, is nothing handed out twice? `KillIsSurvived ListsExact KeepsHolders` | 3 elements, 2 kills | holds (179k) |
| `friends` | wherever kills fall, is a list without gaps, an account on one list once, and nobody lost? `NoGaps Once KeepsRelations` | arrays of 3, 4 accounts, any number of kills | holds (45k) |
| `quests` | does the pool of things leak, do things vanish, are lists given whole, is each quest paid once and only for the kill, do its counters follow the bag? `PoolExact GiftsAreWhole NothingVanishes PaidOnce NoKillNoReward CountsFollowTheBag` | 2 roles, one of them with 3 quests (kill, collect, both), 2 items, bags of 2, a pool of 3 things, 1 kill | holds (44k) |
| `dungeon` | in any order of requests, does a cell's event happen once, is an award earned, does what the client is shown of a fight add up, does the side that stands win, and is a monster beaten only so? `EventsOnce AwardIsEarned ReplayAgrees VerdictStands BeatenInAFight` | a board of 5 cells with a fight, a cell that heals or traps, a transport cell, a cell that sends back and a boss at a dead end; paths of 3 cells, 4 steps granted; health 3 against 1 or 3, hurts 0 to 2, 3 rounds | holds (1.2M) |
| `arrays` | wherever kills fall, also inside a memmove, is the array in order; does a call without one do what `Listing` says, and a kill spoil no more? `Sorted KeepsListing` | 4 keys, arrays of 4, any number of kills | holds (787k) |
| `framing` | however the stream is cut, do the handlers get what was sent, without delay or loss? `Framed NothingLost Delivered` | lengths 2, 3 and 5, a header of 2, a buffer of 6 with 1 reserved, a socket of 4, 4 messages, `FairSpec` | holds (9.5k) |
| `db_link` | are answers heard in the order of asking over deaths, does the slot become free, is a linked game server answered? `OldestFirst Answered SlotFreed` | 3 processes, 6 requests, a cache of 2, `FairLink` | holds (8.2k) |
| `sight` | does every client see exactly who is there? `SightExact` | 3 accounts, 3 descriptors, 2 scenes of 2 places, 2 positions, 1 death or lost notice | holds (149k) |

**Bounds.**  `MaxPending` bounds the messages in flight in each direction; two let
the store of a kicked role and the fetch of its successor wait behind each other
while two earlier answers are still to be read, which is what every race between
a kick and a load needs; three let a create be among them.  Two slots with two accounts and two sessions are enough
for a duplicate login, a full pool and a leaked role; in `stores` one account
logs in again and again over one session, so a kicked role and its successor
fill both slots.  In `orderly` two accounts over three sessions fill both slots and
take them over from each other; a scene that is gone makes loads refuse.
`failed` only tells an odd number of failed queries from an even one, so no bound
on failures is needed.  `MaxCrash` is one: a death leaves nothing in process
memory, so a second one starts from states of the same kind.  `MaxMoney` only
has to tell a stale amount from a fresh one.  `MaxRolePerScene` is 1 where a
full scene matters.  Slots, accounts, sessions and bags are interchangeable, and
runs without a liveness property use that.

In `pool` two kills are needed, since the second process works on the list the
first kill left; three elements give a first, a middle and a last one.  In
`system` four connections on two descriptors reuse one of them while the other
is open, and let a kicked client's descriptor be taken over by a client of
another account; a cache of five units holds two requests, a LOGOUT, and refuses
the next one.  In `friends` an array of three has a first, a middle and a last
entry, and four accounts cannot all be on one list.  In `quests` a pool of three
things for two bags of two positions is exhausted in the middle of a list, of a
load and of a change of equipment, and the reward of a quest fails before, in
the middle of and after its things; one item stacks up to two and one does not.
One role takes quests (`Quester`), the other one only competes for the things;
three quests are one of each kind.

In `dungeon` every kind of cell that moves a role, hurts it or ends a game occurs
once, paths are long enough to walk through a transport cell, and four steps
reach the boss in two ways; a hurt may leave health over, hit 0 or fall below
it, a trap may leave none, and three rounds let either side strike last and a
fight end without a verdict.  Its `VIEW` drops what the last fight left, which the
next one overwrites.  In `arrays` four keys in four places give a bisection that
goes both ways and insertions and deletions at both ends, in the middle and into
a full array.  In `framing` a message of 5 fills what the reserved byte leaves of
the buffer, no message fits the socket together with the next one, and 4
messages let the buffer hold the end of one, a whole one and the beginning of
another.  In `db_link` the third process follows one that was refused and one
that was reset with answers in the cache, and six requests overflow the cache.
In `sight` three clients over two places make a scene full; one fault before or
in the middle of any handler is followed by logins, moves and transports.  With
two logins or LOGOUTs in the socket (670k states) and with two faults the run
holds as well; both were run once and left out for time.

**Deadlock** is checked in `friends`, `quests`, `dungeon`, `arrays` and `sight`.  In
the other runs the model stops where the program would not, with all bounds
reached or with a fault after the last allowed one; in `framing` it stops when
the connection is closed, and in `db_link` when all processes have run and all
requests have been answered.

**Fairness.**  `FairSpec` of `GameSrv` assumes weak fairness of three things:
game_srv reading its db_srv socket, db_srv handling its next request, and the
restart.  libevent calls back for a descriptor as long as it stays readable, and
db_srv is a loop over its socket, so the first two are what the code guarantees
while both processes run.  The restart is done by an operator's script; the one
run that uses `FairSpec` has no death, so nothing rests on it.  No fairness is
assumed of clients.  `FairSpec` of `GameNet` assumes that a receiver is called back
while its socket is readable, that it goes on in its loop, and that a sender's
loop tries again; nothing makes a sender send or hang up.  `FairLink` of `DbLink`
assumes that both event loops serve what is readable and connections that wait;
nothing makes game_srv ask, die or start again.

**What holds only for orderly clients.**  `ScenesExact`, `NothingLeaks`,
`LoadsOnce` and `KeepsAccounts` fail under `Spec`.  For example a transport
request that overtakes the load lists the role in two scenes; a third login
before the first answer lets the second answer overwrite a live role.
`OrderlyClients` makes the discipline explicit, and no line of the server
enforces it.  `Sight` assumes the same kind of client; a role listed in two scenes
is seen in both.

**What a death of game_srv and a failed query cost.**  `Account` lets a death take
money back from accounts that are offline only: a store on its way is lost with
the process, and the money of a role that plays survives in shared memory.  A
store that fails is lost as well (`store_role_handle.c:38`; `game_srv` writes a line
to its log, `handle_roledb_msg.c:432`), and takes money of its own account back,
which is offline then or on its way in.  A fetch that fails leaves the role linked
and without data, and nobody asks again until its client logs in anew; that is the
way out `LoadEnds` names.  A lost message is worse off still: `LoadEnds` fails with a
kill, which its run has none of.

**What holds only under an assumption about the rest.**  `NothingLost` of
`GameNet` needs messages that fit the buffer (65533 bytes behind the reserved ones
for a client); `Found` and `Sorted` need the comparison of the length before an
insertion, which all callers make.

**Where the code and its comments part.**  Three comments promise more than the
code they stand at, and the models follow the code.

* `role.h:115` says of `role_login` that on failure it kicks the client.  The
  `kick_role` in it is commented out (`role.c:487`): a role whose scene is full is
  loaded, keeps its session and is listed in no scene, sees no broadcasts and is
  seen by nobody (`JoinScene` in `LoadSucceeds`).
* `role.h:25` says that the event of a cell must have been triggered before the
  next step.  `instance_data.action` is set when a role arrives and read by
  nobody, so a client that has steps left walks on (`Move` has no guard on
  `pending`).  The event stays to be met later, and `EventsOnce` holds.
* `handle_conn_msg.c:1286` says that a transport cell clears the dice.  They are
  set to the length of the request before the target is looked up, and with a
  target that is no node the length stays: the client has chosen its own throw
  (`Jump`).  That is why `StepsArePaid` counts these steps as granted.

## 4. What is proved

All theorems hold for every value of the constants that satisfies the named
`ASSUME` of the module that declares them: values that stand for nothing are none
of the others, bounds are natural numbers, things that exist at least once exist
(`None` is no account, an array has an entry, a dice cell's neighbours are cells).
TLC evaluates each of them on the instance of a run.

| module | proves about |
|--------|--------------|
| `GameSrvProof` | `GameSrv` under any clients, `OrderlyClients` and its refinement of `Account` |
| `GameSystemProof` | `GameSystem`: `ConnSrv`, the table behind it, and the refinement of `Wire` |
| `MemPoolProof` | `MemPool` and its refinement of `Allocator` |
| `QuestProof` | `Quest` with the `Bag` under it |
| `DungeonProof` | `DiceGame`, `Fight` and `Dungeon` |
| `ArraysProof` | `Friends` and its refinement of `Relations`, `SortArray` and its refinement of `Listing` |
| `LinksProof` | `GameNet` and `DbLink` |
| `SightProof` | `Sight` |

### GameSrv and OrderlyClients

| theorem | says |
|---------|------|
| `ImplementsTable` | `Spec => TableSpec` |
| `TypeCorrect`, `IndexCorrect`, `NamedCorrect` | `Spec => []TypeOK`, `Spec => []IndexInv`, `Spec => []NamedInv` |
| `BagsCorrect`, `InstancesCorrect`, `OwnersCorrect` | `Spec => []BagInv`, `Spec => []InstanceInv`, and both as `[]OwnersInv` |
| `ReleaseStores` | `Spec => StoredOnRelease` |
| `LoadsAreFresh` | `Spec => []LoadIsFresh` |
| `ScenesAreExact`, `NothingIsLeaked`, `LoadsComeOnce` | `OrderlySpec => []ScenesExact`, `[]NothingLeaks`, `[]LoadsOnce` |
| `AccountsAreKept` | `OrderlySpec => KeepsAccounts`, the refinement of `Account` |

`Inv1 == TypeOK /\ IndexInv` is inductive by itself: a lookup
returns used roles only, so what a handler releases is used; linking checks for
duplicates; unlinking only shrinks.  `IndexInv` is needed for types, because a
store is a well-formed request only when the released role still has its id.
`LoadCases` and `StepCases` then reduce every step to what it does to the pools
(`Admits`, `Releases`, `Moves`, `Loads`, or nothing), and `NamedInv`, `BagInv`
and `InstanceInv` are each preserved by these four.  `IInv` is the conjunction.
`ImplementsTable` takes each action to the step of `RoleTable` it contains, or to
a stutter; it needs `IndexInv` because `TableNext` releases the one role an index
finds.  With it, what `system` shows of the table behind the gateway is about
game_srv.
`ReleaseStores` needs `IndexInv` (a lookup releases one role, so its store is
the one that is sent) and `NamedInv` (the store is not dropped for a missing
scene or bag).

`LoadIsFresh` is not inductive: it says something of the answer that is about to
be read, and the mistake would have been made when the fetch was sent.
`FreshInv` says for each account that is indexed that in the line of messages
from game_srv over db_srv and back (`InFlight`) no store comes behind a fetch,
and that an answer already under way is the row as it is now; it holds until
the first kill.

Under orderly clients the indexes are the pool while game_srv runs and no two roles
have the same key (`KeysInv`), a role without data owns nothing (`UnnamedInv`),
and the bags are those of the roles with data (`BagsExact`); that makes
`ScenesExact` inductive.  The two queues are described by predicates of a queue
alone (`Queues`: a load is the last message of its account, an answer with
data agrees with the table, the stores of one account rise), with lemmas for
a message appended, read or lost, and `OnlineInv` joins them to the pool: for a
role with data no load is on its way, and no store and no row holds more than
the role has.  `AccountsAreKept` maps each handler to the step of `Account` it is;
the money of an account is the role's when it is online and otherwise that of the
last store on its way, or of the row, and most of the proof is that no handler
changes it for the accounts it is not about.  A store that fails is the step `Fail`
of its account: what it carried is no more than what the account had, the stores
behind it carry at least as much (`SettledDrop`), and while its role is online the
balance is the role's and does not move.

### GameSystem

| theorem | says |
|---------|------|
| `GateKeepsOrder` | `Spec => []OldestFirst` |
| `RolesCanLeave` | `Spec => []EveryRoleHasAWayOut` |
| `ClientsActForThemselves` | `Spec => []NoImpersonation` |
| `GatewayIsOneWire` | `Spec => ActsAsWire` |

`GateInv` is about the gateway: the cache is empty while a game server is
connected, so that cache and socket together are one queue (`Pending`), in which
the numbers of the connections of a descriptor rise.  `ActInv` adds the table: a
descriptor that is not tainted has at most one role (`TableInv`), whose owner is
not younger than anybody on the descriptor and is connected or has its LOGOUT or
kick under way (`RoleInv`); whoever has sent a login is accounted for, by a role,
a kick or the login itself (`LoginInv`, `KickInv`).  Neither half is inductive
without the other: a LOGOUT finds the right role only because an older one is
not left, and an older one is not left only because LOGOUTs are not overtaken.

### MemPool

| theorem | says |
|---------|------|
| `KillAnywhereIsSurvived` | `Spec => []KillIsSurvived` |
| `ListsAgree` | `Spec => []ListsExact` |
| `PoolIsAnAllocator` | `Spec => KeepsHolders`, the refinement of `Allocator` |

The invariant gives the two lists as chains: there are sequences `s` and `f` of
different elements so that the links forward are those of the one and of the
other, they have no element in common, and at most one element per kill is in
neither (`Shape`).  `Idle`, `Creating` and `Destroying` say for each of the six
writes what the backward links look like, and for each write there is a lemma that
gives the two sequences after it.  What `resume` walks is then `s` (`Walked`), by the
least place at which the walk and the chain would differ.

### Quest and Bag

| theorem | says |
|---------|------|
| `PoolIsExact` | `QuestSpec => []PoolExact` |
| `RolesArePaidOnce` | `QuestSpec => []PaidOnce` |
| `KillsAreNeeded` | `QuestSpec => NoKillNoReward` |
| `GiftsComeWhole` | `QuestSpec => GiftsAreWhole` |
| `NothingIsLost` | `QuestSpec => NothingVanishes` |
| `CountsFollow` | `QuestSpec => CountsFollowTheBag` |

`PoolExact` is inductive with the types: every operation of `Bag` takes an element
of the pool for each position it fills and returns one for each it empties
(`Balanced`), which the loops over a list of things keep round by round.
`Books` is the invariant of payment: the money of a role is the sum due up to its
index, and its log holds at most the next quest, whose counters say whether it is
finished unless the code has left one unwritten.  The last three are about single
steps, and their proofs are about `add_thing_list`: the plan reserves different
positions for all entries of a list, so that carrying it out (`Put`) puts there
what the plan said.  That a sum over the positions of a bag changes by what one
position changes is proved for sums over any finite set.

### DiceGame, Fight and Dungeon

| theorem | says |
|---------|------|
| `TypeCorrect`, `FightTypeCorrect` | `Spec => []TypeOK`, `FightSpec => []FightTypeOK` |
| `EventsCorrect`, `AwardsCorrect`, `StepsCorrect` | `Spec => []EventsOnce`, `[]AwardIsEarned`, `[]StepsArePaid` |
| `ReplayCorrect`, `VerdictCorrect` | `FightSpec => []ReplayAgrees`, `FightSpec => []VerdictStands` |
| `FallenCorrect` | `FightSpec => FallenRest` |
| `ImplementsBoard`, `ImplementsFights` | `DungeonSpec => Spec` (of `DiceGame`), `DungeonSpec => FightSpec` |
| `BeatenCorrect` | `DungeonSpec => BeatenInAFight` |

On the board the three properties together with `OnlyCleared` (the event of a cell
is the map's or none) are inductive: none is so alone, since `EventsOnce` needs
that a cell without an event never gets one, and `AwardIsEarned` needs that the
boss beaten in this game is a cell whose event was the boss.  In a fight the
strengthening is that both sides stand (`Standing`), except a role that began
without health, and that no health is negative outside one.  Every step of a
dungeon is a step of the board or leaves it alone, and the same of the fights, so
that all that is proved of the two parts holds in the composition.
`OnlyVictories` shows that nothing but the end of a won fight adds to `beaten`;
`VerdictStands` and `ReplayAgrees` say what that means for the client.

### Friends

| theorem | says |
|---------|------|
| `FriendsTypeCorrect`, `ListsHaveNoGaps`, `OnceCorrect` | `FriendsSpec => []FriendsTypeOK`, `FriendsSpec => []NoGaps`, `FriendsSpec => []Once` |
| `ImplementsRelations` | `FriendsSpec => KeepsRelations` |

`NoGaps` is inductive by itself, in the middle of a removal too: a shift copies
the next entry, so a 0 can only appear where everything behind is 0.  `Once`
speaks of the entries that *count*: during a removal the entry written next
holds what is being removed, or a copy of the one before it, and is left out.
With that a shift moves the entry that does not count by one and changes no
list, as a set.  The refinement takes the start of a removal to `TakeOff`, an add to
`EnterOn`, every shift, store and load to a stutter, and a kill to `CutShort`:
what the entry at `at` holds counts again, so one account may come back.

### SortArray

| theorem | says |
|---------|------|
| `TypeCorrect`, `SortedCorrect`, `SearchCorrect` | `Spec => []TypeOK`, `Spec => []Sorted`, `Spec => []Found` |
| `ImplementsListing` | `Spec => KeepsListing` |

`IInv` says for each step of a call what the array looks like: in front of the
memmove the place is the one of the key (`Moving`), behind that of an insertion it
is a copy of its right neighbour or has the key (`Inserted`), behind that of a
deletion the last place is a copy of the one before it (`Deleted`).  A kill drops
the call and leaves each of these in order.  One inside the memmove leaves any
mixture of moved and unmoved places, and that is in order too: every place holds
its old value or that of one neighbour, always on the same side (`MovedOrder`).

The refinement counts for each key the places that hold it (`Num`).  The memmove
that is through takes no copy and makes none (`MoveLists`, over `NumShifts`: the
places of the one array are those of the other, moved by one), the write goes to
a place that does not count yet, and the call happens when `*pnmemb` changes.  For
a kill, `KillInMove` bounds what any subset does: the places of a key are a run in
an array in order, a run can lose a copy at its one end and win one at the other
only, and so its number changes by one at most.  `KillInInsert` and `KillInDelete` are the
kills behind the memmove.

### GameNet and DbLink

| theorem | says |
|---------|------|
| `TypeCorrect` | `Spec => []TypeOK` (the buffer is never overrun) |
| `FramingCorrect`, `NoneWaitsCorrect`, `NothingLostCorrect` | `Spec => []Framed`, `Spec => []NoneWaits`, `Spec => []NothingLost` |
| `AnswersInOrder` | `LinkSpec => []OldestFirst` |

In `GameNet` the buffer begins where a message does (`Aligned`), messages
end in rising order and have lengths that occur, and in the loop a whole message
is there (`Whole`).  `NothingLost` rests on `NoneWaits`: with no whole message in
the buffer and every message fitting in, the buffer has room, so `recv` returns 0
only at the end of the stream.

In `DbLink` the requests of *all* processes, with the answers and the cache before
them, are one row of queues (`Parts`), and the invariant says that the numbers
rise along it (`InOrder`).  The property alone is not inductive: it leaves out
the sockets of processes that were refused, and whether a message may move from
a socket to the cache depends on what lies between.  `Queueing` says that
processes reach db_srv in the order of their starts, `Emptied` that nothing waits
in a queue that is passed over: the cache is empty while the process with the
slot is up, and a process that is not linked has no request in its socket.  Each
action moves the first message of a queue to an earlier one, takes messages away,
moves a whole queue into an empty one, or adds at the end, and there is one lemma
about each of the four.

### Sight

| theorem | says |
|---------|------|
| `EveryoneIsSeen` | `Spec => []SightExact` |

`SightExact` folds what a client has seen and what is on its way to it into what
it *will* see.  `Ends(v, f, w, x)` says the same as a relation: what `v` becomes
when the notices in `w` to descriptor `f` are taken in is `x`.  For every queue
there is such an `x` (`EndExists`) and one only (`EndsOnce`).  A proof can follow
it notice by notice, at the end when a handler sends one (`EndsAppend`) and at the
front when one is delivered (`EndsTail`).  The inductive invariant is `SInv`:

* `Exact`, the property itself for every role that watches, in this form;
* `Placed`, that only roles that are online have a place, and `Listed`, that a
  scene lists a role only where it is;
* `Waiting`, which is about the queue to game_srv.  A LOGIN waits there behind the
  LOGOUT of whoever had its descriptor or its account before (`LoginWaits`), and a
  role that is online belongs to the client on its descriptor, or its LOGOUT is
  still to come (`Attached`).  That is why a login finds nobody on its descriptor
  and no second role of its account, which the handlers rely on without a test.

A handler is a list of steps on a copy of the tables, and a kill takes the copy
after any of them.  One step alone makes the others wrong: between the removal of a
role from a scene and the notice of it they would see somebody who is not
there.  So the lemmas are about the parts of a handler that belong together, in
which the role leaves a scene (`Left`) or comes into one or is refused
(`Arrived`): whoever was to see exactly what is there before still is after it
(`Keeps`).  Each handler has a lemma that goes through its list in order
(`TransportIs`, `ArriveIs` for the load and the way out of an instance, `EnterIs`,
`MoveIs`, `DepartSafe` for the logout) and says the same of the whole, its own
client included (`Right`).

A kill in between may lose notices and leaves nobody watching (`missed' = Fd`); what has to survive it is the rest of the invariant, the tables
half way through a handler included (`Fit`, `KilledSafe`), and `Exact` begins
anew for each client with its next answer, whatever it missed (`EndsAnswer`,
`Right`).

### What stays model-checked

The liveness properties `LoadEnds`, `Delivered`, `Answered` and `SlotFreed`:
fairness and ENABLED are out of the prover's reach.  Every other property a run
checks is a theorem.

The library's induction theorems take an operator as a parameter, which no
installed prover can instantiate.  Where a proof here needs an induction (over the
rounds of a loop, the walk along a list, the terms of a sum) it takes the least
number for which the claim fails (`LeastNumber`, from the well-foundedness of `<`)
and derives a contradiction from the one before; that a loop or a fold *has* a
value at each round is proved the same way (`LoopExists`).  No module with a
theorem uses a RECURSIVE operator.

The type invariants of `GameSrv`, `Friends`, `DiceGame`, `SortArray`, `GameNet` and
`Fight` are proved as theorems of their own, as are `NamedInv`, `StepsArePaid`,
`Found`, `NoneWaits` and `FallenRest`; no run repeats them.  In the other modules the
type invariant is the first conjunct of a checked property and part of the
inductive invariant of the proof.

## 5. What is not modelled

**Abstracted.**  The red-black tree is a set with unique keys; libevent gives one
handler at a time; between `GameNet` and the other modules the byte stream is a
sequence of messages; a row has the columns that matter; strength, skills, luck
and the dice are choices.  Configuration files are constants.

**Left out, and why.**

* `path.c` (`refresh_path`) and `buff.c` have no caller that runs; the same is true
  of the container for a store, which is never created.
* GM commands and the script engine call operations of the other parts, with two
  exceptions the models have (`gm_dice_handle`) or leave out (a GM accepts a quest
  without the test of its order).
* Servers that wait for each other.  `send_one_msg` spins on EAGAIN and reads
  nothing meanwhile, so two servers that send to each other over full sockets
  stop for ever.  Nothing in the code bounds what clients have sent, so no
  property would hold; the models take a send as done at once.
* The death of conn_srv and of db_srv: game_srv connects once and never again, and
  ends with the first write to a dead gateway (SIGPIPE), so nothing is handled.
* A client whose stream broke off in the middle of a forced send reads the next
  message as the rest of the first; `Sight` counts the message as lost.
* A kill in the middle of a handler of bags, quests or boards.  `MemPool`,
  `SortArray`, `Friends` and `Sight` have kills inside an operation.
* A division by a level that the configuration leaves at 0.
* The death of db_srv would also lose the requests it has not read, stores among
  them; no property is about it.
* A row whose blob does not unpack (`handle_roledb_msg.c:49`): every blob is packed
  by db_srv's create or game_srv's store with the descriptor that unpacks it.  The
  path would kick the role after it has got its bag and scene.
* `resume_role_data` sets the pointers of roles that have a name only (`role.c:642`).
  A role without data has a scene or an instance only after a transport or an
  entry that overtook its load, which orderly clients do not send.  After a restart
  it keeps pointers of the dead process, which are good if `shmat` returns the same
  address and undefined otherwise; `Resume` keeps these fields, that is, has the
  first case only.
* `GameSystem`'s clients send no LOGOUT_REQUEST of their own; they log out by closing
  the connection.  `GameSrv` has the request, at any time.
* A header with a length below `sizeof(PROTO_HEAD)`, 0 for instance, which no sender
  of the repository writes: the assumption on `Length` in `GameNet` excludes it like
  a length that is too long.
* `test_fight` returns before the fight, and before it resets the health, when the
  monster of a cell has no configuration (`fight.c:38`); the models have complete
  configurations.  A GM may change the greatest health of a role in between
  (`gm_imp.c:19`).
* In `Sight` a logout is not cut short by a kill, nor does one fall while a LOGOUT is
  on its way; `GameSystem` has what is lost with it.
* The counters of the sorted arrays are one or two bytes wide and handed over as
  `int *`; padding that nothing writes follows each of them.

**Size.**  Of the repository's lines of C and C++ about a tenth is the running
server.  The rest is generated protobuf-c code (in several copies), headers of
libraries, test tools and editors, and older versions of the servers under
`src/common-lib` and beside `src/server`.  None of it has behaviour of its own that
runs, so it is not modelled, and the map covers a small share of the whole
although the live server's components are.

## 6. What is left

1. Kills inside the handlers of bags and quests, on top of `MemPool`'s steps.
2. The stream of a client behind a partial write.
