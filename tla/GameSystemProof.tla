--------------------------- MODULE GameSystemProof ---------------------------
(* Proofs about GameSystem, for any number of descriptors, accounts and    *)
(* roles, any sizes of the cache and of the sockets and any number of      *)
(* deaths: the gateway is one queue, every role keeps a way out, and no    *)
(* client acts for another.                                                *)
EXTENDS GameSystem, SequenceTheorems, TLAPS

(* All that is on its way to the game server.                              *)
Q == C!Pending

(* The first half of C!OldestFirst, of a queue and the open connections.   *)
Oldest(q, cn) ==
  /\ \A j, k \in DOMAIN q : j < k /\ q[j].fd = q[k].fd =>
       \/ q[j].conn < q[k].conn
       \/ q[j].conn = q[k].conn /\ q[j].body # Logout
  /\ \A k \in DOMAIN q : cn[q[k].fd] # 0 =>
       \/ q[k].conn < cn[q[k].fd]
       \/ q[k].conn = cn[q[k].fd] /\ q[k].body # Logout

(* A connection is on one descriptor, and counted.                         *)
Counted(q, cn, n) ==
  /\ \A fd \in Session : cn[fd] <= n
  /\ \A fd, g \in Session : cn[fd] = cn[g] /\ cn[fd] # 0 => fd = g
  /\ \A k \in DOMAIN q : q[k].conn <= n

GateInv ==
  /\ Oldest(Q, conn)
  /\ Counted(Q, conn, count)
  /\ cache # <<>> => link = "none"
  /\ toGame # <<>> => link = "up"
  /\ logins \subseteq 1 .. count

(* A role is from the login of a connection.                               *)
OwnedInv == \A r \in used : owner[r] \in logins /\ session[r] \in Session

IInv == TypeOK /\ GateInv /\ OwnedInv

(* What EveryRoleHasAWayOut says of a descriptor and a connection.         *)
Out(q, cn, tn, fd, c) ==
  \/ fd \in tn
  \/ cn[fd] = c
  \/ \E k \in DOMAIN q : q[k].fd = fd /\ q[k].conn = c /\ q[k].body = Logout

(* Nothing on its way on fd, and no client there now, is older than c.     *)
Senior(q, cn, fd, c) ==
  /\ cn[fd] # 0 => c <= cn[fd]
  /\ \A k \in DOMAIN q : q[k].fd = fd => c <= q[k].conn

(* A connection logs in once, and a login on its way meets no role and no  *)
(* kick of its own connection.                                             *)
Logins(q, cn, tn, lg, met) ==
  /\ \A k \in DOMAIN q : q[k].body \in RoleId =>
       q[k].conn \in lg \ met /\ Out(q, cn, tn, q[k].fd, q[k].conn)
  /\ \A j, k \in DOMAIN q :
       q[j].body \in RoleId /\ q[k].body \in RoleId /\ q[j].conn = q[k].conn => j = k

Owners == {owner[r] : r \in used}
Kicked == {fromGame[i].conn : i \in DOMAIN fromGame}

TableInv ==
  /\ idIdx = IF proc = "up" THEN used ELSE {}
  /\ fdIdx \subseteq idIdx
  /\ \A r, q \in used : roleId[r] = roleId[q] => r = q
  /\ \A r, q \in used : session[r] = session[q] /\ r # q => session[r] \in tainted
  /\ proc = "up" => \A r \in used : r \in fdIdx \/ session[r] \in tainted

RoleInv ==
  /\ \A r, q \in used : owner[r] = owner[q] => r = q
  /\ \A r \in used : /\ Senior(Q, conn, session[r], owner[r])
                      /\ Out(Q, conn, tainted, session[r], owner[r])

LoginInv == Logins(Q, conn, tainted, logins, Owners \cup Kicked)

KickInv == Kicked \subseteq logins /\ Owners \cap Kicked = {}

ActInv == TableInv /\ RoleInv /\ LoginInv /\ KickInv

-----------------------------------------------------------------------------
(* A queue after a message is sent or read.                                *)
LEMMA AppendAt ==
  ASSUME NEW S, NEW s \in Seq(S), NEW m \in S
  PROVE  /\ DOMAIN s = 1 .. Len(s) /\ Len(s) \in Nat /\ Append(s, m) \in Seq(S)
         /\ DOMAIN Append(s, m) = 1 .. Len(s) + 1
         /\ \A k \in DOMAIN s : Append(s, m)[k] = s[k]
         /\ Append(s, m)[Len(s) + 1] = m
BY AppendProperties, LenProperties

LEMMA TailAt ==
  ASSUME NEW S, NEW s \in Seq(S), s # <<>>
  PROVE  /\ DOMAIN s = 1 .. Len(s) /\ Len(s) \in Nat /\ 1 \in DOMAIN s
         /\ Head(s) = s[1] /\ Head(s) \in S /\ Tail(s) \in Seq(S)
         /\ DOMAIN Tail(s) = 1 .. Len(s) - 1
         /\ \A k \in DOMAIN Tail(s) :
              k \in Nat /\ k + 1 \in DOMAIN s /\ 1 < k + 1 /\ Tail(s)[k] = s[k + 1]
<1>1. Len(s) \in Nat /\ DOMAIN s = 1 .. Len(s) /\ Len(s) # 0
  BY EmptySeq, LenProperties
<1>2. /\ Head(s) = s[1] /\ Head(s) \in S /\ Tail(s) \in Seq(S) /\ Len(Tail(s)) = Len(s) - 1
      /\ \A k \in 1 .. Len(Tail(s)) : Tail(s)[k] = s[k + 1]
  BY HeadTailProperties
<1>3. DOMAIN Tail(s) = 1 .. Len(s) - 1
  BY <1>2, LenProperties
<1>4. 1 \in DOMAIN s /\ \A k \in 1 .. Len(s) - 1 : k \in Nat /\ k + 1 \in DOMAIN s /\ 1 < k + 1
  BY <1>1
<1> QED
  BY <1>1, <1>2, <1>3, <1>4

LEMMA MessageAt ==
  ASSUME NEW q \in Seq(C!Message)
  PROVE  \A k \in DOMAIN q :
           /\ q[k] \in C!Message
           /\ q[k].fd \in Session /\ q[k].conn \in 1 .. MaxConn
           /\ q[k].conn \in Nat \ {0}
<1>1. \A k \in DOMAIN q : q[k] \in C!Message
  BY LenProperties, ElementOfSeq
<1> QED
  BY <1>1, GameSystemAssumption DEF C!Message

(* The oldest stay first: when a message of an open connection is sent,    *)
(* the last one together with its end, when one is read, when a connection *)
(* ends and when one is accepted.                                          *)
LEMMA OldestSend ==
  ASSUME NEW q \in Seq(C!Message), NEW cn \in [Session -> 0 .. MaxConn], Oldest(q, cn),
         NEW m \in C!Message, cn[m.fd] = m.conn
  PROVE  /\ m.body # Logout => Oldest(Append(q, m), cn)
         /\ Oldest(Append(q, m), [cn EXCEPT ![m.fd] = 0])
<1> DEFINE p == Append(q, m)
<1>1. /\ DOMAIN q = 1 .. Len(q) /\ Len(q) \in Nat
      /\ DOMAIN p = 1 .. Len(q) + 1
      /\ \A k \in DOMAIN q : p[k] = q[k]
      /\ p[Len(q) + 1] = m
  BY AppendAt
<1> HIDE DEF p
<1>2. m.fd \in Session /\ m.conn \in Nat /\ m.conn # 0
  BY GameSystemAssumption DEF C!Message
<1>3. \A k \in DOMAIN p : k \in DOMAIN q \/ k = Len(q) + 1
  BY <1>1
<1>4. \A j, k \in DOMAIN p : j < k => j \in DOMAIN q
  BY <1>1
<1>5. \A j, k \in DOMAIN p : j < k /\ p[j].fd = p[k].fd =>
        \/ p[j].conn < p[k].conn
        \/ p[j].conn = p[k].conn /\ p[j].body # Logout
  <2> SUFFICES ASSUME NEW j \in DOMAIN p, NEW k \in DOMAIN p, j < k, p[j].fd = p[k].fd
               PROVE  \/ p[j].conn < p[k].conn
                      \/ p[j].conn = p[k].conn /\ p[j].body # Logout
    OBVIOUS
  <2>1. j \in DOMAIN q /\ p[j] = q[j]
    BY <1>1, <1>4
  <2>2. CASE k \in DOMAIN q
    BY <1>1, <2>1, <2>2 DEF Oldest
  <2>3. CASE k = Len(q) + 1
    BY <1>1, <1>2, <2>1, <2>3 DEF Oldest
  <2> QED
    BY <1>3, <2>2, <2>3
<1>6. m.body # Logout => \A k \in DOMAIN p : cn[p[k].fd] # 0 =>
        \/ p[k].conn < cn[p[k].fd]
        \/ p[k].conn = cn[p[k].fd] /\ p[k].body # Logout
  BY <1>1, <1>3 DEF Oldest
<1>7. \A k \in DOMAIN p : [cn EXCEPT ![m.fd] = 0][p[k].fd] # 0 =>
        \/ p[k].conn < [cn EXCEPT ![m.fd] = 0][p[k].fd]
        \/ p[k].conn = [cn EXCEPT ![m.fd] = 0][p[k].fd] /\ p[k].body # Logout
  <2> SUFFICES ASSUME NEW k \in DOMAIN p, [cn EXCEPT ![m.fd] = 0][p[k].fd] # 0
               PROVE  \/ p[k].conn < [cn EXCEPT ![m.fd] = 0][p[k].fd]
                      \/ p[k].conn = [cn EXCEPT ![m.fd] = 0][p[k].fd] /\ p[k].body # Logout
    OBVIOUS
  <2>1. p[k].fd # m.fd
    BY <1>1, <1>2, <1>3, ElementOfSeq DEF C!Message
  <2>2. k \in DOMAIN q /\ p[k] = q[k] /\ q[k].fd \in Session
    BY <1>1, <1>3, <2>1, ElementOfSeq DEF C!Message
  <2>3. [cn EXCEPT ![m.fd] = 0][p[k].fd] = cn[p[k].fd]
    BY <2>1, <2>2
  <2> QED
    BY <2>2, <2>3 DEF Oldest
<1> QED
  BY <1>5, <1>6, <1>7 DEF Oldest, p

LEMMA OldestRead ==
  ASSUME NEW q \in Seq(C!Message), q # <<>>, NEW cn, Oldest(q, cn)
  PROVE  Oldest(Tail(q), cn)
<1> DEFINE p == Tail(q)
<1>1. /\ DOMAIN q = 1 .. Len(q) /\ Len(q) \in Nat
      /\ \A k \in DOMAIN p : k \in Nat /\ k + 1 \in DOMAIN q /\ p[k] = q[k + 1]
  BY TailAt
<1> HIDE DEF p
<1>2. \A j, k \in DOMAIN p : j < k => j + 1 < k + 1
  BY <1>1
<1> QED
  BY <1>1, <1>2 DEF Oldest, p

LEMMA OldestLess ==
  ASSUME NEW q \in Seq(C!Message), NEW cn \in [Session -> 0 .. MaxConn], Oldest(q, cn), NEW fd
  PROVE  Oldest(q, [cn EXCEPT ![fd] = 0])
<1>1. \A k \in DOMAIN q : q[k].fd \in Session
  BY MessageAt
<1> QED
  BY <1>1 DEF Oldest

LEMMA OldestNew ==
  ASSUME NEW q \in Seq(C!Message), NEW cn \in [Session -> 0 .. MaxConn], Oldest(q, cn),
         NEW fd \in Session, NEW n \in Nat, \A k \in DOMAIN q : q[k].conn <= n
  PROVE  Oldest(q, [cn EXCEPT ![fd] = n + 1])
<1>1. \A k \in DOMAIN q : q[k].fd \in Session /\ q[k].conn \in Nat /\ q[k].conn < n + 1
  <2>1. \A k \in DOMAIN q : q[k].fd \in Session /\ q[k].conn \in Nat
    BY MessageAt
  <2> QED
    BY <2>1
<1> QED
  BY <1>1 DEF Oldest

LEMMA CountedSend ==
  ASSUME NEW q \in Seq(C!Message), NEW cn \in [Session -> 0 .. MaxConn], NEW n \in Nat,
         Counted(q, cn, n), NEW m \in C!Message, cn[m.fd] = m.conn
  PROVE  Counted(Append(q, m), cn, n)
<1>1. /\ \A k \in DOMAIN q : Append(q, m)[k] = q[k]
      /\ \A k \in DOMAIN Append(q, m) : k \in DOMAIN q \/ Append(q, m)[k] = m
  BY AppendAt
<1>2. m.fd \in Session
  BY DEF C!Message
<1> QED
  BY <1>1, <1>2 DEF Counted

LEMMA CountedRead ==
  ASSUME NEW q \in Seq(C!Message), q # <<>>, NEW cn, NEW n, Counted(q, cn, n)
  PROVE  Counted(Tail(q), cn, n)
BY TailAt DEF Counted

LEMMA CountedLess ==
  ASSUME NEW q, NEW cn \in [Session -> 0 .. MaxConn], NEW n \in Nat, Counted(q, cn, n), NEW fd
  PROVE  Counted(q, [cn EXCEPT ![fd] = 0], n)
BY DEF Counted

LEMMA CountedNew ==
  ASSUME NEW q \in Seq(C!Message), NEW cn \in [Session -> 0 .. MaxConn], NEW n \in Nat,
         Counted(q, cn, n), NEW fd \in Session
  PROVE  Counted(q, [cn EXCEPT ![fd] = n + 1], n + 1)
<1>1. \A g \in Session : cn[g] \in Nat /\ cn[g] <= n /\ cn[g] <= n + 1 /\ cn[g] # n + 1
  BY GameSystemAssumption DEF Counted
<1>2. \A k \in DOMAIN q : q[k].conn <= n + 1
  <2>1. \A k \in DOMAIN q : q[k].conn \in Nat
    BY MessageAt
  <2> QED
    BY <2>1 DEF Counted
<1> QED
  BY <1>1, <1>2 DEF Counted

-----------------------------------------------------------------------------
(* The steps of the gateway, in terms of the one queue.                    *)

Sends(m) ==
  \/ Q' = Append(Q, m) /\ tainted' = tainted
  \/ Q' = Q /\ tainted' = IF m.body = Logout THEN tainted \cup {m.fd} ELSE tainted

LEMMA PassSends ==
  ASSUME IInv, NEW m \in C!Message, C!Pass(m)
  PROVE  /\ Sends(m)
         /\ toGame' \in Seq(C!Message) /\ cache' \in Seq(C!Message) /\ tainted' \subseteq Session
         /\ cache' # <<>> => link = "none"
         /\ toGame' # <<>> => link = "up"
<1>1. toGame \in Seq(C!Message) /\ cache \in Seq(C!Message) /\ tainted \subseteq Session
  BY DEF IInv, TypeOK, C!TypeOK
<1>2. (cache # <<>> => link = "none") /\ (toGame # <<>> => link = "up")
  BY DEF IInv, GateInv
<1>3. m.fd \in Session
  BY DEF C!Message
<1>4. Append(toGame, m) \in Seq(C!Message) /\ Append(cache, m) \in Seq(C!Message)
  BY <1>1, AppendAt
<1>5. Q = toGame \o cache /\ Q' = toGame' \o cache'
  BY DEF Q, C!Pending
<1>6. CASE link = "up" /\ toGame' = Append(toGame, m) /\ UNCHANGED <<cache, tainted>>
  <2>1. cache = <<>>
    BY <1>2, <1>6
  <2>2. Q = toGame /\ Q' = Append(toGame, m)
    BY <1>1, <1>4, <1>5, <1>6, <2>1, ConcatEmptySeq
  <2> QED
    BY <1>1, <1>4, <1>6, <2>1, <2>2 DEF Sends
<1>7. CASE link = "none" /\ cache' = Append(cache, m) /\ UNCHANGED <<toGame, tainted>>
  <2>1. toGame = <<>>
    BY <1>2, <1>7
  <2>2. Q = cache /\ Q' = Append(cache, m)
    BY <1>1, <1>4, <1>5, <1>7, <2>1, ConcatEmptySeq
  <2> QED
    BY <1>1, <1>4, <1>7, <2>1, <2>2 DEF Sends
<1>8. CASE /\ tainted' = IF m.body = Logout THEN tainted \cup {m.fd} ELSE tainted
           /\ UNCHANGED <<cache, toGame>>
  BY <1>1, <1>2, <1>3, <1>5, <1>8 DEF Sends
<1> QED
  BY <1>6, <1>7, <1>8 DEF C!Pass

LEMMA QueueType ==
  ASSUME TypeOK
  PROVE  Q \in Seq(C!Message)
BY ConcatProperties DEF TypeOK, C!TypeOK, Q, C!Pending

(* A client's request, and the gateway's LOGOUT for it.                    *)
LEMMA SendKeeps ==
  ASSUME IInv, NEW m \in C!Message, conn[m.fd] = m.conn, C!Pass(m),
         \/ m.body # Logout /\ conn' = conn
         \/ conn' = [conn EXCEPT ![m.fd] = 0],
         UNCHANGED <<count, link, alone, fromGame>>
  PROVE  /\ C!TypeOK'
         /\ Oldest(Q, conn)' /\ Counted(Q, conn, count)'
         /\ (cache # <<>> => link = "none")' /\ (toGame # <<>> => link = "up")'
<1>1. Q \in Seq(C!Message) /\ conn \in [Session -> 0 .. MaxConn] /\ count \in Nat
  BY QueueType, GameSystemAssumption DEF IInv, TypeOK, C!TypeOK
<1>2. Oldest(Q, conn) /\ Counted(Q, conn, count)
  BY DEF IInv, GateInv
<1>3. Sends(m)
  BY PassSends
<1>4. Oldest(Q', conn')
  <2>1. Oldest(Append(Q, m), conn')
    BY <1>1, <1>2, OldestSend
  <2>2. Oldest(Q, conn')
    BY <1>1, <1>2, OldestLess
  <2> QED
    BY <1>3, <2>1, <2>2 DEF Sends
<1>5. Counted(Q', conn', count)
  <2>1. Append(Q, m) \in Seq(C!Message)
    BY <1>1, AppendAt
  <2>2. Counted(Append(Q, m), conn, count)
    BY <1>1, <1>2, CountedSend
  <2>3. Counted(Append(Q, m), conn', count) /\ Counted(Q, conn', count)
    BY <1>1, <1>2, <2>2, CountedLess
  <2> QED
    BY <1>3, <2>3 DEF Sends
<1>6. conn' \in [Session -> 0 .. MaxConn]
  BY <1>1, GameSystemAssumption
<1> QED
  BY <1>4, <1>5, <1>6, PassSends DEF IInv, TypeOK, C!TypeOK

LEMMA AcceptKeeps ==
  ASSUME IInv, NEW fd \in Session, C!Accept(fd)
  PROVE  /\ C!TypeOK'
         /\ Oldest(Q, conn)' /\ Counted(Q, conn, count)'
<1>1. Q \in Seq(C!Message) /\ conn \in [Session -> 0 .. MaxConn] /\ count \in Nat
  BY QueueType, GameSystemAssumption DEF IInv, TypeOK, C!TypeOK
<1>2. Oldest(Q, conn) /\ Counted(Q, conn, count)
  BY DEF IInv, GateInv
<1>3. /\ count < MaxConn /\ count' = count + 1 /\ conn' = [conn EXCEPT ![fd] = count + 1]
      /\ UNCHANGED <<link, alone, cache, toGame, fromGame, tainted>>
  BY DEF C!Accept
<1>4. Q' = Q
  BY <1>3 DEF Q, C!Pending
<1>5. Oldest(Q', conn')
  BY <1>1, <1>2, <1>3, <1>4, OldestNew DEF Counted
<1>6. Counted(Q', conn', count')
  BY <1>1, <1>2, <1>3, <1>4, CountedNew
<1>7. C!TypeOK'
  BY <1>1, <1>3, GameSystemAssumption DEF IInv, TypeOK, C!TypeOK
<1> QED
  BY <1>5, <1>6, <1>7

(* A kick that is read, a game server that is gone.                        *)
LEMMA KickKeeps ==
  ASSUME IInv, C!KickRead
  PROVE  /\ C!TypeOK' /\ Q' = Q
         /\ Oldest(Q, conn)' /\ Counted(Q, conn, count)'
<1>1. Q \in Seq(C!Message) /\ conn \in [Session -> 0 .. MaxConn] /\ count \in Nat
  BY QueueType, GameSystemAssumption DEF IInv, TypeOK, C!TypeOK
<1>2. Oldest(Q, conn) /\ Counted(Q, conn, count)
  BY DEF IInv, GateInv
<1>3. fromGame \in Seq(C!Notice) /\ fromGame # <<>>
  BY DEF IInv, TypeOK, C!TypeOK, C!KickRead
<1>4. Head(fromGame) \in C!Notice /\ Tail(fromGame) \in Seq(C!Notice)
  BY <1>3, HeadTailProperties
<1>5. PICK fd \in Session : conn' = [conn EXCEPT ![fd] = 0] /\ tainted' \in {tainted, tainted \cup {fd}}
  BY <1>4 DEF C!KickRead, C!Notice
<1>6. fromGame' = Tail(fromGame) /\ UNCHANGED <<count, link, alone, cache, toGame>>
  BY DEF C!KickRead
<1>7. Q' = Q
  BY <1>6 DEF Q, C!Pending
<1>8. Oldest(Q', conn') /\ Counted(Q', conn', count')
  BY <1>1, <1>2, <1>5, <1>6, <1>7, OldestLess, CountedLess
<1>9. conn' \in [Session -> 0 .. MaxConn] /\ tainted' \subseteq Session
  BY <1>1, <1>5, GameSystemAssumption DEF IInv, TypeOK, C!TypeOK
<1> QED
  BY <1>4, <1>6, <1>7, <1>8, <1>9 DEF IInv, TypeOK, C!TypeOK

(* The game server connects, dies, and is given up: its death takes what   *)
(* is in the socket, and nothing else.                                     *)
LEMMA ConnectsQueue ==
  ASSUME IInv, C!GameConnects
  PROVE  /\ C!TypeOK' /\ Q' = Q /\ tainted' = tainted
         /\ Oldest(Q, conn)' /\ Counted(Q, conn, count)'
         /\ (cache # <<>> => link = "none")' /\ (toGame # <<>> => link = "up")'
         /\ link' = "up" \/ alone'
<1>1. toGame \in Seq(C!Message) /\ cache \in Seq(C!Message)
  BY DEF IInv, TypeOK, C!TypeOK
<1>2. (cache # <<>> => link = "none") /\ (toGame # <<>> => link = "up")
  BY DEF IInv, GateInv
<1>3. UNCHANGED <<conn, count, fromGame, tainted>>
  BY DEF C!GameConnects
<1>4. CASE link = "none" /\ link' = "up" /\ C!Flush /\ UNCHANGED alone
  <2>1. toGame' = toGame \o cache /\ cache' = <<>>
    BY <1>4 DEF C!Flush
  <2>2. toGame' \in Seq(C!Message) /\ cache' \in Seq(C!Message)
    BY <1>1, <2>1, ConcatProperties, EmptySeq
  <2>3. Q' = Q
    BY <2>1, <2>2, ConcatEmptySeq DEF Q, C!Pending
  <2> QED
    BY <1>3, <1>4, <2>1, <2>2, <2>3 DEF IInv, TypeOK, C!TypeOK, GateInv
<1>5. CASE link = "broken" /\ alone' = TRUE /\ UNCHANGED <<link, cache, toGame>>
  <2>1. Q' = Q
    BY <1>5 DEF Q, C!Pending
  <2> QED
    BY <1>2, <1>3, <1>5, <2>1 DEF IInv, TypeOK, C!TypeOK, GateInv
<1> QED
  BY <1>4, <1>5 DEF C!GameConnects

LEMMA DiesQueue ==
  ASSUME IInv, C!GameDies
  PROVE  /\ C!TypeOK' /\ (Q' = Q \/ Q' = <<>>)
         /\ tainted \subseteq tainted'
         /\ \A k \in DOMAIN Q : Q' # Q /\ Q[k].body = Logout => Q[k].fd \in tainted'
         /\ Oldest(Q, conn)' /\ Counted(Q, conn, count)'
         /\ (cache # <<>> => link = "none")' /\ (toGame # <<>> => link = "up")'
         /\ link' # "up" /\ ~alone'
<1>1. toGame \in Seq(C!Message) /\ cache \in Seq(C!Message) /\ tainted \subseteq Session
  BY DEF IInv, TypeOK, C!TypeOK
<1>2. (cache # <<>> => link = "none") /\ (toGame # <<>> => link = "up")
  BY DEF IInv, GateInv
<1>3. /\ alone' = FALSE /\ link' = (IF link = "up" THEN "broken" ELSE link)
      /\ tainted' = tainted \cup C!LogoutsOn(toGame)
      /\ toGame' = <<>>
      /\ UNCHANGED <<conn, count, cache, fromGame>>
  BY DEF C!GameDies
<1>4. Q = toGame \o cache /\ Q' = toGame' \o cache'
  BY DEF Q, C!Pending
<1>5. tainted' \subseteq Session
  BY <1>1, <1>3, MessageAt DEF C!LogoutsOn
<1>6. CASE link = "up"
  <2>1. cache = <<>>
    BY <1>2, <1>6
  <2>2. Q = toGame /\ Q' = <<>>
    BY <1>1, <1>3, <1>4, <2>1, ConcatEmptySeq
  <2>3. \A k \in DOMAIN Q : Q[k].body = Logout => Q[k].fd \in tainted'
    BY <1>3, <2>2 DEF C!LogoutsOn
  <2>4. Oldest(Q', conn') /\ Counted(Q', conn', count')
    BY <1>3, <2>2 DEF Oldest, Counted, IInv, GateInv
  <2>5. C!TypeOK'
    BY <1>1, <1>3, <1>5, <2>1, EmptySeq DEF IInv, TypeOK, C!TypeOK
  <2> QED
    BY <1>3, <1>6, <2>1, <2>2, <2>3, <2>4, <2>5
<1>7. CASE link # "up"
  <2>1. toGame' = toGame /\ Q' = Q
    BY <1>2, <1>3, <1>4, <1>7
  <2>2. Oldest(Q', conn') /\ Counted(Q', conn', count')
    BY <1>3, <2>1 DEF IInv, GateInv
  <2>3. C!TypeOK'
    BY <1>3, <1>5, <1>7, <2>1 DEF IInv, TypeOK, C!TypeOK
  <2> QED
    BY <1>2, <1>3, <1>7, <2>1, <2>2, <2>3
<1> QED
  BY <1>6, <1>7

LEMMA GoneKeeps ==
  ASSUME IInv, C!ServerGone
  PROVE  /\ C!TypeOK' /\ Q' = Q
         /\ Oldest(Q, conn)' /\ Counted(Q, conn, count)'
         /\ (cache # <<>> => link = "none")' /\ (toGame # <<>> => link = "up")'
<1>1. /\ link = "broken" /\ link' = "none" /\ fromGame' = <<>>
      /\ UNCHANGED <<conn, count, alone, cache, toGame, tainted>>
  BY DEF C!ServerGone
<1>2. Q' = Q
  BY <1>1 DEF Q, C!Pending
<1>3. fromGame' \in Seq(C!Notice)
  BY <1>1, EmptySeq
<1> QED
  BY <1>1, <1>2, <1>3 DEF IInv, TypeOK, C!TypeOK, GateInv

(* The game server reads its next message, and writes kicks.               *)
LEMMA ReadQueue ==
  ASSUME IInv, NEW kicks \in Seq(C!Notice), C!GameReads(kicks)
  PROVE  /\ C!TypeOK' /\ Q \in Seq(C!Message) /\ Q # <<>> /\ Q' = Tail(Q)
         /\ Head(toGame) = Q[1] /\ Q[1] \in C!Message
         /\ fromGame' = fromGame \o kicks
         /\ UNCHANGED <<conn, count, link, alone, tainted>>
         /\ Oldest(Q, conn)' /\ Counted(Q, conn, count)'
         /\ (cache # <<>> => link = "none")' /\ (toGame # <<>> => link = "up")'
<1>1. toGame \in Seq(C!Message) /\ cache \in Seq(C!Message) /\ fromGame \in Seq(C!Notice)
  BY DEF IInv, TypeOK, C!TypeOK
<1>2. /\ link = "up" /\ toGame # <<>> /\ toGame' = Tail(toGame) /\ fromGame' = fromGame \o kicks
      /\ UNCHANGED <<conn, count, link, alone, cache, tainted>>
  BY DEF C!GameReads
<1>3. cache = <<>>
  BY <1>2 DEF IInv, GateInv
<1>4. Head(toGame) = toGame[1] /\ Head(toGame) \in C!Message /\ Tail(toGame) \in Seq(C!Message)
  BY <1>1, <1>2, TailAt
<1>5. Q = toGame /\ Q' = Tail(toGame)
  BY <1>1, <1>2, <1>3, <1>4, ConcatEmptySeq DEF Q, C!Pending
<1>6. fromGame' \in Seq(C!Notice)
  BY <1>1, <1>2, ConcatProperties
<1>7. Oldest(Q', conn') /\ Counted(Q', conn', count')
  BY <1>1, <1>2, <1>5, OldestRead, CountedRead DEF IInv, GateInv
<1>8. C!TypeOK'
  BY <1>2, <1>4, <1>6 DEF IInv, TypeOK, C!TypeOK
<1> QED
  BY <1>1, <1>2, <1>3, <1>4, <1>5, <1>7, <1>8

LEMMA WriteQueue ==
  ASSUME IInv, NEW kicks \in Seq(C!Notice), C!GameWrites(kicks)
  PROVE  /\ C!TypeOK' /\ Q' = Q
         /\ fromGame' \in {fromGame, fromGame \o kicks}
         /\ UNCHANGED <<conn, count, link, alone, cache, toGame, tainted>>
<1>1. /\ fromGame' \in {fromGame, fromGame \o kicks}
      /\ UNCHANGED <<conn, count, link, alone, cache, toGame, tainted>>
  BY DEF C!GameWrites
<1>2. fromGame' \in Seq(C!Notice)
  <2>1. fromGame \in Seq(C!Notice)
    BY DEF IInv, TypeOK, C!TypeOK
  <2>2. fromGame \o kicks \in Seq(C!Notice)
    BY <2>1, ConcatProperties
  <2> QED
    BY <1>1, <2>1, <2>2
<1>3. Q' = Q
  BY <1>1 DEF Q, C!Pending
<1> QED
  BY <1>1, <1>2, <1>3 DEF IInv, TypeOK, C!TypeOK

(* The kicks of some roles: a notice for one of them, or none.             *)
LEMMA KicksAre ==
  ASSUME IInv, NEW E \in SUBSET used
  PROVE  /\ KicksOf(E) \in Seq(C!Notice)
         /\ \A i \in DOMAIN KicksOf(E) : \E r \in E : KicksOf(E)[i].conn = owner[r]
<1>1. CASE E = {}
  <2>1. KicksOf(E) = <<>> /\ Len(<<>>) = 0 /\ <<>> \in Seq(C!Notice)
    BY <1>1, EmptySeq DEF KicksOf
  <2> QED
    BY <2>1
<1>2. CASE E # {}
  <2> DEFINE r == CHOOSE q \in E : TRUE
             n == [fd |-> session[r], conn |-> owner[r]]
  <2>1. r \in E
    BY <1>2
  <2>2. KicksOf(E) = <<n>>
    BY <1>2 DEF KicksOf
  <2> HIDE DEF r
  <2>3. r \in used /\ r \in Slot
    BY <2>1 DEF IInv, TypeOK
  <2>4. owner[r] \in 1 .. MaxConn
    BY <2>3 DEF IInv, TypeOK, OwnedInv
  <2>5. session[r] \in Session
    BY <2>3 DEF IInv, TypeOK, OwnedInv
  <2>6. n \in C!Notice
    BY <2>4, <2>5 DEF C!Notice
  <2> QED
    BY <2>1, <2>2, <2>6
<1> QED
  BY <1>1, <1>2

-----------------------------------------------------------------------------
(* A way out stays one.                                                    *)
LEMMA OutSend ==
  ASSUME NEW q \in Seq(C!Message), NEW cn \in [Session -> 0 .. MaxConn], NEW tn, NEW fd \in Session, NEW c,
         NEW m \in C!Message, cn[m.fd] = m.conn, Out(q, cn, tn, fd, c)
  PROVE  /\ Out(Append(q, m), cn, tn, fd, c)
         /\ m.body = Logout => /\ Out(Append(q, m), [cn EXCEPT ![m.fd] = 0], tn, fd, c)
                               /\ Out(q, [cn EXCEPT ![m.fd] = 0], tn \cup {m.fd}, fd, c)
<1> DEFINE p == Append(q, m)
<1>1. /\ Len(q) + 1 \in DOMAIN p /\ p[Len(q) + 1] = m
      /\ \A k \in DOMAIN q : k \in DOMAIN p /\ p[k] = q[k]
  <2>1. /\ DOMAIN q = 1 .. Len(q) /\ Len(q) \in Nat
        /\ DOMAIN p = 1 .. Len(q) + 1
        /\ \A k \in DOMAIN q : p[k] = q[k]
        /\ p[Len(q) + 1] = m
    BY AppendAt
  <2> HIDE DEF p
  <2> QED
    BY <2>1
<1> HIDE DEF p
<1>2. [cn EXCEPT ![m.fd] = 0][fd] = IF fd = m.fd THEN 0 ELSE cn[fd]
  OBVIOUS
<1>3. Out(p, cn, tn, fd, c)
  BY <1>1 DEF Out
<1>4. ASSUME m.body = Logout
      PROVE  Out(p, [cn EXCEPT ![m.fd] = 0], tn, fd, c) /\ Out(q, [cn EXCEPT ![m.fd] = 0], tn \cup {m.fd}, fd, c)
  <2>1. CASE fd = m.fd /\ cn[fd] = c
    BY <1>1, <1>4, <2>1 DEF Out
  <2>2. CASE fd # m.fd \/ cn[fd] # c
    BY <1>1, <1>2, <2>2 DEF Out
  <2> QED
    BY <2>1, <2>2
<1> QED
  BY <1>3, <1>4 DEF p

LEMMA OutKick ==
  ASSUME NEW q, NEW cn \in [Session -> 0 .. MaxConn], NEW tn, NEW fd \in Session, NEW c, c # 0,
         NEW g \in Session, NEW n, n # c, Out(q, cn, tn, fd, c)
  PROVE  Out(q, [cn EXCEPT ![g] = 0], IF cn[g] \in {0, n} THEN tn ELSE tn \cup {g}, fd, c)
<1>1. [cn EXCEPT ![g] = 0][fd] = IF fd = g THEN 0 ELSE cn[fd]
  OBVIOUS
<1>2. CASE fd = g /\ cn[fd] = c
  BY <1>2 DEF Out
<1>3. CASE fd # g \/ cn[fd] # c
  BY <1>1, <1>3 DEF Out
<1> QED
  BY <1>2, <1>3

LEMMA OutRead ==
  ASSUME NEW q \in Seq(C!Message), q # <<>>, NEW cn, NEW tn, NEW fd, NEW c,
         q[1].fd = fd /\ q[1].conn = c => q[1].body # Logout,
         Out(q, cn, tn, fd, c)
  PROVE  Out(Tail(q), cn, tn, fd, c)
<1>1. \A k \in DOMAIN q : k = 1 \/ (k - 1 \in DOMAIN Tail(q) /\ Tail(q)[k - 1] = q[k])
  <2>1. /\ DOMAIN q = 1 .. Len(q) /\ Len(q) \in Nat
        /\ DOMAIN Tail(q) = 1 .. Len(q) - 1
        /\ \A k \in DOMAIN Tail(q) : Tail(q)[k] = q[k + 1]
    BY TailAt
  <2> SUFFICES ASSUME NEW k \in DOMAIN q, k # 1
               PROVE  k - 1 \in DOMAIN Tail(q) /\ Tail(q)[k - 1] = q[k]
    OBVIOUS
  <2>2. k - 1 \in DOMAIN Tail(q) /\ (k - 1) + 1 = k
    BY <2>1
  <2> QED
    BY <2>1, <2>2
<1> QED
  BY <1>1 DEF Out

LEMMA OutLost ==
  ASSUME NEW q, NEW cn, NEW tn, NEW tn2, tn \subseteq tn2, NEW fd, NEW c,
         \A k \in DOMAIN q : q[k].body = Logout => q[k].fd \in tn2, Out(q, cn, tn, fd, c)
  PROVE  Out(<<>>, cn, tn2, fd, c)
BY DEF Out

LEMMA OutNew ==
  ASSUME NEW q, NEW cn \in [Session -> 0 .. MaxConn], NEW tn, NEW fd \in Session, NEW c, c # 0,
         NEW g \in Session, cn[g] = 0, NEW n, Out(q, cn, tn, fd, c)
  PROVE  Out(q, [cn EXCEPT ![g] = n], tn, fd, c)
BY DEF Out

(* The same of seniority.                                                  *)
LEMMA SeniorSend ==
  ASSUME NEW q \in Seq(C!Message), NEW cn \in [Session -> 0 .. MaxConn], NEW fd \in Session, NEW c,
         NEW m \in C!Message, cn[m.fd] = m.conn, Senior(q, cn, fd, c)
  PROVE  Senior(Append(q, m), cn, fd, c)
<1>1. /\ \A k \in DOMAIN q : Append(q, m)[k] = q[k]
      /\ \A k \in DOMAIN Append(q, m) : k \in DOMAIN q \/ Append(q, m)[k] = m
  BY AppendAt
<1>2. m.conn # 0
  BY GameSystemAssumption DEF C!Message
<1> QED
  BY <1>1, <1>2 DEF Senior

LEMMA SeniorRead ==
  ASSUME NEW q \in Seq(C!Message), q # <<>>, NEW cn, NEW fd, NEW c, Senior(q, cn, fd, c)
  PROVE  Senior(Tail(q), cn, fd, c)
BY TailAt DEF Senior

LEMMA SeniorLess ==
  ASSUME NEW q, NEW cn \in [Session -> 0 .. MaxConn], NEW fd \in Session, NEW c, Senior(q, cn, fd, c), NEW g
  PROVE  Senior(q, [cn EXCEPT ![g] = 0], fd, c)
BY DEF Senior

LEMMA SeniorNew ==
  ASSUME NEW q, NEW cn \in [Session -> 0 .. MaxConn], NEW fd \in Session, NEW n \in Nat, NEW c \in 1 .. n,
         Senior(q, cn, fd, c), NEW g
  PROVE  Senior(q, [cn EXCEPT ![g] = n + 1], fd, c)
BY DEF Senior

(* The logins on their way, under the same steps.                          *)
LEMMA LoginsSend ==
  ASSUME NEW q \in Seq(C!Message), NEW cn \in [Session -> 0 .. MaxConn], NEW tn, NEW lg, NEW met,
         Logins(q, cn, tn, lg, met),
         NEW m \in C!Message, cn[m.fd] = m.conn, m.body \notin RoleId
  PROVE  /\ Logins(Append(q, m), cn, tn, lg, met)
         /\ m.body = Logout => /\ Logins(Append(q, m), [cn EXCEPT ![m.fd] = 0], tn, lg, met)
                               /\ Logins(q, [cn EXCEPT ![m.fd] = 0], tn \cup {m.fd}, lg, met)
<1>1. /\ \A k \in DOMAIN q : Append(q, m)[k] = q[k]
      /\ \A k \in DOMAIN Append(q, m) : k \in DOMAIN q \/ Append(q, m)[k] = m
  BY AppendAt
<1>2. \A k \in DOMAIN q : q[k].fd \in Session
  BY MessageAt
<1>3. \A k \in DOMAIN q : q[k].body \in RoleId =>
        /\ Out(Append(q, m), cn, tn, q[k].fd, q[k].conn)
        /\ m.body = Logout => /\ Out(Append(q, m), [cn EXCEPT ![m.fd] = 0], tn, q[k].fd, q[k].conn)
                              /\ Out(q, [cn EXCEPT ![m.fd] = 0], tn \cup {m.fd}, q[k].fd, q[k].conn)
  BY <1>2, OutSend DEF Logins
<1> QED
  BY <1>1, <1>3 DEF Logins

LEMMA LoginsNew ==
  ASSUME NEW q \in Seq(C!Message), NEW cn \in [Session -> 0 .. MaxConn], NEW tn, NEW lg, NEW met \in SUBSET lg,
         Logins(q, cn, tn, lg, met),
         NEW m \in C!Message, cn[m.fd] = m.conn, m.conn \notin lg
  PROVE  Logins(Append(q, m), cn, tn, lg \cup {m.conn}, met)
<1> DEFINE p == Append(q, m)
<1>1. /\ \A k \in DOMAIN q : p[k] = q[k]
      /\ \A k \in DOMAIN p : k \in DOMAIN q \/ (k = Len(q) + 1 /\ p[k] = m)
  BY AppendAt
<1>2. \A k \in DOMAIN q : q[k].fd \in Session
  BY MessageAt
<1>3. \A k \in DOMAIN q : q[k].body \in RoleId => Out(p, cn, tn, q[k].fd, q[k].conn)
  BY <1>2, OutSend DEF Logins
<1>4. Out(p, cn, tn, m.fd, m.conn)
  BY DEF Out
<1> HIDE DEF p
<1>5. \A j, k \in DOMAIN p :
        p[j].body \in RoleId /\ p[k].body \in RoleId /\ p[j].conn = p[k].conn => j = k
  BY <1>1 DEF Logins
<1>6. \A k \in DOMAIN p : p[k].body \in RoleId =>
        p[k].conn \in (lg \cup {m.conn}) \ met /\ Out(p, cn, tn, p[k].fd, p[k].conn)
  BY <1>1, <1>3, <1>4 DEF Logins
<1> QED
  BY <1>5, <1>6 DEF Logins, p

LEMMA LoginsKick ==
  ASSUME NEW q \in Seq(C!Message), NEW cn \in [Session -> 0 .. MaxConn], NEW tn, NEW lg, NEW met,
         Logins(q, cn, tn, lg, met), NEW g \in Session, NEW n \in met
  PROVE  Logins(q, [cn EXCEPT ![g] = 0], IF cn[g] \in {0, n} THEN tn ELSE tn \cup {g}, lg, met)
<1>1. \A k \in DOMAIN q : q[k].fd \in Session /\ q[k].conn # 0
  BY MessageAt
<1>2. \A k \in DOMAIN q : q[k].body \in RoleId =>
        Out(q, [cn EXCEPT ![g] = 0], IF cn[g] \in {0, n} THEN tn ELSE tn \cup {g}, q[k].fd, q[k].conn)
  BY <1>1, OutKick DEF Logins
<1> QED
  BY <1>2 DEF Logins

LEMMA LoginsRead ==
  ASSUME NEW q \in Seq(C!Message), q # <<>>, NEW cn, Oldest(q, cn), NEW tn, NEW lg, NEW met, NEW met2,
         Logins(q, cn, tn, lg, met),
         \A c \in met2 : c \in met \/ (q[1].body \in RoleId /\ c = q[1].conn)
  PROVE  Logins(Tail(q), cn, tn, lg, met2)
<1>1. /\ 1 \in DOMAIN q
      /\ \A k \in DOMAIN Tail(q) :
           k \in Nat /\ k + 1 \in DOMAIN q /\ 1 < k + 1 /\ Tail(q)[k] = q[k + 1]
  BY TailAt
<1>2. \A k \in DOMAIN q : q[k].conn \in Nat
  BY MessageAt
<1>3. \A k \in DOMAIN q : 1 < k /\ q[1].fd = q[k].fd /\ q[1].conn = q[k].conn => q[1].body # Logout
  BY <1>1, <1>2 DEF Oldest
<1>4. \A k \in DOMAIN q : 1 < k /\ q[k].body \in RoleId => Out(Tail(q), cn, tn, q[k].fd, q[k].conn)
  BY <1>3, OutRead DEF Logins
<1>5. \A k \in DOMAIN q : 1 < k /\ q[k].body \in RoleId => q[k].conn \in lg \ met2
  BY <1>1 DEF Logins
<1>6. \A j, k \in DOMAIN Tail(q) : j + 1 = k + 1 => j = k
  BY <1>1
<1> QED
  BY <1>1, <1>4, <1>5, <1>6 DEF Logins

LEMMA LoginsAccept ==
  ASSUME NEW q \in Seq(C!Message), NEW cn \in [Session -> 0 .. MaxConn], NEW tn, NEW lg, NEW met,
         Logins(q, cn, tn, lg, met), NEW g \in Session, cn[g] = 0, NEW n
  PROVE  Logins(q, [cn EXCEPT ![g] = n], tn, lg, met)
<1>1. \A k \in DOMAIN q : q[k].fd \in Session /\ q[k].conn # 0
  BY MessageAt
<1> QED
  BY <1>1, OutNew DEF Logins

LEMMA LoginsLess ==
  ASSUME NEW q, NEW cn, NEW tn, NEW lg, NEW met, NEW met2 \in SUBSET met, Logins(q, cn, tn, lg, met)
  PROVE  Logins(q, cn, tn, lg, met2)
BY DEF Logins

-----------------------------------------------------------------------------
(* The roles and the logins on their way under each step of the gateway.   *)
LEMMA TableKept ==
  ASSUME TableInv, UNCHANGED table, tainted \subseteq tainted'
  PROVE  TableInv'
BY DEF TableInv, table

(* What a role is: on a descriptor, and from a connection.                 *)
LEMMA RolesAre ==
  ASSUME IInv, NEW r \in used
  PROVE  r \in Slot /\ session[r] \in Session /\ owner[r] \in 1 .. count /\ owner[r] # 0 /\ count \in Nat
BY GameSystemAssumption DEF IInv, TypeOK, C!TypeOK, OwnedInv, GateInv

LEMMA MetKept ==
  ASSUME UNCHANGED <<used, owner, fromGame>>
  PROVE  Owners' = Owners /\ Kicked' = Kicked
BY DEF Owners, Kicked

LEMMA SendActs ==
  ASSUME IInv, ActInv, NEW m \in C!Message, conn[m.fd] = m.conn, C!Pass(m),
         \/ /\ m.body \in RoleId /\ m.conn \notin logins /\ logins' = logins \cup {m.conn}
            /\ conn' = conn
         \/ m.body = Play /\ logins' = logins /\ conn' = conn
         \/ m.body = Logout /\ logins' = logins /\ conn' = [conn EXCEPT ![m.fd] = 0],
         UNCHANGED <<table, owner, fromGame>>
  PROVE  ActInv'
<1>1. /\ Q \in Seq(C!Message) /\ conn \in [Session -> 0 .. MaxConn]
      /\ UNCHANGED <<used, session, roleId>>
  BY QueueType DEF IInv, TypeOK, C!TypeOK, table
<1>2. Sends(m)
  BY PassSends
<1>3. tainted \subseteq tainted'
  BY <1>2 DEF Sends
<1>4. TableInv'
  BY <1>3, TableKept DEF ActInv
<1>5. Owners' = Owners /\ Kicked' = Kicked
  BY <1>1, MetKept
<1>6. ASSUME NEW r \in used
      PROVE  Senior(Q', conn', session[r], owner[r]) /\ Out(Q', conn', tainted', session[r], owner[r])
  <2>1. session[r] \in Session
    BY RolesAre
  <2>2. Senior(Q, conn, session[r], owner[r]) /\ Out(Q, conn, tainted, session[r], owner[r])
    BY DEF ActInv, RoleInv
  <2>3. Senior(Append(Q, m), conn, session[r], owner[r])
    BY <1>1, <2>1, <2>2, SeniorSend
  <2>4. Senior(Q', conn', session[r], owner[r])
    <3>1. conn' = conn \/ conn' = [conn EXCEPT ![m.fd] = 0]
      OBVIOUS
    <3>2. Senior(Append(Q, m), [conn EXCEPT ![m.fd] = 0], session[r], owner[r])
      BY <1>1, <2>1, <2>3, SeniorLess
    <3>3. Senior(Q, [conn EXCEPT ![m.fd] = 0], session[r], owner[r])
      BY <1>1, <2>1, <2>2, SeniorLess
    <3> QED
      BY <1>2, <2>2, <2>3, <3>1, <3>2, <3>3 DEF Sends
  <2>5. /\ Out(Append(Q, m), conn, tainted, session[r], owner[r])
        /\ m.body = Logout => /\ Out(Append(Q, m), [conn EXCEPT ![m.fd] = 0], tainted, session[r], owner[r])
                              /\ Out(Q, [conn EXCEPT ![m.fd] = 0], tainted \cup {m.fd}, session[r], owner[r])
    BY <1>1, <2>1, <2>2, OutSend
  <2>6. m.body \in RoleId \cup {Play} => m.body # Logout
    BY GameSystemAssumption
  <2>7. Out(Q', conn', tainted', session[r], owner[r])
    BY <1>2, <2>2, <2>5, <2>6 DEF Sends
  <2> QED
    BY <2>4, <2>7
<1>7. RoleInv'
  BY <1>1, <1>6 DEF ActInv, RoleInv
<1>8. LoginInv'
  <2> DEFINE met == Owners \cup Kicked
  <2>1. Logins(Q, conn, tainted, logins, met)
    BY DEF ActInv, LoginInv
  <2>2. met \subseteq logins
    BY DEF ActInv, KickInv, IInv, OwnedInv, Owners
  <2> HIDE DEF met
  <2>3. CASE m.body \in RoleId /\ m.conn \notin logins /\ logins' = logins \cup {m.conn} /\ conn' = conn
    <3>1. m.body # Logout
      BY <2>3, GameSystemAssumption
    <3>2. Logins(Append(Q, m), conn, tainted, logins \cup {m.conn}, met)
      BY <1>1, <2>1, <2>2, <2>3, LoginsNew
    <3>3. Logins(Q, conn, tainted, logins \cup {m.conn}, met)
      BY <2>1 DEF Logins
    <3>4. Logins(Q', conn', tainted', logins', met)
      BY <1>2, <2>3, <3>1, <3>2, <3>3 DEF Sends
    <3> QED
      BY <1>5, <3>4 DEF LoginInv, met
  <2>4. CASE m.body = Play /\ logins' = logins /\ conn' = conn
    <3>1. m.body # Logout /\ m.body \notin RoleId
      BY <2>4, GameSystemAssumption
    <3>2. Logins(Append(Q, m), conn, tainted, logins, met)
      BY <1>1, <2>1, <3>1, LoginsSend
    <3>3. Logins(Q', conn', tainted', logins', met)
      BY <1>2, <2>1, <2>4, <3>1, <3>2 DEF Sends
    <3> QED
      BY <1>5, <3>3 DEF LoginInv, met
  <2>5. CASE m.body = Logout /\ logins' = logins /\ conn' = [conn EXCEPT ![m.fd] = 0]
    <3>1. m.body \notin RoleId
      BY <2>5, GameSystemAssumption
    <3>2. /\ Logins(Append(Q, m), [conn EXCEPT ![m.fd] = 0], tainted, logins, met)
          /\ Logins(Q, [conn EXCEPT ![m.fd] = 0], tainted \cup {m.fd}, logins, met)
      BY <1>1, <2>1, <2>5, <3>1, LoginsSend
    <3>3. Logins(Q', conn', tainted', logins', met)
      BY <1>2, <2>5, <3>2 DEF Sends
    <3> QED
      BY <1>5, <3>3 DEF LoginInv, met
  <2> QED
    BY <2>3, <2>4, <2>5
<1>9. KickInv'
  BY <1>5 DEF ActInv, KickInv
<1> QED
  BY <1>4, <1>7, <1>8, <1>9 DEF ActInv

LEMMA AcceptActs ==
  ASSUME IInv, ActInv, NEW fd \in Session, C!Accept(fd), UNCHANGED <<table, owner, logins>>
  PROVE  ActInv'
<1>1. /\ Q \in Seq(C!Message) /\ conn \in [Session -> 0 .. MaxConn]
      /\ UNCHANGED <<used, session, roleId>>
  BY QueueType DEF IInv, TypeOK, C!TypeOK, table
<1>2. /\ conn[fd] = 0 /\ conn' = [conn EXCEPT ![fd] = count + 1]
      /\ UNCHANGED <<cache, toGame, fromGame, tainted>>
  BY DEF C!Accept
<1>3. Q' = Q /\ Owners' = Owners /\ Kicked' = Kicked
  BY <1>1, <1>2, MetKept DEF Q, C!Pending
<1>4. TableInv'
  BY <1>2, TableKept DEF ActInv
<1>5. ASSUME NEW r \in used
      PROVE  Senior(Q', conn', session[r], owner[r]) /\ Out(Q', conn', tainted', session[r], owner[r])
  <2>1. session[r] \in Session /\ owner[r] \in 1 .. count /\ owner[r] # 0 /\ count \in Nat
    BY RolesAre
  <2>2. Senior(Q, conn, session[r], owner[r]) /\ Out(Q, conn, tainted, session[r], owner[r])
    BY DEF ActInv, RoleInv
  <2>3. Senior(Q, conn', session[r], owner[r])
    BY <1>1, <1>2, <2>1, <2>2, SeniorNew
  <2>4. Out(Q, conn', tainted, session[r], owner[r])
    BY <1>1, <1>2, <2>1, <2>2, OutNew
  <2> QED
    BY <1>2, <1>3, <2>3, <2>4
<1>6. RoleInv'
  BY <1>1, <1>5 DEF ActInv, RoleInv
<1>7. LoginInv'
  <2>1. Logins(Q, conn', tainted, logins, Owners \cup Kicked)
    BY <1>1, <1>2, LoginsAccept DEF ActInv, LoginInv
  <2> QED
    BY <1>2, <1>3, <2>1 DEF LoginInv
<1>8. KickInv'
  BY <1>3 DEF ActInv, KickInv
<1> QED
  BY <1>4, <1>6, <1>7, <1>8 DEF ActInv

LEMMA KickActs ==
  ASSUME IInv, ActInv, C!KickRead, UNCHANGED <<table, owner, logins>>
  PROVE  ActInv'
<1>1. /\ Q \in Seq(C!Message) /\ conn \in [Session -> 0 .. MaxConn]
      /\ fromGame \in Seq(C!Notice) /\ fromGame # <<>>
      /\ UNCHANGED <<used, session, roleId, owner, logins>>
  BY QueueType DEF IInv, TypeOK, C!TypeOK, table, C!KickRead
<1> DEFINE n == Head(fromGame)
<1>2. /\ n = fromGame[1] /\ 1 \in DOMAIN fromGame /\ n \in C!Notice
      /\ \A k \in DOMAIN Tail(fromGame) : k + 1 \in DOMAIN fromGame /\ Tail(fromGame)[k] = fromGame[k + 1]
  BY <1>1, TailAt
<1>3. /\ conn' = [conn EXCEPT ![n.fd] = 0]
      /\ tainted' = IF conn[n.fd] \in {0, n.conn} THEN tainted ELSE tainted \cup {n.fd}
      /\ fromGame' = Tail(fromGame)
      /\ UNCHANGED <<cache, toGame>>
  BY DEF C!KickRead
<1> HIDE DEF n
<1>4. n.fd \in Session /\ n.conn \in Kicked /\ Kicked' \subseteq Kicked
  BY <1>2, <1>3 DEF C!Notice, Kicked
<1>5. Q' = Q /\ Owners' = Owners
  BY <1>1, <1>3 DEF Q, C!Pending, Owners
<1>6. TableInv'
  BY <1>3, TableKept DEF ActInv
<1>7. ASSUME NEW r \in used
      PROVE  Senior(Q', conn', session[r], owner[r]) /\ Out(Q', conn', tainted', session[r], owner[r])
  <2>1. session[r] \in Session /\ owner[r] # 0
    BY RolesAre
  <2>2. Senior(Q, conn, session[r], owner[r]) /\ Out(Q, conn, tainted, session[r], owner[r])
    BY DEF ActInv, RoleInv
  <2>3. owner[r] # n.conn
    BY <1>4 DEF ActInv, KickInv, Owners
  <2>4. Senior(Q, conn', session[r], owner[r])
    BY <1>1, <1>3, <2>1, <2>2, SeniorLess
  <2>5. Out(Q, conn', tainted', session[r], owner[r])
    BY <1>1, <1>3, <1>4, <2>1, <2>2, <2>3, OutKick
  <2> QED
    BY <1>5, <2>4, <2>5
<1>8. RoleInv'
  BY <1>1, <1>7 DEF ActInv, RoleInv
<1>9. LoginInv'
  <2>1. Logins(Q, conn', tainted', logins, Owners \cup Kicked)
    BY <1>1, <1>3, <1>4, LoginsKick DEF ActInv, LoginInv
  <2>2. Logins(Q, conn', tainted', logins, Owners' \cup Kicked')
    BY <1>4, <1>5, <2>1, LoginsLess
  <2> QED
    BY <1>1, <1>5, <2>2 DEF LoginInv
<1>10. KickInv'
  BY <1>1, <1>4, <1>5 DEF ActInv, KickInv
<1> QED
  BY <1>6, <1>8, <1>9, <1>10 DEF ActInv

LEMMA GoneActs ==
  ASSUME IInv, ActInv, C!ServerGone, UNCHANGED <<table, owner, logins>>
  PROVE  ActInv'
<1>1. /\ fromGame' = <<>> /\ UNCHANGED <<conn, cache, toGame, tainted, used, session, roleId, owner, logins>>
  BY DEF C!ServerGone, table
<1>2. Q' = Q /\ Owners' = Owners /\ Kicked' = {}
  BY <1>1 DEF Q, C!Pending, Owners, Kicked
<1>3. TableInv'
  BY <1>1, TableKept DEF ActInv
<1>4. RoleInv'
  BY <1>1, <1>2 DEF ActInv, RoleInv
<1>5. LoginInv'
  BY <1>1, <1>2 DEF ActInv, LoginInv, Logins
<1>6. KickInv'
  BY <1>2 DEF KickInv
<1> QED
  BY <1>3, <1>4, <1>5, <1>6 DEF ActInv

(* A death takes what was in the socket, and the indexes.                  *)
LEMMA DiesActs ==
  ASSUME IInv, ActInv, C!GameDies, Forget, UNCHANGED <<owner, logins>>
  PROVE  ActInv'
<1>1. /\ proc' = "down" /\ idIdx' = {} /\ fdIdx' = {}
      /\ UNCHANGED <<used, roleId, session, owner, logins, conn, fromGame>>
  BY DEF Forget, C!GameDies
<1>2. /\ Q' = Q \/ Q' = <<>>
      /\ tainted \subseteq tainted'
      /\ \A k \in DOMAIN Q : Q' # Q /\ Q[k].body = Logout => Q[k].fd \in tainted'
  BY DiesQueue
<1>3. Owners' = Owners /\ Kicked' = Kicked
  BY <1>1, MetKept
<1>4. TableInv'
  BY <1>1, <1>2 DEF ActInv, TableInv
<1>5. ASSUME NEW fd, NEW c, Out(Q, conn, tainted, fd, c)
      PROVE  Out(Q', conn', tainted', fd, c)
  <2>1. CASE Q' = Q
    BY <1>1, <1>2, <1>5, <2>1 DEF Out
  <2>2. CASE Q' # Q
    <3>1. Q' = <<>> /\ \A k \in DOMAIN Q : Q[k].body = Logout => Q[k].fd \in tainted'
      BY <1>2, <2>2
    <3>2. Out(<<>>, conn, tainted', fd, c)
      BY <1>2, <1>5, <3>1, OutLost
    <3> QED
      BY <1>1, <3>1, <3>2
  <2> QED
    BY <2>1, <2>2
<1>6. RoleInv'
  <2>1. \A r \in used : /\ Senior(Q, conn, session[r], owner[r])
                        /\ Out(Q, conn, tainted, session[r], owner[r])
    BY DEF ActInv, RoleInv
  <2>2. \A r \in used : Out(Q', conn', tainted', session[r], owner[r])
    BY <1>5, <2>1
  <2>3. \A r \in used : Senior(Q', conn', session[r], owner[r])
    BY <1>1, <1>2, <2>1 DEF Senior
  <2> QED
    BY <1>1, <2>2, <2>3 DEF ActInv, RoleInv
<1>7. LoginInv'
  <2>1. Logins(Q, conn, tainted, logins, Owners \cup Kicked)
    BY DEF ActInv, LoginInv
  <2>2. Logins(Q', conn', tainted', logins, Owners \cup Kicked)
    <3>1. CASE Q' = Q
      BY <1>5, <2>1, <3>1 DEF Logins
    <3>2. CASE Q' = <<>>
      BY <3>2 DEF Logins
    <3> QED
      BY <1>2, <3>1, <3>2
  <2> QED
    BY <1>1, <1>3, <2>2 DEF LoginInv
<1>8. KickInv'
  BY <1>1, <1>3 DEF ActInv, KickInv
<1> QED
  BY <1>4, <1>6, <1>7, <1>8 DEF ActInv

(* A start links what the death left: every role is found by its account,  *)
(* and by its session where no other role is left behind on that one.      *)
LEMMA RelinkKeeps ==
  ASSUME TypeOK, TableInv, Relink, tainted' = tainted
  PROVE  TableInv'
<1>1. PICK ids \in SUBSET used, fds \in SUBSET used :
        /\ OneForEachKey(ids, used, roleId)
        /\ fds \subseteq ids
        /\ OneForEachKey(fds, ids, session)
        /\ idIdx' = ids
        /\ fdIdx' = fds
  BY DEF Relink
<1>2. proc' = "up" /\ UNCHANGED <<used, roleId, session>>
  BY DEF Relink
<1>3. ids = used
  <2> SUFFICES ASSUME NEW r \in used
               PROVE  r \in ids
    OBVIOUS
  <2>1. PICK q \in ids : roleId[q] = roleId[r]
    BY <1>1 DEF OneForEachKey
  <2> QED
    BY <2>1 DEF TableInv
<1>4. \A r \in used : r \in fds \/ session[r] \in tainted
  <2> SUFFICES ASSUME NEW r \in used
               PROVE  r \in fds \/ session[r] \in tainted
    OBVIOUS
  <2>1. PICK q \in fds : session[q] = session[r]
    BY <1>1, <1>3 DEF OneForEachKey
  <2> QED
    BY <2>1 DEF TableInv
<1> QED
  BY <1>1, <1>2, <1>3, <1>4 DEF TableInv

LEMMA StartsActs ==
  ASSUME IInv, ActInv, C!GameConnects, Relink, UNCHANGED <<owner, logins>>
  PROVE  ActInv'
<1>1. /\ Q' = Q /\ tainted' = tainted
      /\ UNCHANGED <<used, session, owner, logins, conn, fromGame>>
  BY ConnectsQueue DEF C!GameConnects, Relink
<1>2. Owners' = Owners /\ Kicked' = Kicked
  BY <1>1, MetKept
<1>3. TableInv'
  BY <1>1, RelinkKeeps DEF IInv, ActInv
<1>4. RoleInv' /\ LoginInv' /\ KickInv'
  BY <1>1, <1>2 DEF ActInv, RoleInv, LoginInv, KickInv
<1> QED
  BY <1>3, <1>4 DEF ActInv

-----------------------------------------------------------------------------
(* The game server's own steps.                                            *)

(* The notices on their way are from roles that were kicked.               *)
LEMMA KickedAre ==
  ASSUME IInv, NEW E \in SUBSET used, fromGame' \in {fromGame, fromGame \o KicksOf(E)}
  PROVE  \A c \in Kicked' : c \in Kicked \/ \E r \in E : c = owner[r]
<1>1. /\ KicksOf(E) \in Seq(C!Notice) /\ fromGame \in Seq(C!Notice)
      /\ \A i \in DOMAIN KicksOf(E) : \E r \in E : KicksOf(E)[i].conn = owner[r]
  BY KicksAre DEF IInv, TypeOK, C!TypeOK
<1>2. ASSUME NEW ks \in Seq(C!Notice), NEW i \in DOMAIN (fromGame \o ks)
      PROVE  \/ i \in DOMAIN fromGame /\ (fromGame \o ks)[i] = fromGame[i]
             \/ i - Len(fromGame) \in DOMAIN ks /\ (fromGame \o ks)[i] = ks[i - Len(fromGame)]
  <2>1. /\ Len(fromGame \o ks) = Len(fromGame) + Len(ks)
        /\ fromGame \o ks \in Seq(C!Notice)
        /\ \A j \in 1 .. Len(fromGame) + Len(ks) :
             (fromGame \o ks)[j] = IF j <= Len(fromGame) THEN fromGame[j] ELSE ks[j - Len(fromGame)]
    BY <1>1, ConcatProperties
  <2>2. /\ Len(fromGame) \in Nat /\ DOMAIN fromGame = 1 .. Len(fromGame)
        /\ Len(ks) \in Nat /\ DOMAIN ks = 1 .. Len(ks)
        /\ DOMAIN (fromGame \o ks) = 1 .. Len(fromGame \o ks)
    BY <1>1, <2>1, LenProperties
  <2>3. i \in 1 .. Len(fromGame) + Len(ks)
    BY <2>1, <2>2
  <2>4. i \in 1 .. Len(fromGame) \/ (~ i <= Len(fromGame) /\ i - Len(fromGame) \in 1 .. Len(ks))
    BY <2>2, <2>3
  <2> QED
    BY <2>1, <2>2, <2>3, <2>4
<1>3. CASE fromGame' = fromGame
  BY <1>3 DEF Kicked
<1>4. CASE fromGame' = fromGame \o KicksOf(E)
  <2>1. \A i \in DOMAIN fromGame' : \/ i \in DOMAIN fromGame /\ fromGame'[i] = fromGame[i]
                                    \/ \E r \in E : fromGame'[i].conn = owner[r]
    BY <1>1, <1>2, <1>4
  <2> QED
    BY <2>1 DEF Kicked
<1> QED
  BY <1>3, <1>4

(* Roles that leave the table.                                             *)
LEMMA DelistKeeps ==
  ASSUME TableInv, NEW E, Delist(E), tainted' = tainted
  PROVE  TableInv'
<1>1. /\ used' = used \ E /\ idIdx' = idIdx \ E /\ fdIdx' = fdIdx \ E
      /\ UNCHANGED <<proc, roleId, session>>
  BY DEF Delist
<1> QED
  BY <1>1 DEF TableInv

LEMMA FewerRoles ==
  ASSUME ActInv, NEW E \in SUBSET used, used' = used \ E, owner' = owner
  PROVE  /\ Owners' \subseteq Owners
         /\ \A r \in E : owner[r] \notin Owners'
BY DEF ActInv, RoleInv, Owners

LEMMA LogOutActs ==
  ASSUME IInv, ActInv, LogOut
  PROVE  ActInv'
<1> DEFINE m == Head(toGame)
           E == BySession(m.fd)
<1>1. /\ m.body = Logout /\ Delist(E) /\ C!GameReads(<<>>) /\ UNCHANGED <<owner, logins>> /\ proc = "up"
  BY DEF LogOut
<1>2. E = {r \in fdIdx : session[r] = m.fd}
  BY DEF BySession
<1>3. <<>> \in Seq(C!Notice)
  BY EmptySeq
<1>4. /\ Q \in Seq(C!Message) /\ Q # <<>> /\ Q' = Tail(Q)
      /\ m = Q[1] /\ fromGame' = fromGame \o <<>>
      /\ UNCHANGED <<conn, tainted>>
  BY <1>1, <1>3, ReadQueue
<1>5. fromGame' = fromGame
  BY <1>4, ConcatEmptySeq DEF IInv, TypeOK, C!TypeOK
<1> HIDE DEF m, E
<1>6. /\ used' = used \ E /\ UNCHANGED <<session, roleId>>
  BY <1>1 DEF Delist
<1>7. E \in SUBSET used
  BY <1>2 DEF IInv, TypeOK, ActInv, TableInv
<1>8. TableInv'
  BY <1>1, <1>4, DelistKeeps DEF ActInv
<1>9. Owners' \subseteq Owners /\ Kicked' = Kicked
  BY <1>1, <1>5, <1>6, <1>7, FewerRoles DEF Kicked
<1>10. ASSUME NEW r \in used, r \notin E
       PROVE  Senior(Tail(Q), conn, session[r], owner[r]) /\ Out(Tail(Q), conn, tainted, session[r], owner[r])
  <2>1. Senior(Q, conn, session[r], owner[r]) /\ Out(Q, conn, tainted, session[r], owner[r])
    BY DEF ActInv, RoleInv
  <2>2. Senior(Tail(Q), conn, session[r], owner[r])
    BY <1>4, <2>1, SeniorRead
  <2>3. CASE session[r] \in tainted
    BY <2>2, <2>3 DEF Out
  <2>4. CASE session[r] \notin tainted
    <3>1. Q[1].fd # session[r]
      BY <1>1, <1>2, <1>4, <1>10, <2>4 DEF ActInv, TableInv
    <3>2. Out(Tail(Q), conn, tainted, session[r], owner[r])
      BY <1>4, <2>1, <3>1, OutRead
    <3> QED
      BY <2>2, <3>2
  <2> QED
    BY <2>3, <2>4
<1>11. RoleInv'
  BY <1>1, <1>4, <1>6, <1>10 DEF ActInv, RoleInv
<1>12. LoginInv'
  <2>1. Logins(Q, conn, tainted, logins, Owners \cup Kicked) /\ Oldest(Q, conn)
    BY DEF ActInv, LoginInv, IInv, GateInv
  <2>2. \A c \in Owners' \cup Kicked' : c \in Owners \cup Kicked
    BY <1>9
  <2>3. Logins(Tail(Q), conn, tainted, logins, Owners' \cup Kicked')
    BY <1>4, <2>1, <2>2, LoginsRead
  <2> QED
    BY <1>1, <1>4, <2>3 DEF LoginInv
<1>13. KickInv'
  BY <1>1, <1>9 DEF ActInv, KickInv
<1> QED
  BY <1>8, <1>11, <1>12, <1>13 DEF ActInv

LEMMA HandleActs ==
  ASSUME IInv, ActInv, Handle
  PROVE  ActInv'
<1>1. /\ Head(toGame).body = Play /\ C!GameReads(<<>>) /\ UNCHANGED <<table, owner, logins>>
  BY DEF Handle
<1>2. <<>> \in Seq(C!Notice)
  BY EmptySeq
<1>3. /\ Q \in Seq(C!Message) /\ Q # <<>> /\ Q' = Tail(Q)
      /\ Q[1].body = Play /\ fromGame' = fromGame \o <<>>
      /\ UNCHANGED <<conn, tainted>>
  BY <1>1, <1>2, ReadQueue
<1>4. fromGame' = fromGame
  BY <1>3, ConcatEmptySeq DEF IInv, TypeOK, C!TypeOK
<1>5. UNCHANGED <<used, session, roleId>>
  BY <1>1 DEF table
<1>6. Owners' = Owners /\ Kicked' = Kicked
  BY <1>1, <1>4, <1>5, MetKept
<1>7. TableInv'
  BY <1>1, <1>3, TableKept DEF ActInv
<1>8. ASSUME NEW r \in used
      PROVE  Senior(Tail(Q), conn, session[r], owner[r]) /\ Out(Tail(Q), conn, tainted, session[r], owner[r])
  <2>1. Senior(Q, conn, session[r], owner[r]) /\ Out(Q, conn, tainted, session[r], owner[r])
    BY DEF ActInv, RoleInv
  <2>2. Q[1].body # Logout
    BY <1>3, GameSystemAssumption
  <2> QED
    BY <1>3, <2>1, <2>2, SeniorRead, OutRead
<1>9. RoleInv'
  BY <1>1, <1>3, <1>5, <1>8 DEF ActInv, RoleInv
<1>10. LoginInv'
  <2>1. Logins(Q, conn, tainted, logins, Owners \cup Kicked) /\ Oldest(Q, conn)
    BY DEF ActInv, LoginInv, IInv, GateInv
  <2>2. Logins(Tail(Q), conn, tainted, logins, Owners \cup Kicked)
    BY <1>3, <2>1, LoginsRead
  <2> QED
    BY <1>1, <1>3, <1>6, <2>2 DEF LoginInv
<1>11. KickInv'
  BY <1>1, <1>6 DEF ActInv, KickInv
<1> QED
  BY <1>7, <1>9, <1>10, <1>11 DEF ActInv

LEMMA FailsActs ==
  ASSUME IInv, ActInv, NEW r \in Slot, LoadFails(r)
  PROVE  ActInv'
<1>1. /\ r \in idIdx /\ C!GameWrites(KicksOf({r})) /\ Delist({r}) /\ UNCHANGED <<owner, logins>>
  BY DEF LoadFails
<1>2. {r} \in SUBSET used
  BY <1>1 DEF ActInv, TableInv
<1>3. KicksOf({r}) \in Seq(C!Notice)
  BY <1>2, KicksAre
<1>4. /\ Q' = Q /\ UNCHANGED <<conn, tainted>>
      /\ fromGame' \in {fromGame, fromGame \o KicksOf({r})}
  BY <1>1, <1>3, WriteQueue
<1>5. used' = used \ {r} /\ UNCHANGED <<session, roleId>>
  BY <1>1 DEF Delist
<1>6. \A c \in Kicked' : c \in Kicked \/ c = owner[r]
  BY <1>2, <1>4, KickedAre
<1>7. Owners' \subseteq Owners /\ owner[r] \notin Owners'
  BY <1>1, <1>2, <1>5, FewerRoles
<1>8. owner[r] \in Owners /\ owner[r] \in logins
  BY <1>2 DEF Owners, IInv, OwnedInv
<1>9. TableInv'
  BY <1>1, <1>4, DelistKeeps DEF ActInv
<1>10. RoleInv'
  BY <1>1, <1>4, <1>5 DEF ActInv, RoleInv
<1>11. LoginInv'
  <2>1. Owners' \cup Kicked' \in SUBSET (Owners \cup Kicked)
    BY <1>6, <1>7, <1>8
  <2>2. Logins(Q, conn, tainted, logins, Owners' \cup Kicked')
    BY <2>1, LoginsLess DEF ActInv, LoginInv
  <2> QED
    BY <1>1, <1>4, <2>2 DEF LoginInv
<1>12. KickInv'
  BY <1>1, <1>6, <1>7, <1>8 DEF ActInv, KickInv
<1> QED
  BY <1>9, <1>10, <1>11, <1>12 DEF ActInv

(* What a login at the head of the queue meets: no role of its connection, *)
(* and on its descriptor only roles that were left behind there.           *)
LEMMA LoginMeets ==
  ASSUME IInv, ActInv, Q # <<>>, Q[1].body \in RoleId
  PROVE  /\ Q[1].conn \in logins /\ Q[1].conn \notin Owners /\ Q[1].conn \notin Kicked
         /\ Senior(Q, conn, Q[1].fd, Q[1].conn)
         /\ Out(Q, conn, tainted, Q[1].fd, Q[1].conn)
         /\ \A r \in used : session[r] = Q[1].fd => Q[1].fd \in tainted
<1>1. Q \in Seq(C!Message)
  BY QueueType DEF IInv
<1>2. 1 \in DOMAIN Q /\ \A k \in DOMAIN Q : k = 1 \/ 1 < k
  <2>1. 1 \in DOMAIN Q /\ DOMAIN Q = 1 .. Len(Q) /\ Len(Q) \in Nat
    BY <1>1, TailAt
  <2> QED
    BY <2>1
<1>3. \A k \in DOMAIN Q : Q[k].conn \in Nat \ {0} /\ Q[k].fd \in Session
  BY <1>1, MessageAt
<1>4. conn \in [Session -> Nat]
  BY GameSystemAssumption DEF IInv, TypeOK, C!TypeOK
<1>5. Oldest(Q, conn)
  BY DEF IInv, GateInv
<1>6. /\ Q[1].conn \in logins /\ Q[1].conn \notin Owners /\ Q[1].conn \notin Kicked
      /\ Out(Q, conn, tainted, Q[1].fd, Q[1].conn)
  BY <1>2 DEF ActInv, LoginInv, Logins
<1>7. conn[Q[1].fd] # 0 => Q[1].conn <= conn[Q[1].fd]
  BY <1>2, <1>3, <1>4, <1>5 DEF Oldest
<1>8. \A k \in DOMAIN Q : Q[k].fd = Q[1].fd => Q[1].conn <= Q[k].conn
  BY <1>2, <1>3, <1>5 DEF Oldest
<1>9. Senior(Q, conn, Q[1].fd, Q[1].conn)
  BY <1>7, <1>8 DEF Senior
<1>10. ASSUME NEW r \in used, session[r] = Q[1].fd
       PROVE  Q[1].fd \in tainted
  <2>1. owner[r] \in Nat /\ owner[r] # 0
    BY RolesAre
  <2>2. Senior(Q, conn, Q[1].fd, owner[r]) /\ Out(Q, conn, tainted, Q[1].fd, owner[r])
    BY <1>10 DEF ActInv, RoleInv
  <2>3. owner[r] # Q[1].conn
    BY <1>6 DEF Owners
  <2>4. owner[r] <= Q[1].conn
    BY <1>2, <2>2 DEF Senior
  <2>5. owner[r] < Q[1].conn
    BY <1>2, <1>3, <2>1, <2>3, <2>4
  <2>6. conn[Q[1].fd] # owner[r]
    BY <1>2, <1>3, <1>4, <1>7, <2>1, <2>5
  <2>7. \A k \in DOMAIN Q : ~ (Q[k].fd = Q[1].fd /\ Q[k].conn = owner[r])
    BY <1>2, <1>3, <1>8, <2>1, <2>5
  <2> QED
    BY <2>2, <2>6, <2>7 DEF Out
<1> QED
  BY <1>6, <1>9, <1>10

(* The table after a login: the new role takes the place of the one of its *)
(* account, and is found by its account.                                   *)
LEMMA EnlistKeeps ==
  ASSUME TypeOK, TableInv, proc = "up", NEW id \in RoleId, NEW fd \in Session,
         NEW r \in Slot \ (used \ ById(id)), Enlist(ById(id), r, fd, id), tainted' = tainted,
         \A q \in used : session[q] = fd => fd \in tainted
  PROVE  TableInv'
<1> DEFINE E == ById(id)
<1>1. E = {q \in used : roleId[q] = id}
  BY DEF ById, TableInv
<1>2. /\ used' = (used \ E) \cup {r}
      /\ idIdx' = LinkId(used \ E, r, id)
      /\ fdIdx' = LinkFd(used \ E, fdIdx \ E, r, id, fd)
      /\ roleId' = [roleId EXCEPT ![r] = id]
      /\ session' = [session EXCEPT ![r] = fd]
      /\ proc' = "up"
  BY DEF Enlist, TableInv
<1>3. r \in Slot /\ r \notin used \ E /\ used \subseteq Slot
  BY DEF TypeOK
<1> HIDE DEF E
<1>4. /\ roleId'[r] = id /\ session'[r] = fd
      /\ \A q \in used \ E : roleId'[q] = roleId[q] /\ session'[q] = session[q] /\ q # r
  BY <1>2, <1>3 DEF TypeOK
<1>5. \A q \in used \ E : roleId[q] # id
  BY <1>1
<1>6. idIdx' = used'
  BY <1>2, <1>5 DEF LinkId
<1>7. /\ fdIdx \ E \subseteq fdIdx' /\ fdIdx' \subseteq (fdIdx \ E) \cup {r}
      /\ r \in fdIdx' \/ \E q \in fdIdx \ E : session[q] = fd
  BY <1>2, <1>5 DEF LinkFd
<1>8. fdIdx \subseteq used
  BY DEF TableInv
<1>9. fdIdx' \subseteq idIdx'
  BY <1>2, <1>6, <1>7, <1>8
<1>10. \A p, q \in used' : roleId'[p] = roleId'[q] => p = q
  BY <1>2, <1>4, <1>5 DEF TableInv
<1>11. \A p, q \in used' : session'[p] = session'[q] /\ p # q => session'[p] \in tainted
  BY <1>2, <1>4 DEF TableInv
<1>12. \A q \in used' : q \in fdIdx' \/ session'[q] \in tainted
  BY <1>2, <1>4, <1>7, <1>8 DEF TableInv
<1>13. proc' = "up" /\ tainted' = tainted
  BY <1>2
<1>14. idIdx' = IF proc' = "up" THEN used' ELSE {}
  BY <1>6, <1>13
<1> QED
  BY ONLY <1>9, <1>10, <1>11, <1>12, <1>13, <1>14 DEF TableInv

LEMMA LoginActs ==
  ASSUME IInv, ActInv, Login
  PROVE  ActInv' /\ OwnedInv'
<1> DEFINE m == Head(toGame)
           E == ById(m.body)
<1>1. /\ m.body \in RoleId /\ C!GameReads(KicksOf(E)) /\ logins' = logins /\ proc = "up"
      /\ \E r \in Slot \ (used \ E) : /\ Enlist(E, r, m.fd, m.body)
                                      /\ owner' = [owner EXCEPT ![r] = m.conn]
  BY DEF Login
<1>2. E \in SUBSET used
  BY DEF ActInv, TableInv, ById
<1>3. KicksOf(E) \in Seq(C!Notice)
  BY <1>2, KicksAre
<1>4. /\ Q \in Seq(C!Message) /\ Q # <<>> /\ Q' = Tail(Q)
      /\ m = Q[1] /\ m \in C!Message /\ fromGame' = fromGame \o KicksOf(E)
      /\ UNCHANGED <<conn, tainted>>
  BY <1>1, <1>3, ReadQueue
<1>5. PICK r \in Slot \ (used \ E) : /\ Enlist(E, r, m.fd, m.body)
                                     /\ owner' = [owner EXCEPT ![r] = m.conn]
  BY <1>1
<1>6. m.fd \in Session
  BY <1>4 DEF C!Message
<1>7. /\ m.conn \in logins /\ m.conn \notin Owners /\ m.conn \notin Kicked
      /\ Senior(Q, conn, m.fd, m.conn)
      /\ Out(Q, conn, tainted, m.fd, m.conn)
      /\ \A q \in used : session[q] = m.fd => m.fd \in tainted
  BY <1>1, <1>4, LoginMeets
<1>8. TableInv'
  BY <1>1, <1>4, <1>5, <1>6, <1>7, EnlistKeeps DEF IInv, ActInv
<1> HIDE DEF m, E
<1>9. /\ used' = (used \ E) \cup {r} /\ session' = [session EXCEPT ![r] = m.fd]
      /\ r \in Slot /\ r \notin used \ E /\ used \subseteq Slot
      /\ session \in [Slot -> Session \cup {None}] /\ owner \in [Slot -> 0 .. MaxConn]
  BY <1>5 DEF Enlist, IInv, TypeOK
<1>10. /\ session'[r] = m.fd /\ owner'[r] = m.conn
       /\ \A q \in used \ E : session'[q] = session[q] /\ owner'[q] = owner[q] /\ q # r
  BY <1>5, <1>9
<1>11. Owners' = {owner[q] : q \in used \ E} \cup {m.conn}
  BY <1>9, <1>10 DEF Owners
<1>12. \A c \in Kicked' : c \in Kicked \/ \E q \in E : c = owner[q]
  BY <1>2, <1>4, KickedAre
<1>13. \A p, q \in used : owner[p] = owner[q] => p = q
  BY DEF ActInv, RoleInv
<1>14. \A q \in used : owner[q] \in Owners /\ owner[q] \in logins /\ session[q] \in Session
  BY DEF Owners, IInv, OwnedInv
<1>15. Q[1].body # Logout
  BY <1>1, <1>4, GameSystemAssumption
<1>16. ASSUME NEW fd, NEW c, Senior(Q, conn, fd, c), Out(Q, conn, tainted, fd, c)
       PROVE  Senior(Q', conn', fd, c) /\ Out(Q', conn', tainted', fd, c)
  <2>1. Senior(Tail(Q), conn, fd, c)
    BY <1>4, <1>16, SeniorRead
  <2>2. Out(Tail(Q), conn, tainted, fd, c)
    BY <1>4, <1>15, <1>16, OutRead
  <2> QED
    BY <1>4, <2>1, <2>2
<1>17. RoleInv'
  <2>1. \A p, q \in used' : owner'[p] = owner'[q] => p = q
    BY <1>7, <1>9, <1>10, <1>13, <1>14
  <2>2. ASSUME NEW q \in used'
        PROVE  Senior(Q', conn', session'[q], owner'[q]) /\ Out(Q', conn', tainted', session'[q], owner'[q])
    <3>1. CASE q = r
      BY <1>7, <1>10, <1>16, <3>1
    <3>2. CASE q \in used \ E
      <4>1. Senior(Q, conn, session[q], owner[q]) /\ Out(Q, conn, tainted, session[q], owner[q])
        BY <3>2 DEF ActInv, RoleInv
      <4> QED
        BY <1>10, <1>16, <3>2, <4>1
    <3> QED
      BY <1>9, <3>1, <3>2
  <2> QED
    BY <2>1, <2>2 DEF RoleInv
<1>18. LoginInv'
  <2>1. Logins(Q, conn, tainted, logins, Owners \cup Kicked) /\ Oldest(Q, conn)
    BY DEF ActInv, LoginInv, IInv, GateInv
  <2>2. \A c \in Owners' \cup Kicked' : c \in Owners \cup Kicked \/ (Q[1].body \in RoleId /\ c = Q[1].conn)
    BY <1>1, <1>2, <1>4, <1>11, <1>12, <1>14
  <2>3. Logins(Tail(Q), conn, tainted, logins, Owners' \cup Kicked')
    BY <1>4, <2>1, <2>2, LoginsRead
  <2> QED
    BY <1>1, <1>4, <2>3 DEF LoginInv
<1>19. KickInv'
  <2>1. Kicked' \subseteq logins
    BY <1>2, <1>12, <1>14 DEF ActInv, KickInv
  <2>2. m.conn \notin Kicked'
    BY <1>2, <1>7, <1>12, <1>14
  <2>3. \A q \in used \ E : owner[q] \notin Kicked'
    BY <1>2, <1>12, <1>13, <1>14 DEF ActInv, KickInv
  <2>4. Owners' \cap Kicked' = {}
    BY <1>11, <2>2, <2>3
  <2> QED
    BY <1>1, <2>1, <2>4 DEF KickInv
<1>20. OwnedInv'
  BY <1>1, <1>6, <1>7, <1>9, <1>10, <1>14 DEF OwnedInv
<1> QED
  BY <1>8, <1>17, <1>18, <1>19, <1>20 DEF ActInv

-----------------------------------------------------------------------------
(* The invariant.                                                          *)
LEMMA Unmoved ==
  ASSUME IInv, C!TypeOK', Oldest(Q, conn)', Counted(Q, conn, count)',
         (cache # <<>> => link = "none")', (toGame # <<>> => link = "up")',
         UNCHANGED <<table, owner, crashes>>,
         link' = "up" \/ alone' <=> link = "up" \/ alone,
         logins \subseteq logins', logins' \subseteq 1 .. count'
  PROVE  IInv'
<1>1. UNCHANGED <<proc, used, idIdx, fdIdx, roleId, session>>
  BY DEF table
<1>2. logins' \subseteq 1 .. MaxConn
  BY GameSystemAssumption DEF C!TypeOK
<1>3. TypeOK'
  BY <1>1, <1>2 DEF IInv, TypeOK
<1>4. GateInv'
  BY DEF GateInv
<1>5. OwnedInv'
  BY <1>1 DEF IInv, OwnedInv
<1> QED
  BY <1>3, <1>4, <1>5 DEF IInv

(* A request of the connection that is on fd.                              *)
LEMMA RequestIs ==
  ASSUME IInv, NEW fd \in Session, conn[fd] # 0, NEW b \in RoleId \cup {Play, Logout}
  PROVE  /\ [fd |-> fd, conn |-> conn[fd], body |-> b] \in C!Message
         /\ conn[fd] \in 1 .. count
<1>1. conn[fd] \in 0 .. MaxConn /\ count \in Nat /\ conn[fd] <= count
  BY GameSystemAssumption DEF IInv, TypeOK, C!TypeOK, GateInv, Counted
<1>2. conn[fd] \in 1 .. MaxConn /\ conn[fd] \in 1 .. count
  BY <1>1, GameSystemAssumption
<1> QED
  BY <1>2 DEF C!Message

LEMMA ClientStep ==
  ASSUME IInv, ActInv, NEW fd \in Session,
         \/ ClientConnects(fd)
         \/ \E id \in RoleId : ClientLogsIn(fd, id)
         \/ ClientPlays(fd)
         \/ ClientGone(fd)
  PROVE  IInv' /\ ActInv'
<1> DEFINE m(b) == [fd |-> fd, conn |-> conn[fd], body |-> b]
<1>1. ASSUME ClientConnects(fd)
      PROVE  IInv' /\ ActInv'
  <2>1. C!Accept(fd) /\ UNCHANGED <<table, owner, logins, crashes>>
    BY <1>1 DEF ClientConnects
  <2>2. C!TypeOK' /\ Oldest(Q, conn)' /\ Counted(Q, conn, count)'
    BY <2>1, AcceptKeeps
  <2>3. count' = count + 1 /\ UNCHANGED <<link, alone, cache, toGame>>
    BY <2>1 DEF C!Accept
  <2>4. logins' \subseteq 1 .. count' /\ logins \subseteq logins'
    BY <2>1, <2>3, GameSystemAssumption DEF IInv, GateInv, TypeOK, C!TypeOK
  <2>5. (cache # <<>> => link = "none")' /\ (toGame # <<>> => link = "up")'
    BY <2>3 DEF IInv, GateInv
  <2>6. IInv'
    BY <2>1, <2>2, <2>3, <2>4, <2>5, Unmoved
  <2> QED
    BY <2>1, <2>6, AcceptActs
<1>2. ASSUME NEW b \in RoleId \cup {Play, Logout}, conn[fd] # 0, C!Pass(m(b)),
             \/ b \in RoleId /\ conn[fd] \notin logins /\ logins' = logins \cup {conn[fd]} /\ conn' = conn
             \/ b = Play /\ logins' = logins /\ conn' = conn
             \/ b = Logout /\ logins' = logins /\ conn' = [conn EXCEPT ![fd] = 0],
             UNCHANGED <<table, owner, crashes, count, link, alone, fromGame>>
      PROVE  IInv' /\ ActInv'
  <2> DEFINE n == m(b)
  <2>1. n \in C!Message /\ conn[fd] \in 1 .. count /\ C!Pass(n)
    BY <1>2, RequestIs
  <2>2. n.fd = fd /\ n.conn = conn[fd] /\ n.body = b
    OBVIOUS
  <2> HIDE DEF n
  <2>3. \/ n.body # Logout /\ conn' = conn
        \/ conn' = [conn EXCEPT ![n.fd] = 0]
    BY <1>2, <2>2, GameSystemAssumption
  <2>4. /\ C!TypeOK'
        /\ Oldest(Q, conn)' /\ Counted(Q, conn, count)'
        /\ (cache # <<>> => link = "none")' /\ (toGame # <<>> => link = "up")'
    BY <1>2, <2>1, <2>2, <2>3, SendKeeps
  <2>5. logins \subseteq logins' /\ logins' \subseteq 1 .. count'
    BY <1>2, <2>1 DEF IInv, GateInv
  <2>6. IInv'
    BY <1>2, <2>4, <2>5, Unmoved
  <2>7. \/ /\ n.body \in RoleId /\ n.conn \notin logins /\ logins' = logins \cup {n.conn}
           /\ conn' = conn
        \/ n.body = Play /\ logins' = logins /\ conn' = conn
        \/ n.body = Logout /\ logins' = logins /\ conn' = [conn EXCEPT ![n.fd] = 0]
    BY <1>2, <2>2
  <2>8. ActInv'
    BY <1>2, <2>1, <2>2, <2>7, SendActs
  <2> QED
    BY <2>6, <2>8
<1>3. ASSUME NEW id \in RoleId, ClientLogsIn(fd, id)
      PROVE  IInv' /\ ActInv'
  <2>1. /\ conn[fd] # 0 /\ C!Pass(m(id)) /\ conn[fd] \notin logins /\ logins' = logins \cup {conn[fd]}
        /\ conn' = conn /\ UNCHANGED <<table, owner, crashes, count, link, alone, fromGame>>
    BY <1>3 DEF ClientLogsIn, C!Forward
  <2> QED
    BY <1>2, <2>1
<1>4. ASSUME ClientPlays(fd)
      PROVE  IInv' /\ ActInv'
  <2>1. /\ conn[fd] # 0 /\ C!Pass(m(Play)) /\ logins' = logins
        /\ conn' = conn /\ UNCHANGED <<table, owner, crashes, count, link, alone, fromGame>>
    BY <1>4 DEF ClientPlays, C!Forward
  <2> QED
    BY <1>2, <2>1
<1>5. ASSUME ClientGone(fd)
      PROVE  IInv' /\ ActInv'
  <2>1. /\ conn[fd] # 0 /\ C!Pass(m(Logout)) /\ logins' = logins
        /\ conn' = [conn EXCEPT ![fd] = 0]
        /\ UNCHANGED <<table, owner, crashes, count, link, alone, fromGame>>
    BY <1>5 DEF ClientGone, C!ClientGone
  <2> QED
    BY <1>2, <2>1
<1> QED
  BY <1>1, <1>3, <1>4, <1>5

LEMMA GateStep ==
  ASSUME IInv, ActInv, GatewayKicks \/ ServerGone
  PROVE  IInv' /\ ActInv'
<1>1. ASSUME GatewayKicks
      PROVE  IInv' /\ ActInv'
  <2>1. C!KickRead /\ UNCHANGED <<table, owner, logins, crashes>>
    BY <1>1 DEF GatewayKicks
  <2>2. C!TypeOK' /\ Oldest(Q, conn)' /\ Counted(Q, conn, count)'
    BY <2>1, KickKeeps
  <2>3. UNCHANGED <<count, link, alone, cache, toGame>>
    BY <2>1 DEF C!KickRead
  <2>4. /\ logins \subseteq logins' /\ logins' \subseteq 1 .. count'
        /\ (cache # <<>> => link = "none")' /\ (toGame # <<>> => link = "up")'
    BY <2>1, <2>3 DEF IInv, GateInv
  <2>5. IInv'
    BY <2>1, <2>2, <2>3, <2>4, Unmoved
  <2> QED
    BY <2>1, <2>5, KickActs
<1>2. ASSUME ServerGone
      PROVE  IInv' /\ ActInv'
  <2>1. C!ServerGone /\ UNCHANGED <<table, owner, logins, crashes>>
    BY <1>2 DEF ServerGone
  <2>2. /\ C!TypeOK' /\ Oldest(Q, conn)' /\ Counted(Q, conn, count)'
        /\ (cache # <<>> => link = "none")' /\ (toGame # <<>> => link = "up")'
    BY <2>1, GoneKeeps
  <2>3. UNCHANGED <<count, alone>> /\ link = "broken" /\ link' = "none"
    BY <2>1 DEF C!ServerGone
  <2>4. logins \subseteq logins' /\ logins' \subseteq 1 .. count'
    BY <2>1, <2>3 DEF IInv, GateInv
  <2>5. IInv'
    BY <2>1, <2>2, <2>3, <2>4, Unmoved
  <2> QED
    BY <2>1, <2>5, GoneActs
<1> QED
  BY <1>1, <1>2

LEMMA LoginStep ==
  ASSUME IInv, ActInv, Login
  PROVE  IInv' /\ ActInv'
<1>1. ActInv' /\ OwnedInv'
  BY LoginActs
<1> DEFINE m == Head(toGame)
           E == ById(m.body)
<1>2. /\ m.body \in RoleId /\ C!GameReads(KicksOf(E)) /\ UNCHANGED <<logins, crashes>>
      /\ \E r \in Slot \ (used \ E) : /\ Enlist(E, r, m.fd, m.body)
                                      /\ owner' = [owner EXCEPT ![r] = m.conn]
  BY DEF Login
<1>3. E \in SUBSET used
  BY DEF ActInv, TableInv, ById
<1>4. KicksOf(E) \in Seq(C!Notice)
  BY <1>3, KicksAre
<1>5. /\ C!TypeOK' /\ Q # <<>> /\ m = Q[1] /\ m \in C!Message
      /\ UNCHANGED <<count, link, alone>>
      /\ Oldest(Q, conn)' /\ Counted(Q, conn, count)'
      /\ (cache # <<>> => link = "none")' /\ (toGame # <<>> => link = "up")'
  BY <1>2, <1>4, ReadQueue
<1>6. PICK r \in Slot \ (used \ E) : /\ Enlist(E, r, m.fd, m.body)
                                     /\ owner' = [owner EXCEPT ![r] = m.conn]
  BY <1>2
<1>7. m.fd \in Session /\ m.conn \in 0 .. MaxConn
  BY <1>5 DEF C!Message
<1> HIDE DEF m, E
<1>8. /\ used' = (used \ E) \cup {r}
      /\ roleId' = [roleId EXCEPT ![r] = m.body]
      /\ session' = [session EXCEPT ![r] = m.fd]
      /\ proc' = proc
  BY <1>6 DEF Enlist
<1>9. used' \subseteq Slot /\ idIdx' \subseteq Slot /\ fdIdx' \subseteq Slot
  BY <1>1, <1>6, <1>8 DEF IInv, TypeOK, ActInv, TableInv
<1>10. /\ roleId' \in [Slot -> RoleId \cup {None}]
       /\ session' \in [Slot -> Session \cup {None}]
       /\ owner' \in [Slot -> 0 .. MaxConn]
  BY <1>2, <1>6, <1>7, <1>8 DEF IInv, TypeOK
<1>11. TypeOK'
  BY <1>2, <1>5, <1>8, <1>9, <1>10 DEF IInv, TypeOK
<1>12. GateInv'
  BY <1>2, <1>5 DEF IInv, GateInv
<1> QED
  BY <1>1, <1>11, <1>12 DEF IInv

(* Steps that take roles from the table.                                   *)
LEMMA Delisted ==
  ASSUME IInv, ActInv, C!TypeOK', GateInv', NEW E, Delist(E),
         UNCHANGED <<link, alone, owner, logins, crashes>>
  PROVE  IInv'
<1>1. /\ used' = used \ E /\ idIdx' = idIdx \ E /\ fdIdx' = fdIdx \ E
      /\ UNCHANGED <<proc, roleId, session>>
  BY DEF Delist
<1>2. TypeOK'
  BY <1>1 DEF IInv, TypeOK
<1>3. OwnedInv'
  BY <1>1 DEF IInv, OwnedInv
<1> QED
  BY <1>2, <1>3 DEF IInv

LEMMA HandlesStep ==
  ASSUME IInv, ActInv, GameHandles
  PROVE  IInv' /\ ActInv'
<1>1. <<>> \in Seq(C!Notice)
  BY EmptySeq
<1>2. ASSUME C!GameReads(<<>>), logins' = logins
      PROVE  C!TypeOK' /\ GateInv' /\ UNCHANGED <<count, link, alone>>
             /\ Oldest(Q, conn)' /\ Counted(Q, conn, count)'
             /\ (cache # <<>> => link = "none")' /\ (toGame # <<>> => link = "up")'
  <2>1. /\ C!TypeOK' /\ UNCHANGED <<count, link, alone>>
        /\ Oldest(Q, conn)' /\ Counted(Q, conn, count)'
        /\ (cache # <<>> => link = "none")' /\ (toGame # <<>> => link = "up")'
    BY <1>1, <1>2, ReadQueue
  <2> QED
    BY <1>2, <2>1 DEF IInv, GateInv
<1>3. ASSUME LogOut
      PROVE  IInv'
  <2>1. /\ Delist(BySession(Head(toGame).fd)) /\ C!GameReads(<<>>)
        /\ UNCHANGED <<owner, logins, crashes>>
    BY <1>3 DEF LogOut
  <2> QED
    BY <1>2, <2>1, Delisted
<1>4. ASSUME Handle
      PROVE  IInv'
  <2>1. C!GameReads(<<>>) /\ UNCHANGED <<table, owner, logins, crashes>>
    BY <1>4 DEF Handle
  <2>2. logins \subseteq logins' /\ logins' \subseteq 1 .. count'
    BY <1>2, <2>1 DEF IInv, GateInv
  <2> QED
    BY <1>2, <2>1, <2>2, Unmoved
<1> QED
  BY <1>3, <1>4, LoginStep, LogOutActs, HandleActs DEF GameHandles

LEMMA FailsStep ==
  ASSUME IInv, ActInv, NEW r \in Slot, LoadFails(r)
  PROVE  IInv' /\ ActInv'
<1>1. /\ r \in idIdx /\ C!GameWrites(KicksOf({r})) /\ Delist({r}) /\ UNCHANGED <<owner, logins, crashes>>
  BY DEF LoadFails
<1>2. KicksOf({r}) \in Seq(C!Notice)
  BY <1>1, KicksAre DEF ActInv, TableInv
<1>3. C!TypeOK' /\ Q' = Q /\ UNCHANGED <<conn, count, link, alone, cache, toGame>>
  BY <1>1, <1>2, WriteQueue
<1>4. GateInv'
  BY <1>1, <1>3 DEF IInv, GateInv
<1>5. IInv'
  BY <1>1, <1>3, <1>4, Delisted
<1> QED
  BY <1>5, FailsActs

LEMMA DiesStep ==
  ASSUME IInv, ActInv, GameDies
  PROVE  IInv' /\ ActInv'
<1>1. C!GameDies /\ Forget /\ UNCHANGED <<owner, logins>> /\ crashes < MaxCrash /\ crashes' = crashes + 1
  BY DEF GameDies
<1>2. /\ C!TypeOK' /\ link' # "up" /\ ~alone'
      /\ Oldest(Q, conn)' /\ Counted(Q, conn, count)'
      /\ (cache # <<>> => link = "none")' /\ (toGame # <<>> => link = "up")'
  BY <1>1, DiesQueue
<1>3. /\ count' = count /\ proc' = "down" /\ idIdx' = {} /\ fdIdx' = {}
      /\ UNCHANGED <<used, roleId, session>>
  BY <1>1 DEF C!GameDies, Forget
<1>4. crashes' \in 0 .. MaxCrash
  BY <1>1, GameSystemAssumption DEF IInv, TypeOK
<1>5. TypeOK'
  BY <1>1, <1>2, <1>3, <1>4 DEF IInv, TypeOK
<1>6. GateInv' /\ OwnedInv'
  BY <1>1, <1>2, <1>3 DEF IInv, GateInv, OwnedInv
<1> QED
  BY <1>1, <1>5, <1>6, DiesActs DEF IInv

LEMMA StartsStep ==
  ASSUME IInv, ActInv, GameStarts
  PROVE  IInv' /\ ActInv'
<1>1. C!GameConnects /\ Relink /\ UNCHANGED <<owner, logins, crashes>>
  BY DEF GameStarts
<1>2. /\ C!TypeOK' /\ (link' = "up" \/ alone')
      /\ Oldest(Q, conn)' /\ Counted(Q, conn, count)'
      /\ (cache # <<>> => link = "none")' /\ (toGame # <<>> => link = "up")'
  BY <1>1, ConnectsQueue
<1>3. count' = count /\ proc' = "up" /\ UNCHANGED <<used, roleId, session>>
  BY <1>1 DEF C!GameConnects, Relink
<1>4. ActInv'
  BY <1>1, StartsActs
<1>5. used' \subseteq Slot /\ idIdx' \subseteq Slot /\ fdIdx' \subseteq Slot
  BY <1>3, <1>4 DEF IInv, TypeOK, ActInv, TableInv
<1>6. TypeOK'
  BY <1>1, <1>2, <1>3, <1>5 DEF IInv, TypeOK
<1>7. GateInv' /\ OwnedInv'
  BY <1>1, <1>2, <1>3 DEF IInv, GateInv, OwnedInv
<1> QED
  BY <1>4, <1>6, <1>7 DEF IInv

LEMMA Starts ==
  ASSUME Init
  PROVE  IInv /\ ActInv
<1>1. /\ used = {} /\ idIdx = {} /\ fdIdx = {} /\ proc = "down"
      /\ roleId = [r \in Slot |-> None] /\ session = [r \in Slot |-> None]
      /\ owner = [r \in Slot |-> 0] /\ logins = {} /\ crashes = 0
  BY DEF Init, TableInit
<1>2. /\ conn = [fd \in Session |-> 0] /\ count = 0 /\ link = "none" /\ alone = FALSE
      /\ cache = <<>> /\ toGame = <<>> /\ fromGame = <<>> /\ tainted = {}
  BY DEF Init, C!Init
<1>3. /\ \A S : <<>> \in Seq(S)
      /\ 0 \in 0 .. MaxConn /\ 0 \in 0 .. MaxCrash
  BY GameSystemAssumption, EmptySeq
<1>4. C!TypeOK
  BY <1>2, <1>3 DEF C!TypeOK
<1>5. TypeOK
  BY <1>1, <1>2, <1>3, <1>4 DEF TypeOK
<1>6. Q = <<>>
  <2>1. <<>> \in Seq({}) /\ <<>> \o <<>> = <<>>
    BY <1>3, ConcatEmptySeq
  <2> QED
    BY <1>2, <2>1 DEF Q, C!Pending
<1>7. GateInv
  BY <1>1, <1>2, <1>6 DEF GateInv, Oldest, Counted
<1>8. OwnedInv
  BY <1>1 DEF OwnedInv
<1>9. TableInv /\ RoleInv
  BY <1>1 DEF TableInv, RoleInv
<1>10. LoginInv
  BY <1>6 DEF LoginInv, Logins
<1>11. KickInv
  BY <1>1, <1>2 DEF KickInv, Owners, Kicked
<1> QED
  BY <1>5, <1>7, <1>8, <1>9, <1>10, <1>11 DEF IInv, ActInv

LEMMA Keeps ==
  ASSUME IInv, ActInv, [Next]_vars
  PROVE  IInv' /\ ActInv'
<1>1. CASE Next
  BY <1>1, ClientStep, GateStep, HandlesStep, FailsStep, DiesStep, StartsStep DEF Next
<1>2. CASE UNCHANGED vars
  <2>1. UNCHANGED <<proc, used, idIdx, fdIdx, roleId, session, owner, logins, crashes>>
    BY <1>2 DEF vars, table
  <2>2. UNCHANGED <<conn, count, link, alone, cache, toGame, fromGame, tainted>>
    BY <1>2 DEF vars, gate
  <2>3. Q' = Q /\ Owners' = Owners /\ Kicked' = Kicked
    BY <2>1, <2>2, MetKept DEF Q, C!Pending
  <2>4. TypeOK' /\ GateInv' /\ OwnedInv'
    BY <2>1, <2>2, <2>3 DEF IInv, TypeOK, C!TypeOK, GateInv, OwnedInv
  <2>5. TableInv' /\ RoleInv' /\ LoginInv' /\ KickInv'
    BY <2>1, <2>2, <2>3 DEF ActInv, TableInv, RoleInv, LoginInv, KickInv
  <2> QED
    BY <2>4, <2>5 DEF IInv, ActInv
<1> QED
  BY <1>1, <1>2

LEMMA Invariance == Spec => [](IInv /\ ActInv)
<1>1. Init => IInv /\ ActInv
  BY Starts
<1>2. IInv /\ ActInv /\ [Next]_vars => (IInv /\ ActInv)'
  BY Keeps
<1> QED
  BY <1>1, <1>2, PTL DEF Spec

-----------------------------------------------------------------------------
(* The gateway's promise to the clients: whatever the game server does,    *)
(* dying included, what is on its way is in the order it was sent, and no  *)
(* message waits in cached_buf behind a socket in use.                     *)
THEOREM GateKeepsOrder == Spec => []OldestFirst
<1>1. IInv /\ ActInv => OldestFirst
  BY DEF IInv, GateInv, Oldest, OldestFirst, C!OldestFirst, Q
<1> QED
  BY <1>1, Invariance, PTL

(* A role goes when its client has gone: game_srv will still be told, or   *)
(* the role is on a descriptor whose LOGOUT was lost with the game server, *)
(* or in the full cache, or that a late kick closed under a new client.    *)
THEOREM RolesCanLeave == Spec => []EveryRoleHasAWayOut
<1>1. ASSUME IInv, ActInv
      PROVE  EveryRoleHasAWayOut
  <2>1. \A r \in used : Out(Q, conn, tainted, session[r], owner[r])
    BY <1>1 DEF ActInv, RoleInv
  <2> QED
    BY <2>1 DEF EveryRoleHasAWayOut, LogoutPending, Out, Q
<1> QED
  BY <1>1, Invariance, PTL

(* A request acts on the role its own connection logged in, though the     *)
(* game server finds the role by a descriptor that has been another's.     *)
THEOREM ClientsActForThemselves == Spec => []NoImpersonation
<1>1. ASSUME IInv, ActInv
      PROVE  NoImpersonation
  <2> DEFINE m == Head(toGame)
  <2> SUFFICES ASSUME proc = "up", toGame # <<>>, m.body \notin RoleId,
                      NEW r \in BySession(m.fd), m.fd \notin tainted
               PROVE  owner[r] = m.conn
    BY DEF NoImpersonation
  <2>1. /\ toGame \in Seq(C!Message) /\ cache = <<>>
    BY <1>1 DEF IInv, TypeOK, C!TypeOK, GateInv
  <2>2. Q = toGame
    BY <2>1, ConcatEmptySeq DEF Q, C!Pending
  <2>3. m = Q[1] /\ 1 \in DOMAIN Q /\ m \in C!Message /\ \A k \in DOMAIN Q : k = 1 \/ 1 < k
    <3>1. /\ m = Q[1] /\ 1 \in DOMAIN Q /\ m \in C!Message
          /\ DOMAIN Q = 1 .. Len(Q) /\ Len(Q) \in Nat
      BY <2>1, <2>2, TailAt
    <3> QED
      BY <3>1
  <2> HIDE DEF m
  <2>4. r \in used /\ session[r] = m.fd
    BY <1>1 DEF BySession, ActInv, TableInv
  <2>5. Senior(Q, conn, m.fd, owner[r]) /\ Out(Q, conn, tainted, m.fd, owner[r])
    BY <1>1, <2>4 DEF ActInv, RoleInv
  <2>6. /\ owner[r] \in Nat /\ owner[r] # 0 /\ m.conn \in Nat /\ m.fd \in Session
        /\ \A k \in DOMAIN Q : Q[k].conn \in Nat
    BY <1>1, <2>1, <2>2, <2>3, <2>4, RolesAre, MessageAt
  <2>7. conn[m.fd] \in Nat
    BY <1>1, <2>6, GameSystemAssumption DEF IInv, TypeOK, C!TypeOK
  <2>8. owner[r] <= m.conn
    BY <2>3, <2>5 DEF Senior
  <2>9. Oldest(Q, conn)
    BY <1>1 DEF IInv, GateInv
  <2>10. CASE conn[m.fd] = owner[r]
    <3>1. m.conn <= owner[r]
      BY <2>3, <2>6, <2>7, <2>9, <2>10 DEF Oldest
    <3> QED
      BY <2>6, <2>8, <3>1
  <2>11. ASSUME NEW k \in DOMAIN Q, Q[k].fd = m.fd, Q[k].conn = owner[r]
         PROVE  m.conn <= owner[r]
    BY <2>3, <2>6, <2>9, <2>11 DEF Oldest
  <2> QED
    BY <2>5, <2>6, <2>8, <2>10, <2>11 DEF Out
<1> QED
  BY <1>1, Invariance, PTL

-----------------------------------------------------------------------------
(* The gateway is one wire: the connections that have ended, and what each *)
(* step does to them and to the queue.                                     *)
Ended == {c \in 1 .. count : \A fd \in Session : conn[fd] # c}

LEMMA WireSteps ==
  ASSUME Q \in Seq(C!Message)
  PROVE
  /\ Q # <<>> /\ Q' = Tail(Q) /\ Ended' = Ended => C!W!WNext
  /\ Q' = <<>> /\ Ended' = Ended => C!W!WNext
  /\ \A m \in C!Message : Ended' = Ended \cup {m.conn} /\ Q' = Q => C!W!WNext
  /\ \A m \in C!Message :
       /\ m.conn \notin Ended
       /\ Q' \in {Append(Q, m), Q}
       /\ Ended' = IF m.body = Logout THEN Ended \cup {m.conn} ELSE Ended
       => C!W!WNext
<1>1. Q # <<>> /\ Q' = Tail(Q) /\ Ended' = Ended => C!W!Take
  BY DEF C!W!Take, Q, Ended
<1>2. Q' = <<>> /\ Ended' = Ended => C!W!Break
  <2>1. Len(Q) \in Nat
    BY LenProperties
  <2>2. SubSeq(Q, 1, 0) = <<>> /\ 0 \in 0 .. Len(Q)
    BY <2>1, SubSeqEmpty
  <2> QED
    BY <2>2 DEF C!W!Break, Q, Ended
<1>3. \A m \in C!Message : Ended' = Ended \cup {m.conn} /\ Q' = Q => C!W!Cut
  BY DEF C!W!Cut, Q, Ended
<1>4. \A m \in C!Message :
        /\ m.conn \notin Ended
        /\ Q' \in {Append(Q, m), Q}
        /\ Ended' = IF m.body = Logout THEN Ended \cup {m.conn} ELSE Ended
        => C!W!Send(m)
  BY DEF C!W!Send, Q, Ended, C!IsLogout
<1> QED
  BY <1>1, <1>2, <1>3, <1>4 DEF C!W!WNext

(* What a step of the gateway does to the connections that have ended.     *)
LEMMA EndedNew ==
  ASSUME IInv, NEW fd \in Session, C!Accept(fd)
  PROVE  Ended' = Ended
<1>1. conn \in [Session -> Nat] /\ count \in Nat /\ \A g \in Session : conn[g] <= count
  BY GameSystemAssumption DEF IInv, TypeOK, C!TypeOK, GateInv, Counted
<1>2. conn[fd] = 0 /\ count' = count + 1 /\ conn' = [conn EXCEPT ![fd] = count + 1]
  BY DEF C!Accept
<1>3. conn'[fd] = count + 1 /\ \A g \in Session : g # fd => conn'[g] = conn[g]
  BY <1>1, <1>2
<1>4. count + 1 \notin Ended'
  BY <1>3 DEF Ended
<1>5. \A c \in 1 .. count + 1 : c # count + 1 => c \in 1 .. count /\ c # 0 /\ c # conn'[fd]
  BY <1>1, <1>3
<1>6. \A c \in 1 .. count : c \in 1 .. count + 1 /\ c # count + 1 /\ c # 0
  BY <1>1
<1> QED
  BY <1>1, <1>2, <1>3, <1>4, <1>5, <1>6 DEF Ended

LEMMA EndedLess ==
  ASSUME IInv, NEW fd \in Session, count' = count, conn' = [conn EXCEPT ![fd] = 0]
  PROVE  Ended' = IF conn[fd] = 0 THEN Ended ELSE Ended \cup {conn[fd]}
<1>1. conn \in [Session -> Nat] /\ count \in Nat /\ \A g \in Session : conn[g] <= count
  BY GameSystemAssumption DEF IInv, TypeOK, C!TypeOK, GateInv, Counted
<1>2. \A g, h \in Session : conn[g] = conn[h] /\ conn[g] # 0 => g = h
  BY DEF IInv, GateInv, Counted
<1>3. conn'[fd] = 0 /\ \A g \in Session : g # fd => conn'[g] = conn[g]
  BY <1>1
<1>4. conn[fd] # 0 => conn[fd] \in 1 .. count
  BY <1>1
<1>5. \A c \in 1 .. count : c # 0
  BY <1>1
<1>6. CASE conn[fd] = 0
  BY <1>3, <1>5, <1>6 DEF Ended
<1>7. CASE conn[fd] # 0
  <2>1. \A c \in 1 .. count : c \in Ended' <=> c \in Ended \/ c = conn[fd]
    BY <1>2, <1>3, <1>5, <1>7 DEF Ended
  <2> QED
    BY <1>4, <1>7, <2>1 DEF Ended
<1> QED
  BY <1>6, <1>7

LEMMA WireSend ==
  ASSUME IInv, NEW fd \in Session, conn[fd] # 0, NEW b \in RoleId \cup {Play, Logout},
         C!Pass([fd |-> fd, conn |-> conn[fd], body |-> b]),
         count' = count,
         conn' = IF b = Logout THEN [conn EXCEPT ![fd] = 0] ELSE conn
  PROVE  C!W!WNext
<1> DEFINE m == [fd |-> fd, conn |-> conn[fd], body |-> b]
<1>1. m \in C!Message /\ C!Pass(m)
  BY RequestIs
<1>2. m.conn = conn[fd] /\ m.body = b
  OBVIOUS
<1> HIDE DEF m
<1>3. Q' \in {Append(Q, m), Q}
  BY <1>1, PassSends DEF Sends
<1>4. m.conn \notin Ended
  BY <1>2 DEF Ended
<1>5. Ended' = IF m.body = Logout THEN Ended \cup {m.conn} ELSE Ended
  <2>1. CASE b = Logout
    BY <1>2, <2>1, EndedLess
  <2>2. CASE b # Logout
    BY <1>2, <2>2 DEF Ended
  <2> QED
    BY <2>1, <2>2
<1>6. Q \in Seq(C!Message)
  BY QueueType DEF IInv
<1> QED
  BY <1>1, <1>3, <1>4, <1>5, <1>6, WireSteps

LEMMA WireStep ==
  ASSUME IInv, ActInv, Next
  PROVE  C!W!WNext \/ (Q' = Q /\ Ended' = Ended)
<1>1. Q \in Seq(C!Message) /\ conn \in [Session -> 0 .. MaxConn]
  BY QueueType DEF IInv, TypeOK, C!TypeOK
<1>2. ASSUME NEW fd \in Session, ClientConnects(fd)
      PROVE  Q' = Q /\ Ended' = Ended
  <2>1. C!Accept(fd)
    BY <1>2 DEF ClientConnects
  <2>2. UNCHANGED <<cache, toGame>>
    BY <2>1 DEF C!Accept
  <2> QED
    BY <2>1, <2>2, EndedNew DEF Q, C!Pending
<1>3. ASSUME NEW fd \in Session, NEW id \in RoleId, ClientLogsIn(fd, id)
      PROVE  C!W!WNext
  <2>1. /\ conn[fd] # 0 /\ C!Pass([fd |-> fd, conn |-> conn[fd], body |-> id])
        /\ count' = count /\ conn' = conn /\ id # Logout
    BY <1>3, GameSystemAssumption DEF ClientLogsIn, C!Forward
  <2> QED
    BY <2>1, WireSend
<1>4. ASSUME NEW fd \in Session, ClientPlays(fd)
      PROVE  C!W!WNext
  <2>1. /\ conn[fd] # 0 /\ C!Pass([fd |-> fd, conn |-> conn[fd], body |-> Play])
        /\ count' = count /\ conn' = conn /\ Play # Logout
    BY <1>4, GameSystemAssumption DEF ClientPlays, C!Forward
  <2> QED
    BY <2>1, WireSend
<1>5. ASSUME NEW fd \in Session, ClientGone(fd)
      PROVE  C!W!WNext
  <2>1. /\ conn[fd] # 0 /\ C!Pass([fd |-> fd, conn |-> conn[fd], body |-> Logout])
        /\ count' = count /\ conn' = [conn EXCEPT ![fd] = 0]
    BY <1>5 DEF ClientGone, C!ClientGone
  <2> QED
    BY <2>1, WireSend
<1>6. ASSUME GatewayKicks
      PROVE  C!W!WNext \/ (Q' = Q /\ Ended' = Ended)
  <2> DEFINE fd == Head(fromGame).fd
  <2>1. C!KickRead
    BY <1>6 DEF GatewayKicks
  <2>2. /\ fromGame # <<>> /\ fromGame \in Seq(C!Notice)
        /\ conn' = [conn EXCEPT ![fd] = 0] /\ count' = count
    BY <2>1 DEF C!KickRead, IInv, TypeOK, C!TypeOK
  <2>3. fd \in Session
    <3>1. Head(fromGame) \in C!Notice
      BY <2>2, HeadTailProperties
    <3> QED
      BY <3>1 DEF C!Notice
  <2> HIDE DEF fd
  <2>4. Q' = Q
    BY <2>1, KickKeeps
  <2>5. CASE conn[fd] = 0
    BY <2>2, <2>3, <2>4, <2>5, EndedLess
  <2>6. CASE conn[fd] # 0
    <3> DEFINE m == [fd |-> fd, conn |-> conn[fd], body |-> Logout]
    <3>1. m \in C!Message /\ m.conn = conn[fd]
      BY <2>3, <2>6, RequestIs
    <3> HIDE DEF m
    <3>2. Ended' = Ended \cup {m.conn}
      BY <2>2, <2>3, <2>6, <3>1, EndedLess
    <3> QED
      BY <1>1, <2>4, <3>1, <3>2, WireSteps
  <2> QED
    BY <2>5, <2>6
<1>7. ASSUME ServerGone
      PROVE  Q' = Q /\ Ended' = Ended
  BY <1>7 DEF ServerGone, C!ServerGone, Q, C!Pending, Ended
<1>8. ASSUME NEW kicks \in Seq(C!Notice), C!GameReads(kicks)
      PROVE  C!W!WNext
  <2>1. Q # <<>> /\ Q' = Tail(Q) /\ UNCHANGED <<conn, count>>
    BY <1>8, ReadQueue
  <2>2. Ended' = Ended
    BY <2>1 DEF Ended
  <2> QED
    BY <1>1, <2>1, <2>2, WireSteps
<1>9. ASSUME GameHandles
      PROVE  C!W!WNext
  <2>1. <<>> \in Seq(C!Notice)
    BY EmptySeq
  <2>2. \A id : ById(id) \in SUBSET used
    BY DEF ById, ActInv, TableInv
  <2>3. \A id : KicksOf(ById(id)) \in Seq(C!Notice)
    BY <2>2, KicksAre
  <2>4. CASE Login
    BY <1>8, <2>3, <2>4 DEF Login
  <2>5. CASE LogOut \/ Handle
    BY <1>8, <2>1, <2>5 DEF LogOut, Handle
  <2> QED
    BY <1>9, <2>4, <2>5 DEF GameHandles
<1>10. ASSUME NEW r \in Slot, LoadFails(r)
       PROVE  Q' = Q /\ Ended' = Ended
  BY <1>10 DEF LoadFails, C!GameWrites, Q, C!Pending, Ended
<1>11. ASSUME GameDies
       PROVE  C!W!WNext \/ (Q' = Q /\ Ended' = Ended)
  <2>1. C!GameDies
    BY <1>11 DEF GameDies
  <2>2. Q' = Q \/ Q' = <<>>
    BY <2>1, DiesQueue
  <2>3. Ended' = Ended
    BY <2>1 DEF C!GameDies, Ended
  <2> QED
    BY <1>1, <2>2, <2>3, WireSteps
<1>12. ASSUME GameStarts
       PROVE  Q' = Q /\ Ended' = Ended
  <2>1. C!GameConnects
    BY <1>12 DEF GameStarts
  <2> QED
    BY <2>1, ConnectsQueue DEF C!GameConnects, Ended
<1> QED
  BY <1>2, <1>3, <1>4, <1>5, <1>6, <1>7, <1>9, <1>10, <1>11, <1>12 DEF Next

(* Socket, cache, refused connections, deaths and restarts together are    *)
(* one queue to the clients: requests are lost only where they are sent,   *)
(* or all that is on the way at once, none is overtaken, repeated or       *)
(* invented, and none follows the end of its connection.                   *)
THEOREM GatewayIsOneWire == Spec => ActsAsWire
<1>1. Init => C!W!WInit
  <2>1. Init => Q = <<>>
    <3>1. <<>> \in Seq({}) /\ <<>> \o <<>> = <<>>
      BY EmptySeq, ConcatEmptySeq
    <3> QED
      BY <3>1 DEF Init, C!Init, Q, C!Pending
  <2>2. Init => Ended = {}
    BY DEF Init, C!Init, Ended
  <2> QED
    BY <2>1, <2>2 DEF C!W!WInit, Q, Ended
<1>2. IInv /\ ActInv /\ [Next]_vars
        => [C!W!WNext]_<<C!Pending, {c \in 1 .. count : \A fd \in Session : conn[fd] # c}>>
  <2>1. UNCHANGED vars => Q' = Q /\ Ended' = Ended
    BY DEF vars, gate, Q, C!Pending, Ended
  <2> QED
    BY <2>1, WireStep DEF Q, Ended
<1> QED
  BY <1>1, <1>2, Invariance, PTL DEF Spec, ActsAsWire, C!ActsAsWire, C!W!WSpec
=============================================================================
