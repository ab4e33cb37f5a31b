------------------------------- MODULE GameNet -------------------------------
(* Messages over one direction of a connection: send_one_msg writes them   *)
(* to a socket piece by piece, get_one_buf and remove_one_buf find them    *)
(* again in the buffer of the receiver.  A byte is its offset in all that  *)
(* was ever sent.                                                          *)
EXTENDS Integers, Sequences

CONSTANTS
  Length,    \* the lengths of messages, header included
  Header,    \* sizeof(PROTO_HEAD)
  Space,     \* MAX_BUF_PER_CLIENT
  Reserve,   \* pos_begin, where the buffer of a client begins in conn_srv
  Socket,    \* what the socket holds
  MaxSent    \* bound of the model: messages sent

ASSUME GameNetAssumption ==
  /\ Header \in Nat \ {0} /\ Space \in Nat /\ Reserve \in Nat /\ Socket \in Nat \ {0}
  /\ Length \subseteq Header .. (Space - Reserve)
  /\ Header <= Space - Reserve
  /\ MaxSent \in Nat

VARIABLES
  ends,   \* ends[i]: the offset behind message i
  sent,   \* the offset up to which the sender has written
  gone,   \* the sender has closed the connection, or died
  got,    \* the offset up to which the receiver has read
  first,  \* the offset of the first byte of the buffer
  seen,   \* the offsets behind the messages that were handled
  pc      \* the receiver: "wait" for the socket, "handle" in the loop, "closed"

sender   == <<ends, sent, gone>>
receiver == <<got, first, seen, pc>>
vars     == <<sender, receiver>>

(* Where message i + 1 begins.                                             *)
End   == [i \in 0 .. Len(ends) |-> IF i = 0 THEN 0 ELSE ends[i]]
Total == End[Len(ends)]

Init ==
  /\ ends = << >> /\ sent = 0 /\ gone = FALSE
  /\ got = 0 /\ first = 0 /\ seen = << >> /\ pc = "wait"

-----------------------------------------------------------------------------
(* send_one_msg: nothing else is done before the last byte is written.     *)
Send(len) ==
  /\ ~gone /\ sent = Total /\ Len(ends) < MaxSent
  /\ ends' = Append(ends, Total + len)
  /\ UNCHANGED <<sent, gone, receiver>>

Push(k) ==
  /\ ~gone
  /\ sent + k <= Total
  /\ sent + k - got <= Socket
  /\ sent' = sent + k
  /\ UNCHANGED <<ends, gone, receiver>>

Hangup ==
  /\ ~gone
  /\ gone' = TRUE
  /\ UNCHANGED <<ends, sent, receiver>>

-----------------------------------------------------------------------------
(* head->len of what begins at an offset; anything when no message does.   *)
HeaderAt(o) ==
  LET here == {i \in 1 .. Len(ends) : End[i - 1] = o}
  IN  IF here # {} THEN {End[i] - o : i \in here} ELSE 0 .. Space

(* CLIENT_MAP_BUF_LEAVE when the buffer holds size bytes.                  *)
LeaveNoReserve(size) == Space - Reserve - Header - size     \* mutant: counts a header too much
Leave(size) == Space - Reserve - size

(* The test at the end of get_one_buf and of remove_one_buf.               *)
AfterAny(o, e) == pc' = IF e - o >= Header THEN "handle" ELSE "wait"   \* mutant: the length is not compared
After(o, e) ==
  \E len \in HeaderAt(o) : pc' = IF e - o >= Header /\ e - o >= len THEN "handle" ELSE "wait"

(* get_one_buf, with whatever piece of the stream recv returns.            *)
GetOneBuf(k) ==
  /\ pc = "wait"
  /\ k <= sent - got /\ k <= Leave(got - first)
  /\ got' = got + k
  /\ After(first, got + k)
  /\ UNCHANGED <<sender, first, seen>>

(* recv returns 0 at the end of the stream, and when there is no room.     *)
Over == (gone /\ sent = got) \/ Leave(got - first) = 0
Close ==
  /\ pc = "wait"
  /\ Over
  /\ pc' = "closed"
  /\ UNCHANGED <<sender, got, first, seen>>

(* The loop of the receive callbacks: a handler, then remove_one_buf.      *)
HandleOnce ==                                      \* mutant: what is left waits for the next bytes
  /\ pc = "handle"
  /\ \E len \in HeaderAt(first) :
       /\ seen' = Append(seen, first + len)
       /\ first' = first + len
       /\ pc' = "wait"
  /\ UNCHANGED <<sender, got>>
Handle ==
  /\ pc = "handle"
  /\ \E len \in HeaderAt(first) :
       /\ seen' = Append(seen, first + len)
       /\ first' = first + len
       /\ After(first + len, got)
  /\ UNCHANGED <<sender, got>>

Next ==
  \/ \E len \in Length : Send(len)
  \/ \E k \in 1 .. Socket : Push(k) \/ GetOneBuf(k)
  \/ Hangup \/ Close \/ Handle

Spec == Init /\ [][Next]_vars

(* libevent calls back while a descriptor is readable, and send_one_msg    *)
(* tries again until everything is written.                                *)
FairSpec ==
  /\ Spec
  /\ WF_vars(\E k \in 1 .. Socket : Push(k))
  /\ WF_vars(\E k \in 1 .. Socket : GetOneBuf(k))
  /\ WF_vars(Handle) /\ WF_vars(Close)

-----------------------------------------------------------------------------
(* The types; the buffer is never written behind its end.                  *)
TypeOK ==
  /\ ends \in Seq(Nat) /\ seen \in Seq(Nat)
  /\ sent \in 0 .. Total /\ got \in 0 .. sent /\ first \in 0 .. got
  /\ Reserve + got - first <= Space
  /\ gone \in BOOLEAN /\ pc \in {"wait", "handle", "closed"}

(* However the stream is cut, the handlers get the messages that were      *)
(* sent, whole and in order.                                               *)
Framed ==
  /\ Len(seen) <= Len(ends)
  /\ \A i \in 1 .. Len(seen) : seen[i] = ends[i] /\ ends[i] <= got

(* A message that has arrived does not wait for another one.               *)
NoneWaits ==
  (pc = "wait" /\ Len(seen) < Len(ends)) => ends[Len(seen) + 1] > got

(* A connection ends when its sender closed it, never because the buffer   *)
(* is full, and everything that was sent whole has been handled by then.   *)
NothingLost ==
  pc = "closed" => gone /\ \A i \in 1 .. Len(ends) : ends[i] <= sent => i <= Len(seen)

(* What is sent is handled, unless the sender goes away.                   *)
Delivered ==
  \A i \in 1 .. MaxSent : Len(ends) >= i ~> (Len(seen) >= i \/ gone)
=============================================================================
