--------------------------------- MODULE Wire ---------------------------------
(* What the gateway promises between the clients and the game server: one  *)
(* queue.  A message may be lost when it is sent, or together with         *)
(* everything behind it, but nothing is overtaken, repeated or invented,   *)
(* and nothing is sent for a connection after its end.                     *)
EXTENDS Naturals, Sequences

CONSTANTS Message, Ends(_)      \* Ends(m): m is the end of its connection

VARIABLES queue, ended          \* what is on its way; connections that ended

Send(m) ==
  /\ m.conn \notin ended
  /\ queue' \in {Append(queue, m), queue}
  /\ ended' = IF Ends(m) THEN ended \cup {m.conn} ELSE ended

Take ==
  /\ queue # <<>>
  /\ queue' = Tail(queue)
  /\ UNCHANGED ended

Break ==
  /\ \E n \in 0 .. Len(queue) : queue' = SubSeq(queue, 1, n)
  /\ UNCHANGED ended

(* A connection may also be ended by the other side, without a message.    *)
Cut == \E m \in Message : ended' = ended \cup {m.conn} /\ UNCHANGED queue

WInit == queue = <<>> /\ ended = {}
WNext == Take \/ Break \/ Cut \/ \E m \in Message : Send(m)
WSpec == WInit /\ [][WNext]_<<queue, ended>>
=============================================================================
