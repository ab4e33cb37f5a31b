----------------------------- MODULE LinksProof ------------------------------
(* Theorems about connections: GameNet, for every buffer, every socket,    *)
(* every number of messages and every way the stream is cut, and DbLink,   *)
(* for every number of processes and requests and every cache.             *)
EXTENDS GameNet, DbLink, FiniteSetTheorems, SequenceTheorems, WellFoundedInduction, TLAPS

(* Each message has a length that occurs, and ends behind all before it;   *)
(* the buffer begins where the next message does.                          *)
Lengths == \A i \in 1 .. Len(ends) : ends[i] - End[i - 1] \in Length
Rising  == \A i, j \in 0 .. Len(ends) : i < j => End[i] < End[j]
Aligned == first = End[Len(seen)]

(* What the receiver is about to do it can do.                             *)
Whole ==
  /\ pc = "handle" => Len(seen) < Len(ends) /\ ends[Len(seen) + 1] <= got
  /\ pc = "closed" => gone /\ (Len(seen) < Len(ends) => ends[Len(seen) + 1] > sent)

IInv == TypeOK /\ Lengths /\ Rising /\ Aligned /\ Framed /\ NoneWaits /\ Whole

-----------------------------------------------------------------------------
LEMMA InitHolds == Init => IInv
<1> SUFFICES ASSUME Init PROVE IInv
  OBVIOUS
<1>1. ends = << >> /\ seen = << >> /\ Len(ends) = 0 /\ Len(seen) = 0
  BY DEF Init
<1>2. Total = 0
  BY <1>1 DEF Total, End
<1>3. << >> \in Seq(Nat)
  OBVIOUS
<1>4. Reserve + 0 - 0 <= Space
  BY GameNetAssumption
<1>4a. 0 \in 0 .. 0 /\ FALSE \in BOOLEAN
  OBVIOUS
<1>5. /\ sent = 0 /\ got = 0 /\ first = 0 /\ gone = FALSE /\ pc = "wait"
  BY DEF Init
<1>6. TypeOK
  BY <1>1, <1>2, <1>3, <1>4, <1>4a, <1>5 DEF TypeOK
<1>7. Lengths /\ Framed /\ NoneWaits /\ Whole
  BY <1>1, <1>5 DEF Lengths, Framed, NoneWaits, Whole
<1>8. End = [i \in {0} |-> IF i = 0 THEN 0 ELSE ends[i]] /\ End[0] = 0
  <2>1. 0 .. Len(ends) = {0}
    BY <1>1
  <2> QED BY <2>1 DEF End
<1>9. Rising
  <2>1. \A i, j \in 0 .. Len(ends) : ~(i < j)
    BY <1>1
  <2> QED BY <2>1 DEF Rising
<1>10. Aligned
  BY <1>1, <1>5, <1>8 DEF Aligned
<1> QED BY <1>6, <1>7, <1>9, <1>10 DEF IInv

LEMMA EndTypes ==
  ASSUME IInv
  PROVE  /\ ends \in Seq(Nat) /\ seen \in Seq(Nat) /\ Len(ends) \in Nat /\ Len(seen) \in 0 .. Len(ends)
         /\ \A i \in 1 .. Len(ends) : End[i] = ends[i] /\ ends[i] \in Nat
         /\ \A i \in 0 .. Len(ends) : End[i] \in Nat
         /\ sent \in Nat /\ got \in Nat /\ first \in Nat
<1>1. ends \in Seq(Nat) /\ seen \in Seq(Nat)
  BY DEF IInv, TypeOK
<1>2. Len(seen) \in 0 .. Len(ends)
  BY <1>1 DEF IInv, Framed
<1>3. \A i \in 1 .. Len(ends) : End[i] = ends[i] /\ ends[i] \in Nat
  BY <1>1 DEF End
<1>4. \A i \in 0 .. Len(ends) : End[i] \in Nat
  BY <1>1, <1>3 DEF End
<1>5. Total \in Nat
  BY <1>1, <1>4 DEF Total
<1>6. sent \in Nat /\ got \in Nat /\ first \in Nat
  BY <1>5 DEF IInv, TypeOK
<1> QED BY <1>1, <1>2, <1>3, <1>4, <1>6

(* The header at the beginning of a message is its own.                    *)
LEMMA NextHeader ==
  ASSUME IInv, NEW s \in 0 .. Len(ends) - 1
  PROVE  /\ HeaderAt(End[s]) = {ends[s + 1] - End[s]}
         /\ ends[s + 1] - End[s] \in Header .. (Space - Reserve)
<1>t. TypeOK /\ Lengths /\ Rising /\ Aligned /\ Framed /\ NoneWaits /\ Whole
  BY DEF IInv
<1>u. /\ ends \in Seq(Nat) /\ seen \in Seq(Nat) /\ Len(ends) \in Nat /\ Len(seen) \in 0 .. Len(ends)
      /\ \A i \in 1 .. Len(ends) : End[i] = ends[i] /\ ends[i] \in Nat
      /\ \A i \in 0 .. Len(ends) : End[i] \in Nat
      /\ sent \in Nat /\ got \in Nat /\ first \in Nat
  BY EndTypes
<1>1. Len(ends) \in Nat /\ Rising /\ Lengths
  BY <1>t, <1>u
<1> DEFINE here == {i \in 1 .. Len(ends) : End[i - 1] = End[s]}
<1>2. here = {s + 1}
  <2>1. s + 1 \in 1 .. Len(ends) /\ (s + 1) - 1 = s
    BY <1>1
  <2>2. ASSUME NEW i \in 1 .. Len(ends), End[i - 1] = End[s] PROVE i = s + 1
    <3>1. i - 1 \in 0 .. Len(ends) /\ s \in 0 .. Len(ends)
      BY <1>1
    <3>2. /\ i - 1 < s => End[i - 1] < End[s]
          /\ s < i - 1 => End[s] < End[i - 1]
          /\ End[s] \in Nat
      BY <1>1, <3>1, <1>u DEF Rising
    <3> QED BY <1>1, <2>2, <3>1, <3>2
  <2> QED BY <2>1, <2>2
<1>3. End[s + 1] = ends[s + 1] /\ End[(s + 1) - 1] = End[s] /\ (s + 1) - 1 = s
  BY <1>1, <1>u
<1>4. HeaderAt(End[s]) = {End[i] - End[s] : i \in here}
  BY <1>2 DEF HeaderAt
<1>5. HeaderAt(End[s]) = {ends[s + 1] - End[s]}
  BY <1>2, <1>3, <1>4
<1>6. ends[s + 1] - End[s] \in Length
  BY <1>1, <1>3 DEF Lengths
<1> QED BY <1>5, <1>6, GameNetAssumption

(* The tests of get_one_buf and remove_one_buf tell whether the next       *)
(* message, number s + 1, has arrived up to offset e.                      *)
LEMMA Tested ==
  ASSUME IInv, NEW s \in 0 .. Len(ends), NEW e \in Nat, End[s] <= e, e <= sent, After(End[s], e)
  PROVE  /\ pc' \in {"wait", "handle"}
         /\ pc' = "handle" => s < Len(ends) /\ ends[s + 1] <= e
         /\ pc' = "wait" /\ s < Len(ends) => ends[s + 1] > e
<1>t. TypeOK /\ Lengths /\ Rising /\ Aligned /\ Framed /\ NoneWaits /\ Whole
  BY DEF IInv
<1>u. /\ ends \in Seq(Nat) /\ seen \in Seq(Nat) /\ Len(ends) \in Nat /\ Len(seen) \in 0 .. Len(ends)
      /\ \A i \in 1 .. Len(ends) : End[i] = ends[i] /\ ends[i] \in Nat
      /\ \A i \in 0 .. Len(ends) : End[i] \in Nat
      /\ sent \in Nat /\ got \in Nat /\ first \in Nat
  BY EndTypes
<1> USE GameNetAssumption
<1>1. Len(ends) \in Nat /\ End[s] \in Nat
  BY <1>u
<1>2. CASE s < Len(ends)
  <2>0. s \in 0 .. Len(ends) - 1
    BY <1>1, <1>2
  <2>1. /\ HeaderAt(End[s]) = {ends[s + 1] - End[s]}
        /\ ends[s + 1] - End[s] \in Header .. (Space - Reserve)
    BY <2>0, NextHeader
  <2>2. ends[s + 1] \in Nat
    BY <1>1, <1>2, <1>u
  <2>3. pc' = IF e - End[s] >= Header /\ e - End[s] >= ends[s + 1] - End[s] THEN "handle" ELSE "wait"
    BY <2>1 DEF After
  <2> QED BY <1>1, <1>2, <2>1, <2>2, <2>3
<1>3. CASE s = Len(ends)
  <2>1. sent <= End[s]
    BY <1>3, <1>t DEF TypeOK, Total
  <2>2. e - End[s] = 0
    BY <1>1, <2>1, <1>u
  <2>3. pc' = "wait"
    BY <2>2 DEF After
  <2> QED BY <1>3, <2>3
<1> QED BY <1>1, <1>2, <1>3

LEMMA SendKeeps ==
  ASSUME IInv, NEW len \in Length, Send(len)
  PROVE  IInv'
<1>t. TypeOK /\ Lengths /\ Rising /\ Aligned /\ Framed /\ NoneWaits /\ Whole
  BY DEF IInv
<1>u. /\ ends \in Seq(Nat) /\ seen \in Seq(Nat) /\ Len(ends) \in Nat /\ Len(seen) \in 0 .. Len(ends)
      /\ \A i \in 1 .. Len(ends) : End[i] = ends[i] /\ ends[i] \in Nat
      /\ \A i \in 0 .. Len(ends) : End[i] \in Nat
      /\ sent \in Nat /\ got \in Nat /\ first \in Nat
  BY EndTypes
<1> USE GameNetAssumption
<1>1. /\ ends' = Append(ends, Total + len) /\ sent = Total /\ ~gone
      /\ UNCHANGED <<sent, gone, got, first, seen, pc>>
  BY DEF Send, receiver
<1>2. len \in Nat \ {0} /\ Total \in Nat
  BY <1>u DEF Total
<1>3. ends' \in Seq(Nat) /\ Len(ends') = Len(ends) + 1
  BY <1>1, <1>2, <1>u
<1>4. ends'[Len(ends) + 1] = Total + len /\ \A i \in 1 .. Len(ends) : ends'[i] = ends[i]
  BY <1>1, <1>2, <1>u
<1>5. /\ End'[Len(ends) + 1] = Total + len
      /\ \A i \in 0 .. Len(ends) : End'[i] = End[i]
  <2>1. End' = [i \in 0 .. Len(ends) + 1 |-> IF i = 0 THEN 0 ELSE ends'[i]]
    BY <1>3 DEF End
  <2>2. Len(ends) + 1 \in 0 .. Len(ends) + 1 /\ Len(ends) + 1 # 0
    BY <1>u
  <2>3. End'[Len(ends) + 1] = Total + len
    BY <1>4, <2>1, <2>2
  <2>4. ASSUME NEW i \in 0 .. Len(ends) PROVE End'[i] = End[i]
    <3>1. i \in 0 .. Len(ends) + 1 /\ (i # 0 => i \in 1 .. Len(ends))
      BY <1>u
    <3>2. End'[i] = IF i = 0 THEN 0 ELSE ends'[i]
      BY <2>1, <3>1
    <3>3. End[i] = IF i = 0 THEN 0 ELSE ends[i]
      BY DEF End
    <3> QED BY <1>4, <3>1, <3>2, <3>3
  <2> QED BY <2>3, <2>4
<1>6. Total' = Total + len
  BY <1>3, <1>5 DEF Total
<1>7. TypeOK'
  BY <1>1, <1>2, <1>3, <1>6, <1>t, <1>u DEF TypeOK
<1>8. Lengths'
  <2> SUFFICES ASSUME NEW i \in 1 .. Len(ends) + 1 PROVE ends'[i] - End'[i - 1] \in Length
    BY <1>3 DEF Lengths
  <2>1. CASE i = Len(ends) + 1
    <3>1. i - 1 = Len(ends) /\ End'[i - 1] = Total /\ ends'[i] = Total + len
      BY <1>4, <1>5, <2>1, <1>u DEF Total
    <3> QED BY <1>2, <3>1
  <2>2. CASE i \in 1 .. Len(ends)
    <3>1. i - 1 \in 0 .. Len(ends)
      BY <2>2, <1>u
    <3>2. End'[i - 1] = End[i - 1] /\ ends'[i] = ends[i]
      BY <1>4, <1>5, <2>2, <3>1
    <3> QED BY <2>2, <3>2, <1>t DEF Lengths
  <2>3. i = Len(ends) + 1 \/ i \in 1 .. Len(ends)
    BY <1>u
  <2> QED BY <2>1, <2>2, <2>3
<1>9. Rising'
  <2> SUFFICES ASSUME NEW i \in 0 .. Len(ends) + 1, NEW j \in 0 .. Len(ends) + 1, i < j
               PROVE  End'[i] < End'[j]
    BY <1>3 DEF Rising
  <2>1. CASE j = Len(ends) + 1
    <3>1. i \in 0 .. Len(ends) /\ End'[i] = End[i] /\ End[i] <= Total
      BY <1>5, <2>1, <1>t, <1>u DEF Rising, Total
    <3> QED BY <1>2, <1>5, <2>1, <3>1, <1>u
  <2>2. CASE j \in 0 .. Len(ends)
    <3>1. i \in 0 .. Len(ends)
      BY <2>2, <1>u
    <3>2. End'[i] = End[i] /\ End'[j] = End[j]
      BY <1>5, <2>2, <3>1
    <3> QED BY <2>2, <3>1, <3>2, <1>t DEF Rising
  <2> QED BY <2>1, <2>2, <1>u
<1>10. Aligned' /\ Framed'
  BY <1>1, <1>3, <1>4, <1>5, <1>t, <1>u DEF Aligned, Framed
<1>11. NoneWaits' /\ Whole'
  <2>1. ends'[Len(ends) + 1] > sent /\ got <= sent
    BY <1>1, <1>2, <1>4, <1>t, <1>u DEF TypeOK
  <2> QED BY <1>1, <1>3, <1>4, <2>1, <1>t, <1>u DEF NoneWaits, Whole
<1> QED BY <1>7, <1>8, <1>9, <1>10, <1>11 DEF IInv

LEMMA PushKeeps ==
  ASSUME IInv, NEW k \in 1 .. Socket, Push(k)
  PROVE  IInv'
<1>t. TypeOK /\ Lengths /\ Rising /\ Aligned /\ Framed /\ NoneWaits /\ Whole
  BY DEF IInv
<1>u. /\ ends \in Seq(Nat) /\ seen \in Seq(Nat) /\ Len(ends) \in Nat /\ Len(seen) \in 0 .. Len(ends)
      /\ \A i \in 1 .. Len(ends) : End[i] = ends[i] /\ ends[i] \in Nat
      /\ \A i \in 0 .. Len(ends) : End[i] \in Nat
      /\ sent \in Nat /\ got \in Nat /\ first \in Nat
  BY EndTypes
<1>1. /\ sent' = sent + k /\ sent + k <= Total /\ ~gone
      /\ UNCHANGED <<ends, gone, got, first, seen, pc>>
  BY DEF Push, receiver
<1>2. TypeOK'
  BY <1>1, GameNetAssumption, <1>t, <1>u DEF TypeOK, Total, End
<1> QED BY <1>1, <1>2, <1>t DEF IInv, Lengths, Rising, Aligned, Framed, NoneWaits, Whole, End

LEMMA ReadKeeps ==
  ASSUME IInv, NEW k \in 1 .. Socket, GetOneBuf(k)
  PROVE  IInv'
<1>t. TypeOK /\ Lengths /\ Rising /\ Aligned /\ Framed /\ NoneWaits /\ Whole
  BY DEF IInv
<1>u. /\ ends \in Seq(Nat) /\ seen \in Seq(Nat) /\ Len(ends) \in Nat /\ Len(seen) \in 0 .. Len(ends)
      /\ \A i \in 1 .. Len(ends) : End[i] = ends[i] /\ ends[i] \in Nat
      /\ \A i \in 0 .. Len(ends) : End[i] \in Nat
      /\ sent \in Nat /\ got \in Nat /\ first \in Nat
  BY EndTypes
<1> USE GameNetAssumption
<1>1. /\ pc = "wait" /\ k <= sent - got /\ k <= Leave(got - first) /\ got' = got + k
      /\ After(first, got + k)
      /\ UNCHANGED <<ends, sent, gone, first, seen>>
  BY DEF GetOneBuf, sender
<1>2. first = End[Len(seen)] /\ first <= got /\ got <= sent
  BY <1>t, <1>u DEF Aligned, TypeOK
<1>3. got + k \in Nat /\ first <= got + k /\ got + k <= sent /\ Len(seen) \in 0 .. Len(ends)
  BY <1>1, <1>2, <1>u
<1>4. /\ pc' \in {"wait", "handle"}
      /\ pc' = "handle" => Len(seen) < Len(ends) /\ ends[Len(seen) + 1] <= got + k
      /\ pc' = "wait" /\ Len(seen) < Len(ends) => ends[Len(seen) + 1] > got + k
  BY <1>1, <1>2, <1>3, Tested
<1>5. Total' = Total
  BY <1>1 DEF Total, End
<1>6. TypeOK'
  BY <1>1, <1>3, <1>4, <1>5, <1>t, <1>u DEF TypeOK, Leave
<1>7. Framed'
  BY <1>1, <1>3, <1>t, <1>u DEF Framed
<1>8. NoneWaits' /\ Whole'
  BY <1>1, <1>4 DEF NoneWaits, Whole
<1> QED BY <1>1, <1>6, <1>7, <1>8, <1>t DEF IInv, Lengths, Rising, Aligned, End

LEMMA HandleKeeps ==
  ASSUME IInv, Handle
  PROVE  IInv'
<1>t. TypeOK /\ Lengths /\ Rising /\ Aligned /\ Framed /\ NoneWaits /\ Whole
  BY DEF IInv
<1>u. /\ ends \in Seq(Nat) /\ seen \in Seq(Nat) /\ Len(ends) \in Nat /\ Len(seen) \in 0 .. Len(ends)
      /\ \A i \in 1 .. Len(ends) : End[i] = ends[i] /\ ends[i] \in Nat
      /\ \A i \in 0 .. Len(ends) : End[i] \in Nat
      /\ sent \in Nat /\ got \in Nat /\ first \in Nat
  BY EndTypes
<1> USE GameNetAssumption
<1> DEFINE s == Len(seen)
<1>0. /\ pc = "handle" /\ UNCHANGED <<ends, sent, gone, got>>
  BY DEF Handle, sender
<1>1. /\ pc = "handle" /\ s < Len(ends) /\ ends[s + 1] <= got /\ s \in Nat
      /\ s \in 0 .. Len(ends) - 1
      /\ UNCHANGED <<ends, sent, gone, got>>
  <2>1. s \in Nat
    BY <1>u
  <2>2. s < Len(ends) /\ ends[s + 1] <= got
    BY <1>0, <1>t DEF Whole
  <2> QED BY <1>0, <2>1, <2>2, <1>u
<1>2. first = End[s] /\ first <= got /\ got <= sent
  BY <1>t, <1>u DEF Aligned, TypeOK
<1>3. HeaderAt(first) = {ends[s + 1] - End[s]} /\ End[s + 1] = ends[s + 1] /\ ends[s + 1] \in Nat
  <2>1. s \in 0 .. Len(ends) - 1 /\ s + 1 \in 1 .. Len(ends)
    BY <1>1, <1>u
  <2>2. HeaderAt(End[s]) = {ends[s + 1] - End[s]}
    BY <2>1, NextHeader
  <2> QED BY <1>2, <2>1, <2>2, <1>u
<1>4. /\ seen' = Append(seen, ends[s + 1]) /\ first' = ends[s + 1]
      /\ After(ends[s + 1], got)
  BY <1>1, <1>2, <1>3, <1>u DEF Handle
<1>5. /\ seen' \in Seq(Nat) /\ Len(seen') = s + 1 /\ seen'[s + 1] = ends[s + 1]
      /\ \A i \in 1 .. s : seen'[i] = seen[i]
  BY <1>1, <1>3, <1>4, <1>u
<1>6. /\ pc' \in {"wait", "handle"}
      /\ pc' = "handle" => s + 1 < Len(ends) /\ ends[s + 2] <= got
      /\ pc' = "wait" /\ s + 1 < Len(ends) => ends[s + 2] > got
  <2>1. s + 1 \in 0 .. Len(ends) /\ (s + 1) + 1 = s + 2 /\ got \in Nat
    BY <1>1, <1>u
  <2> QED BY <1>1, <1>2, <1>3, <1>4, <2>1, Tested
<1>7. Total' = Total /\ End' = End
  BY <1>1 DEF Total, End
<1>8. End[s] < End[s + 1]
  <2>1. s \in 0 .. Len(ends) /\ s + 1 \in 0 .. Len(ends) /\ s < s + 1
    BY <1>1, <1>u
  <2> QED BY <2>1, <1>t DEF Rising
<1>9. TypeOK'
  <2>1. first' \in Nat /\ first < first' /\ first' <= got
    BY <1>1, <1>2, <1>3, <1>4, <1>8
  <2>2. Reserve + got - first' <= Space
    <3>1. Reserve + got - first <= Space /\ Reserve \in Nat /\ Space \in Nat
      BY <1>t DEF TypeOK
    <3>2. ASSUME NEW f \in Nat, first < f, Reserve + got - first <= Space, Reserve \in Nat, Space \in Nat
          PROVE  Reserve + got - f <= Space
      BY <3>2, <1>u
    <3> QED BY <2>1, <3>1, <3>2
  <2>3. first' \in 0 .. got
    BY <2>1, <1>u
  <2>4. /\ ends' = ends /\ sent' = sent /\ gone' = gone /\ got' = got
    BY <1>1
  <2>5. /\ ends' \in Seq(Nat) /\ sent' \in 0 .. Total' /\ got' \in 0 .. sent' /\ gone' \in BOOLEAN
    BY <2>4, <1>7, <1>t DEF TypeOK
  <2>6. first' \in 0 .. got' /\ Reserve + got' - first' <= Space
    BY <2>2, <2>3, <2>4
  <2> QED BY <2>5, <2>6, <1>5, <1>6 DEF TypeOK
<1>10. Aligned'
  BY <1>1, <1>3, <1>4, <1>5, <1>7 DEF Aligned
<1>11. Framed'
  BY <1>1, <1>5, <1>t, <1>u DEF Framed
<1>12. NoneWaits' /\ Whole'
  <2>1. Len(seen') + 1 = s + 2
    BY <1>1, <1>5
  <2> QED BY <1>1, <1>5, <1>6, <2>1 DEF NoneWaits, Whole
<1>13. Lengths' /\ Rising'
  BY <1>1, <1>t DEF Lengths, Rising, End
<1> QED BY <1>9, <1>10, <1>11, <1>12, <1>13 DEF IInv

(* A full buffer holds a whole message, so that the receiver never waits   *)
(* for one without room for it.                                            *)
LEMMA NeverFull ==
  ASSUME IInv, pc = "wait"
  PROVE  Leave(got - first) # 0
<1>t. TypeOK /\ Lengths /\ Rising /\ Aligned /\ Framed /\ NoneWaits /\ Whole
  BY DEF IInv
<1>u. /\ ends \in Seq(Nat) /\ seen \in Seq(Nat) /\ Len(ends) \in Nat /\ Len(seen) \in 0 .. Len(ends)
      /\ \A i \in 1 .. Len(ends) : End[i] = ends[i] /\ ends[i] \in Nat
      /\ \A i \in 0 .. Len(ends) : End[i] \in Nat
      /\ sent \in Nat /\ got \in Nat /\ first \in Nat
  BY EndTypes
<1> USE GameNetAssumption
<1> SUFFICES ASSUME Leave(got - first) = 0 PROVE FALSE
  OBVIOUS
<1>1. got - first = Space - Reserve /\ first = End[Len(seen)]
  BY <1>u DEF Leave, IInv, Aligned
<1>2. CASE Len(seen) < Len(ends)
  <2>1. /\ Len(seen) \in 0 .. Len(ends) - 1
        /\ ends[Len(seen) + 1] > got /\ ends[Len(seen) + 1] \in Nat
    BY <1>2, <1>t, <1>u DEF NoneWaits
  <2>2. ends[Len(seen) + 1] - first <= Space - Reserve
    BY <1>1, <2>1, NextHeader
  <2> QED BY <1>1, <2>1, <2>2, <1>u
<1>3. CASE Len(seen) = Len(ends)
  <2>1. got <= first
    BY <1>1, <1>3, <1>t, <1>u DEF TypeOK, Total
  <2> QED BY <1>1, <2>1, <1>u
<1> QED BY <1>2, <1>3, <1>u

LEMMA CloseKeeps ==
  ASSUME IInv, Close
  PROVE  IInv'
<1>t. TypeOK /\ Lengths /\ Rising /\ Aligned /\ Framed /\ NoneWaits /\ Whole
  BY DEF IInv
<1>u. /\ ends \in Seq(Nat) /\ seen \in Seq(Nat) /\ Len(ends) \in Nat /\ Len(seen) \in 0 .. Len(ends)
      /\ \A i \in 1 .. Len(ends) : End[i] = ends[i] /\ ends[i] \in Nat
      /\ \A i \in 0 .. Len(ends) : End[i] \in Nat
      /\ sent \in Nat /\ got \in Nat /\ first \in Nat
  BY EndTypes
<1>1. /\ pc = "wait" /\ pc' = "closed" /\ Over
      /\ UNCHANGED <<ends, sent, gone, got, first, seen>>
  BY DEF Close, sender
<1>2. gone /\ sent = got
  BY <1>1, NeverFull DEF Over
<1>3. TypeOK'
  BY <1>1, <1>t DEF TypeOK, Total, End
<1>4. NoneWaits' /\ Whole'
  BY <1>1, <1>2, <1>t DEF NoneWaits, Whole
<1> QED BY <1>1, <1>3, <1>4, <1>t DEF IInv, Lengths, Rising, Aligned, Framed, End

LEMMA StepKeeps ==
  ASSUME IInv, [Next]_vars
  PROVE  IInv'
<1>1. CASE Hangup
  <2>1. UNCHANGED <<ends, sent, got, first, seen, pc>> /\ gone' = TRUE
    BY <1>1 DEF Hangup, receiver
  <2>2. TypeOK'
    BY <2>1 DEF IInv, TypeOK, Total, End
  <2> QED BY <2>1, <2>2 DEF IInv, Lengths, Rising, Aligned, Framed, NoneWaits, Whole, End
<1>2. CASE UNCHANGED vars
  BY <1>2 DEF vars, sender, receiver, IInv, TypeOK, Total, End, Lengths, Rising, Aligned, Framed, NoneWaits, Whole
<1> QED BY <1>1, <1>2, SendKeeps, PushKeeps, ReadKeeps, HandleKeeps, CloseKeeps DEF Next

THEOREM Invariance == Spec => []IInv
<1>1. IInv /\ [Next]_vars => IInv'
  BY StepKeeps
<1> QED BY <1>1, InitHolds, PTL DEF Spec

(* The buffer of a connection is never written behind its end              *)
(* (get_one_buf).                                                          *)
THEOREM TypeCorrect == Spec => []TypeOK
BY Invariance, PTL DEF IInv

(* The handlers get whole messages, in the order they were sent            *)
(* (get_one_buf, remove_one_buf and the loops around them).                *)
THEOREM FramingCorrect == Spec => []Framed
BY Invariance, PTL DEF IInv

(* No message that has arrived is left in the buffer until another byte    *)
(* comes.                                                                  *)
THEOREM NoneWaitsCorrect == Spec => []NoneWaits
BY Invariance, PTL DEF IInv

(* The receiver closes a connection only after its sender, and has handled *)
(* everything that was sent whole.                                         *)
THEOREM NothingLostCorrect == Spec => []NothingLost
<1>1. ASSUME IInv, pc = "closed", NEW i \in 1 .. Len(ends), ends[i] <= sent
      PROVE  gone /\ i <= Len(seen)
  <2>1. gone /\ (Len(seen) < Len(ends) => ends[Len(seen) + 1] > sent)
    BY <1>1 DEF IInv, Whole
  <2>2. ASSUME i > Len(seen) PROVE FALSE
    <3>1. Len(seen) + 1 \in 1 .. i /\ End[i] = ends[i] /\ End[Len(seen) + 1] = ends[Len(seen) + 1]
      BY <1>1, <2>2, EndTypes
    <3>2. /\ Len(seen) + 1 \in 0 .. Len(ends) /\ i \in 0 .. Len(ends)
          /\ ends[Len(seen) + 1] \in Nat /\ ends[i] \in Nat /\ sent \in Nat
          /\ Len(seen) < Len(ends)
      BY <1>1, <2>2, <3>1, EndTypes
    <3>3. Len(seen) + 1 < i => End[Len(seen) + 1] < End[i]
      BY <1>1, <3>2 DEF IInv, Rising
    <3>4. Len(seen) + 1 = i => ends[Len(seen) + 1] = ends[i]
      OBVIOUS
    <3>5. ends[Len(seen) + 1] <= ends[i]
      BY <3>1, <3>2, <3>3, <3>4
    <3> QED BY <1>1, <2>1, <3>2, <3>5
  <2> QED BY <1>1, <2>1, <2>2, EndTypes
<1>2. IInv => NothingLost
  BY <1>1 DEF NothingLost, IInv, Whole
<1> QED BY <1>2, Invariance, PTL

-----------------------------------------------------------------------------
(* Loops: a function that is defined step by step exists.                  *)
LEMMA LeastNumber ==
  ASSUME NEW T \in SUBSET Nat, T # {}
  PROVE  \E m \in T : \A n \in T : m <= n
<1>1. PICK m \in T : \A n \in T : ~(<<n, m>> \in OpToRel(<, Nat))
  BY WFMin, NatLessThanWellFounded, Zenon
<1>2. \A n \in T : ~(n < m)
  BY <1>1, Zenon DEF OpToRel
<1> QED
  BY <1>2

Loop(g, n, X, x, R) ==
  /\ g \in [0 .. n -> X] /\ g[0] = x
  /\ \A i \in 1 .. n : g[i] = R[<<i, g[i - 1]>>]

LEMMA LoopExists ==
  ASSUME NEW n, n \in Nat, NEW X, NEW x, x \in X, NEW R, R \in [(1 .. n) \X X -> X]
  PROVE  \E g : Loop(g, n, X, x, R)
<1> DEFINE Runs(k) == \E g \in [0 .. k -> X] : g[0] = x /\ \A i \in 1 .. k : g[i] = R[<<i, g[i - 1]>>]
           T == {k \in 0 .. n : ~ Runs(k)}
<1>1. Runs(0)
  <2> DEFINE g == [i \in 0 .. 0 |-> x]
  <2>1. g \in [0 .. 0 -> X] /\ g[0] = x
    OBVIOUS
  <2>2. \A i \in 1 .. 0 : FALSE
    OBVIOUS
  <2> HIDE DEF g
  <2> QED
    BY <2>1, <2>2
<1>2. ASSUME NEW k \in 1 .. n, Runs(k - 1)
      PROVE  Runs(k)
  <2>1. PICK g \in [0 .. k - 1 -> X] : g[0] = x /\ \A i \in 1 .. k - 1 : g[i] = R[<<i, g[i - 1]>>]
    BY <1>2
  <2> DEFINE h == [i \in 0 .. k |-> IF i = k THEN R[<<k, g[k - 1]>>] ELSE g[i]]
  <2>2. k - 1 \in 0 .. k - 1 /\ g[k - 1] \in X /\ <<k, g[k - 1]>> \in (1 .. n) \X X
    BY <2>1
  <2>3. \A i \in 0 .. k : i # k => i \in 0 .. k - 1
    OBVIOUS
  <2>4. h \in [0 .. k -> X]
    BY <2>1, <2>2, <2>3
  <2>5. h[0] = x /\ h[k] = R[<<k, g[k - 1]>>] /\ h[k - 1] = g[k - 1]
    BY <2>1
  <2>6. ASSUME NEW i \in 1 .. k
        PROVE  h[i] = R[<<i, h[i - 1]>>]
    <3>1. CASE i = k
      BY <2>5, <3>1
    <3>2. CASE i # k
      <4>1. i \in 1 .. k - 1 /\ i \in 0 .. k /\ i - 1 \in 0 .. k /\ i - 1 # k
        BY <3>2
      <4>2. h[i] = g[i] /\ h[i - 1] = g[i - 1]
        BY <3>2, <4>1
      <4> QED
        BY <2>1, <4>1, <4>2
    <3> QED
      BY <3>1, <3>2
  <2> HIDE DEF h
  <2> QED
    BY <2>4, <2>5, <2>6
<1> HIDE DEF Runs
<1>3. T = {}
  <2>1. ASSUME T # {}
        PROVE  FALSE
    <3>1. T \in SUBSET Nat
      OBVIOUS
    <3>2. PICK k \in T : \A j \in T : k <= j
      BY <2>1, <3>1, LeastNumber
    <3>3. k \in 0 .. n /\ ~ Runs(k)
      OBVIOUS
    <3>4. k # 0 /\ k \in 1 .. n /\ k - 1 \in 0 .. n /\ ~ k <= k - 1
      BY <1>1, <3>3
    <3>5. Runs(k - 1)
      BY <3>2, <3>4
    <3> QED
      BY <1>2, <3>3, <3>4, <3>5
  <2> QED
    BY <2>1
<1>4. Runs(n)
  BY <1>3
<1> QED
  BY <1>4 DEF Runs, Loop

(* What holds at the start and is kept by a round holds in the end.        *)
LEMMA LoopKeeps ==
  ASSUME NEW n \in Nat, NEW Good, 0 \in Good,
         \A i \in 1 .. n : i - 1 \in Good => i \in Good
  PROVE  \A i \in 0 .. n : i \in Good
<1> DEFINE T == {k \in 0 .. n : k \notin Good}
<1>1. ASSUME T # {}
      PROVE  FALSE
  <2>1. T \in SUBSET Nat
    OBVIOUS
  <2>2. PICK k \in T : \A j \in T : k <= j
    BY <1>1, <2>1, LeastNumber
  <2>3. k \in 0 .. n /\ k \notin Good
    OBVIOUS
  <2>4. k \in 1 .. n /\ k - 1 \in 0 .. n /\ ~ k <= k - 1
    BY <2>3
  <2>5. k - 1 \in Good
    BY <2>2, <2>4
  <2> QED
    BY <2>3, <2>4, <2>5
<1> QED
  BY <1>1

-----------------------------------------------------------------------------
(* Queues of messages in the order of asking.                              *)
Ascending(s)   == \A i, j \in 1 .. Len(s) : i < j => s[i].no < s[j].no
Precedes(s, t) == \A i \in 1 .. Len(s), j \in 1 .. Len(t) : s[i].no < t[j].no
UpTo(s, n)     == \A i \in 1 .. Len(s) : s[i].no <= n

LEMMA SeqFacts ==
  ASSUME NEW s \in Seq(Message)
  PROVE  /\ Len(s) \in Nat /\ \A i \in 1 .. Len(s) : s[i] \in Message
         /\ \A m \in Message :
              /\ Append(s, m) \in Seq(Message) /\ Len(Append(s, m)) = Len(s) + 1
              /\ \A i \in 1 .. Len(s) + 1 : Append(s, m)[i] = IF i = Len(s) + 1 THEN m ELSE s[i]
         /\ s # << >> =>
              /\ Len(s) > 0 /\ Head(s) = s[1] /\ Head(s) \in Message
              /\ Tail(s) \in Seq(Message) /\ Len(Tail(s)) = Len(s) - 1
              /\ \A i \in 1 .. Len(s) - 1 : Tail(s)[i] = s[i + 1]
OBVIOUS

LEMMA Numbers == \A m \in Message : m.no \in Nat
BY DbLinkAssumption DEF Message

LEMMA Joined ==
  ASSUME NEW s \in Seq(Message), NEW t \in Seq(Message), Ascending(s), Ascending(t), Precedes(s, t)
  PROVE  /\ s \o t \in Seq(Message) /\ Ascending(s \o t)
         /\ \A u : Precedes(s, u) /\ Precedes(t, u) => Precedes(s \o t, u)
         /\ \A u : Precedes(u, s) /\ Precedes(u, t) => Precedes(u, s \o t)
<1>1. /\ Len(s) \in Nat /\ Len(t) \in Nat /\ s \o t \in Seq(Message) /\ Len(s \o t) = Len(s) + Len(t)
      /\ \A i \in 1 .. Len(s) + Len(t) : (s \o t)[i] = IF i <= Len(s) THEN s[i] ELSE t[i - Len(s)]
  OBVIOUS
<1> DEFINE w == s \o t
<1>2. \A i \in 1 .. Len(w) : \/ i \in 1 .. Len(s) /\ w[i] = s[i]
                             \/ i > Len(s) /\ i - Len(s) \in 1 .. Len(t) /\ w[i] = t[i - Len(s)]
  BY <1>1
<1> HIDE DEF w
<1>3. Ascending(w)
  <2> SUFFICES ASSUME NEW i \in 1 .. Len(w), NEW j \in 1 .. Len(w), i < j
               PROVE  w[i].no < w[j].no
    BY DEF Ascending
  <2>1. CASE i \in 1 .. Len(s) /\ w[i] = s[i] /\ j \in 1 .. Len(s) /\ w[j] = s[j]
    BY <2>1 DEF Ascending
  <2>2. CASE i \in 1 .. Len(s) /\ w[i] = s[i] /\ j - Len(s) \in 1 .. Len(t) /\ w[j] = t[j - Len(s)]
    BY <2>2 DEF Precedes
  <2>3. CASE /\ i > Len(s) /\ i - Len(s) \in 1 .. Len(t) /\ w[i] = t[i - Len(s)]
             /\ j - Len(s) \in 1 .. Len(t) /\ w[j] = t[j - Len(s)]
    <3>1. i - Len(s) < j - Len(s)
      BY <1>1
    <3> QED
      BY <2>3, <3>1 DEF Ascending
  <2> QED
    BY <1>1, <1>2, <2>1, <2>2, <2>3
<1>4. \A u : Precedes(s, u) /\ Precedes(t, u) => Precedes(w, u)
  BY <1>2 DEF Precedes
<1>5. \A u : Precedes(u, s) /\ Precedes(u, t) => Precedes(u, w)
  BY <1>2 DEF Precedes
<1> QED
  BY <1>1, <1>3, <1>4, <1>5 DEF w

(* FlattenSeq, step by step.                                               *)
LEMMA FlattenSteps ==
  ASSUME NEW n \in Nat, n # 0, NEW q \in [1 .. n -> Seq(Message)]
  PROVE  \E f : /\ FlattenSeq(q) = f[n] /\ f[1] = q[1]
                /\ \A i \in 2 .. n : f[i] = f[i - 1] \o q[i]
<1> DEFINE S == Seq(Message)
           R == [ix \in (1 .. n) \X S |-> ix[2] \o q[ix[1]]]
           Step(g) == [i \in 1 .. n |-> IF i = 1 THEN q[i] ELSE g[i - 1] \o q[i]]
           f == CHOOSE g : g = Step(g)
<1>1. Len(q) = n /\ Len(q) # 0
  <2>1. q \in Seq(Seq(Message))
    OBVIOUS
  <2>2. DOMAIN q = 1 .. n /\ DOMAIN q = 1 .. Len(q) /\ Len(q) \in Nat
    BY <2>1
  <2> QED
    BY <2>2
<1>2. FlattenSeq(q) = f[n]
  BY <1>1 DEF FlattenSeq
<1>3. R \in [(1 .. n) \X S -> S]
  <2>1. ASSUME NEW ix \in (1 .. n) \X S
        PROVE  ix[2] \o q[ix[1]] \in S
    BY ConcatProperties
  <2> QED
    BY <2>1
<1>4. \A i \in 1 .. n : \A x \in S : R[<<i, x>>] = x \o q[i]
  OBVIOUS
<1>5. << >> \in S
  OBVIOUS
<1> HIDE DEF R
<1>6. PICK h : Loop(h, n, S, << >>, R)
  BY <1>3, <1>5, LoopExists, Zenon
<1>7. \A i \in 1 .. n : i \in 0 .. n /\ i - 1 \in 0 .. n /\ (i # 1 => i - 1 \in 1 .. n)
  OBVIOUS
<1>8. \A i \in 1 .. n : h[i] = h[i - 1] \o q[i]
  BY <1>4, <1>6, <1>7 DEF Loop
<1>9. 1 \in 1 .. n /\ h[1] = q[1]
  <2>1. 1 \in 1 .. n /\ h[0] = << >> /\ 1 - 1 = 0
    BY <1>6 DEF Loop
  <2>2. h[1] = << >> \o q[1]
    BY <1>8, <2>1
  <2>3. q[1] \in S
    BY <2>1
  <2> QED
    BY <2>1, <2>2, <2>3
<1> DEFINE g == [i \in 1 .. n |-> h[i]]
<1>10. g = Step(g)
  <2>1. \A i \in 1 .. n : h[i] = IF i = 1 THEN q[i] ELSE g[i - 1] \o q[i]
    BY <1>7, <1>8, <1>9
  <2> QED
    BY <2>1
<1>11. f = Step(f)
  <2> HIDE DEF Step, g
  <2>1. \E x : x = Step(x)
    BY <1>10
  <2> QED
    BY <2>1, Zenon
<1> HIDE DEF f
<1>12. f[1] = q[1]
  BY <1>9, <1>11
<1>13. \A i \in 2 .. n : f[i] = f[i - 1] \o q[i]
  <2>1. \A i \in 2 .. n : i \in 1 .. n /\ i # 1
    OBVIOUS
  <2> QED
    BY <1>11, <2>1
<1> QED
  BY <1>2, <1>12, <1>13

Flat(x, i, n, q) ==
  /\ x \in Seq(Message) /\ Ascending(x)
  /\ \A j \in i + 1 .. n : Precedes(x, q[j])
  /\ \A s \in Seq(Message) : (\A j \in 1 .. n : Precedes(s, q[j])) => Precedes(s, x)

LEMMA Flattened ==
  ASSUME NEW n \in Nat, NEW q \in [1 .. n -> Seq(Message)],
         \A i \in 1 .. n : Ascending(q[i]), \A i, j \in 1 .. n : i < j => Precedes(q[i], q[j])
  PROVE  Flat(FlattenSeq(q), n, n, q)
<1>1. CASE n = 0
  <2>1. q \in Seq(Message) /\ Len(q) = 0
    <3>1. q = << >>
      BY <1>1
    <3> QED
      BY <3>1
  <2>2. FlattenSeq(q) = q
    BY <2>1 DEF FlattenSeq
  <2> QED
    BY <1>1, <2>1, <2>2 DEF Flat, Ascending, Precedes
<1>2. CASE n # 0
  <2>1. PICK f : /\ FlattenSeq(q) = f[n] /\ f[1] = q[1]
                 /\ \A i \in 2 .. n : f[i] = f[i - 1] \o q[i]
    BY <1>2, FlattenSteps
  <2> DEFINE Good == {i \in 0 .. n : i = 0 \/ Flat(f[i], i, n, q)}
  <2>2. 0 \in Good
    OBVIOUS
  <2>3. ASSUME NEW i \in 1 .. n, i - 1 \in Good
        PROVE  i \in Good
    <3>1. CASE i = 1
      <4>1. Flat(f[i], i, n, q)
        BY <2>1, <3>1 DEF Flat
      <4> QED
        BY <3>1, <4>1
    <3>2. CASE i # 1
      <4>1. Flat(f[i - 1], i - 1, n, q) /\ i \in 2 .. n /\ i \in i - 1 + 1 .. n
        BY <2>3, <3>2
      <4>2. f[i] = f[i - 1] \o q[i] /\ f[i - 1] \in Seq(Message) /\ q[i] \in Seq(Message) /\ Ascending(q[i])
            /\ Ascending(f[i - 1]) /\ Precedes(f[i - 1], q[i])
        BY <2>1, <4>1 DEF Flat
      <4>3. /\ f[i] \in Seq(Message) /\ Ascending(f[i])
            /\ \A u : Precedes(f[i - 1], u) /\ Precedes(q[i], u) => Precedes(f[i], u)
            /\ \A u : Precedes(u, f[i - 1]) /\ Precedes(u, q[i]) => Precedes(u, f[i])
        BY <4>2, Joined, Zenon
      <4>4. \A j \in i + 1 .. n : Precedes(f[i], q[j])
        <5>1. \A j \in i + 1 .. n : j \in i - 1 + 1 .. n /\ j \in 1 .. n /\ i < j
          OBVIOUS
        <5> QED
          BY <4>1, <4>3, <5>1 DEF Flat
      <4>5. \A s \in Seq(Message) : (\A j \in 1 .. n : Precedes(s, q[j])) => Precedes(s, f[i])
        BY <4>1, <4>3 DEF Flat
      <4>6. Flat(f[i], i, n, q)
        BY <4>3, <4>4, <4>5 DEF Flat
      <4> QED
        BY <4>6
    <3> QED
      BY <3>1, <3>2
  <2> HIDE DEF Good
  <2>4. n \in Good
    <3>1. \A i \in 0 .. n : i \in Good
      BY <2>2, <2>3, LoopKeeps
    <3> QED
      BY <3>1
  <2> QED
    BY <1>2, <2>1, <2>4 DEF Good
<1> QED
  BY <1>1, <1>2

-----------------------------------------------------------------------------
(* Everything between game_srv and db_srv as queues one behind the other,  *)
(* and what the actions of DbLink do to such a row of queues.              *)
Places == 1 .. 3 + MaxProc
Rows   == [Places -> Seq(Message)]

Before(k, i, l, j) == k < l \/ (k = l /\ i < j)

InOrder(P, n) ==
  \A k \in Places : \A i \in 1 .. Len(P[k]) :
    /\ P[k][i].no <= n
    /\ \A l \in Places : \A j \in 1 .. Len(P[l]) :
         Before(k, i, l, j) => P[k][i].no < P[l][j].no

(* The first message of one queue becomes the last of an earlier one.      *)
Moved(P, Q, a, b) ==
  /\ P[b] # << >> /\ \A k \in Places : a < k /\ k < b => P[k] = << >>
  /\ Q[a] = Append(P[a], Head(P[b])) /\ Q[b] = Tail(P[b])
  /\ \A k \in Places : k # a /\ k # b => Q[k] = P[k]

(* A queue becomes empty, or loses its first message.                      *)
Shrunk(P, Q) ==
  \A k \in Places : Q[k] = P[k] \/ Q[k] = << >> \/ (P[k] # << >> /\ Q[k] = Tail(P[k]))

(* The next message is added at the end.                                   *)
Added(P, Q, a, m) ==
  /\ \A k \in Places : a < k => P[k] = << >>
  /\ Q[a] = Append(P[a], m)
  /\ \A k \in Places : k # a => Q[k] = P[k]

(* A queue takes the place of an empty one before it.                      *)
Shifted(P, Q, a, b) ==
  /\ P[a] = << >> /\ \A k \in Places : a < k /\ k < b => P[k] = << >>
  /\ Q[a] = P[b] /\ Q[b] = << >>
  /\ \A k \in Places : k # a /\ k # b => Q[k] = P[k]

LEMMA Entries ==
  ASSUME NEW P \in Rows, NEW k \in Places
  PROVE  /\ Len(P[k]) \in Nat /\ P[k] \in Seq(Message)
         /\ \A i \in 1 .. Len(P[k]) : P[k][i].no \in Nat /\ i \in Nat
BY SeqFacts, Numbers DEF Rows

LEMMA MoveKeeps ==
  ASSUME NEW P \in Rows, NEW Q \in Rows, NEW n \in Nat, NEW a \in Places, NEW b \in Places,
         a < b, InOrder(P, n), Moved(P, Q, a, b)
  PROVE  InOrder(Q, n)
<1>1. /\ Len(P[a]) \in Nat /\ Len(P[b]) \in Nat /\ Len(P[b]) > 0 /\ 1 \in 1 .. Len(P[b])
      /\ Len(Q[a]) = Len(P[a]) + 1 /\ Q[a][Len(P[a]) + 1] = P[b][1]
      /\ \A i \in 1 .. Len(P[a]) : Q[a][i] = P[a][i]
      /\ Len(Q[b]) = Len(P[b]) - 1
      /\ \A i \in 1 .. Len(P[b]) - 1 : Q[b][i] = P[b][i + 1]
  <2>1. P[a] \in Seq(Message) /\ P[b] \in Seq(Message) /\ P[b] # << >>
    BY DEF Rows, Moved
  <2>2. /\ Len(P[b]) \in Nat /\ Len(P[b]) > 0 /\ Head(P[b]) = P[b][1] /\ Head(P[b]) \in Message
        /\ Len(Tail(P[b])) = Len(P[b]) - 1
        /\ \A i \in 1 .. Len(P[b]) - 1 : Tail(P[b])[i] = P[b][i + 1]
    BY <2>1, SeqFacts
  <2>3. /\ Len(P[a]) \in Nat /\ Len(Append(P[a], Head(P[b]))) = Len(P[a]) + 1
        /\ \A i \in 1 .. Len(P[a]) + 1 :
             Append(P[a], Head(P[b]))[i] = IF i = Len(P[a]) + 1 THEN Head(P[b]) ELSE P[a][i]
    BY <2>1, <2>2, SeqFacts
  <2> QED
    BY <2>2, <2>3 DEF Moved
<1> DEFINE A(k, i) == k # b /\ i \in 1 .. Len(P[k]) /\ Q[k][i] = P[k][i]
           B(k, i) == k = a /\ i = Len(P[a]) + 1 /\ Q[k][i] = P[b][1]
           C(k, i) == k = b /\ i + 1 \in 1 .. Len(P[b]) /\ Q[k][i] = P[b][i + 1]
<1>2. ASSUME NEW k \in Places, NEW i \in 1 .. Len(Q[k])
      PROVE  A(k, i) \/ B(k, i) \/ C(k, i)
  <2>1. CASE k # a /\ k # b
    BY <2>1 DEF Moved
  <2>2. CASE k = a
    <3>1. i \in 1 .. Len(P[a]) + 1
      BY <1>1, <2>2
    <3>2. CASE i = Len(P[a]) + 1
      BY <1>1, <2>2, <3>2
    <3>3. CASE i \in 1 .. Len(P[a])
      <4>1. k # b
        BY <2>2 DEF Places
      <4> QED
        BY <1>1, <2>2, <3>3, <4>1
    <3> QED
      BY <1>1, <3>1, <3>2, <3>3
  <2>3. CASE k = b
    <3>1. i \in 1 .. Len(P[b]) - 1 /\ i + 1 \in 1 .. Len(P[b])
      BY <1>1, <2>3
    <3> QED
      BY <1>1, <2>3, <3>1
  <2> QED
    BY <2>1, <2>2, <2>3
<1>3. \A k \in Places : a < k /\ k < b => Len(P[k]) = 0
  BY DEF Moved
<1> SUFFICES ASSUME NEW k \in Places, NEW i \in 1 .. Len(Q[k])
             PROVE  /\ Q[k][i].no <= n
                    /\ \A l \in Places : \A j \in 1 .. Len(Q[l]) :
                         Before(k, i, l, j) => Q[k][i].no < Q[l][j].no
  BY DEF InOrder
<1>4. Q[k][i].no <= n
  BY <1>1, <1>2 DEF InOrder
<1>5. ASSUME NEW l \in Places, NEW j \in 1 .. Len(Q[l]), Before(k, i, l, j)
      PROVE  Q[k][i].no < Q[l][j].no
  <2>1. k \in Nat /\ l \in Nat /\ a \in Nat /\ b \in Nat /\ i \in Nat /\ j \in Nat
    BY Entries DEF Places
  <2>2. CASE A(k, i) /\ A(l, j)
    BY <1>5, <2>2 DEF InOrder
  <2>3. CASE A(k, i) /\ B(l, j)
    <3>1. Before(k, i, b, 1)
      BY <1>5, <2>1, <2>3 DEF Before
    <3> QED
      BY <1>1, <2>3, <3>1 DEF InOrder
  <2>4. CASE A(k, i) /\ C(l, j)
    <3>1. Before(k, i, b, j + 1)
      BY <1>5, <2>1, <2>4 DEF Before
    <3> QED
      BY <1>1, <2>4, <3>1 DEF InOrder
  <2>5. CASE B(k, i) /\ A(l, j)
    <3>1. Before(b, 1, l, j)
      BY <1>1, <1>3, <1>5, <2>1, <2>5 DEF Before
    <3> QED
      BY <1>1, <2>5, <3>1 DEF InOrder
  <2>6. CASE B(k, i) /\ B(l, j)
    BY <1>5, <2>1, <2>6 DEF Before
  <2>7. CASE B(k, i) /\ C(l, j)
    <3>1. Before(b, 1, b, j + 1)
      BY <1>5, <2>1, <2>7 DEF Before
    <3> QED
      BY <1>1, <2>7, <3>1 DEF InOrder
  <2>8. CASE C(k, i) /\ A(l, j)
    <3>1. Before(b, i + 1, l, j)
      BY <1>5, <2>1, <2>8 DEF Before
    <3> QED
      BY <2>8, <3>1 DEF InOrder
  <2>9. CASE C(k, i) /\ B(l, j)
    BY <1>5, <2>1, <2>9 DEF Before
  <2>10. CASE C(k, i) /\ C(l, j)
    <3>1. Before(b, i + 1, b, j + 1)
      BY <1>5, <2>1, <2>10 DEF Before
    <3> QED
      BY <2>10, <3>1 DEF InOrder
  <2> HIDE DEF A, B, C
  <2> QED
    BY <1>2, <2>2, <2>3, <2>4, <2>5, <2>6, <2>7, <2>8, <2>9, <2>10
<1> QED
  BY <1>4, <1>5

LEMMA ShrinkKeeps ==
  ASSUME NEW P \in Rows, NEW Q \in Rows, NEW n \in Nat, InOrder(P, n), Shrunk(P, Q)
  PROVE  InOrder(Q, n)
<1>1. ASSUME NEW k \in Places
      PROVE  \E d \in {0, 1} : \A i \in 1 .. Len(Q[k]) :
               i \in Nat /\ i + d \in 1 .. Len(P[k]) /\ Q[k][i] = P[k][i + d]
  <2>1. P[k] \in Seq(Message) /\ Q[k] \in Seq(Message)
    BY DEF Rows
  <2>2. CASE Q[k] = P[k]
    <3>1. \A i \in 1 .. Len(Q[k]) : i \in Nat /\ i + 0 \in 1 .. Len(P[k]) /\ Q[k][i] = P[k][i + 0]
      BY <2>1, <2>2
    <3> QED
      BY <3>1
  <2>3. CASE Q[k] = << >>
    BY <2>3
  <2>4. CASE P[k] # << >> /\ Q[k] = Tail(P[k])
    <3>1. Len(P[k]) \in Nat /\ Len(Q[k]) = Len(P[k]) - 1 /\ \A i \in 1 .. Len(P[k]) - 1 : Q[k][i] = P[k][i + 1]
      BY <2>1, <2>4, SeqFacts
    <3>2. \A i \in 1 .. Len(Q[k]) : i \in Nat /\ i + 1 \in 1 .. Len(P[k]) /\ Q[k][i] = P[k][i + 1]
      BY <3>1
    <3> QED
      BY <3>2
  <2> QED
    BY <2>2, <2>3, <2>4 DEF Shrunk
<1>2. ASSUME NEW k \in Places, NEW i \in 1 .. Len(Q[k])
      PROVE  Q[k][i].no <= n
  BY <1>1 DEF InOrder
<1>3. ASSUME NEW k \in Places, NEW i \in 1 .. Len(Q[k]), NEW l \in Places, NEW j \in 1 .. Len(Q[l]),
             Before(k, i, l, j)
      PROVE  Q[k][i].no < Q[l][j].no
  <2>1. PICK d \in {0, 1} : \A x \in 1 .. Len(Q[k]) :
               x \in Nat /\ x + d \in 1 .. Len(P[k]) /\ Q[k][x] = P[k][x + d]
    BY <1>1
  <2>2. PICK e \in {0, 1} : \A x \in 1 .. Len(Q[l]) :
               /\ x \in Nat /\ x + e \in 1 .. Len(P[l]) /\ Q[l][x] = P[l][x + e]
               /\ (k = l => d = e)
    <3>1. CASE k = l
      BY <2>1, <3>1
    <3>2. CASE k # l
      BY <1>1, <3>2
    <3> QED
      BY <3>1, <3>2
  <2>3. Before(k, i + d, l, j + e)
    <3>1. k = l => i < j
      BY <1>3 DEF Before, Places
    <3>2. i \in Nat /\ j \in Nat /\ d \in Nat /\ e \in Nat /\ (k = l => d = e)
      BY <2>1, <2>2
    <3>3. k = l => i + d < j + e
      BY <3>1, <3>2
    <3> QED
      BY <1>3, <3>3 DEF Before
  <2> QED
    BY <2>1, <2>2, <2>3 DEF InOrder
<1> QED
  BY <1>2, <1>3 DEF InOrder

LEMMA AddKeeps ==
  ASSUME NEW P \in Rows, NEW Q \in Rows, NEW n \in Nat, NEW a \in Places, NEW m \in Message,
         InOrder(P, n), Added(P, Q, a, m), m.no = n + 1
  PROVE  InOrder(Q, n + 1)
<1>1. /\ Len(P[a]) \in Nat /\ Len(Q[a]) = Len(P[a]) + 1 /\ Q[a][Len(P[a]) + 1] = m
      /\ \A i \in 1 .. Len(P[a]) : Q[a][i] = P[a][i]
  <2>1. P[a] \in Seq(Message)
    BY DEF Rows
  <2>2. /\ Len(P[a]) \in Nat /\ Len(Append(P[a], m)) = Len(P[a]) + 1
        /\ \A i \in 1 .. Len(P[a]) + 1 : Append(P[a], m)[i] = IF i = Len(P[a]) + 1 THEN m ELSE P[a][i]
    BY <2>1, SeqFacts
  <2> QED
    BY <2>2 DEF Added
<1> DEFINE A(k, i) == i \in 1 .. Len(P[k]) /\ Q[k][i] = P[k][i]
           B(k, i) == k = a /\ i = Len(P[a]) + 1 /\ Q[k][i] = m
<1>2. ASSUME NEW k \in Places, NEW i \in 1 .. Len(Q[k])
      PROVE  A(k, i) \/ B(k, i)
  <2>1. CASE k # a
    BY <2>1 DEF Added
  <2>2. CASE k = a
    <3>1. i \in 1 .. Len(P[a]) + 1
      BY <1>1, <2>2
    <3>2. CASE i = Len(P[a]) + 1
      BY <1>1, <2>2, <3>2
    <3>3. CASE i \in 1 .. Len(P[a])
      BY <1>1, <2>2, <3>3
    <3> QED
      BY <1>1, <3>1, <3>2, <3>3
  <2> QED
    BY <2>1, <2>2
<1>3. \A k \in Places : a < k => Len(P[k]) = 0
  BY DEF Added
<1> SUFFICES ASSUME NEW k \in Places, NEW i \in 1 .. Len(Q[k])
             PROVE  /\ Q[k][i].no <= n + 1
                    /\ \A l \in Places : \A j \in 1 .. Len(Q[l]) :
                         Before(k, i, l, j) => Q[k][i].no < Q[l][j].no
  BY DEF InOrder
<1>4. \A l \in Places : \A j \in 1 .. Len(P[l]) : P[l][j].no \in Nat /\ P[l][j].no <= n
  BY Entries DEF InOrder
<1>5. Q[k][i].no <= n + 1
  BY <1>2, <1>4
<1>6. ASSUME NEW l \in Places, NEW j \in 1 .. Len(Q[l]), Before(k, i, l, j)
      PROVE  Q[k][i].no < Q[l][j].no
  <2>1. k \in Nat /\ l \in Nat /\ a \in Nat /\ i \in Nat /\ j \in Nat
    BY Entries DEF Places
  <2>2. CASE A(k, i) /\ A(l, j)
    BY <1>6, <2>2 DEF InOrder
  <2>3. CASE A(k, i) /\ B(l, j)
    BY <1>4, <2>3
  <2>4. CASE B(k, i)
    <3>1. ~ A(l, j)
      BY <1>1, <1>3, <1>6, <2>1, <2>4 DEF Before
    <3>2. ~ B(l, j)
      BY <1>6, <2>1, <2>4 DEF Before
    <3> QED
      BY <1>2, <3>1, <3>2
  <2> HIDE DEF A, B
  <2> QED
    BY <1>2, <2>2, <2>3, <2>4
<1> QED
  BY <1>5, <1>6

LEMMA ShiftKeeps ==
  ASSUME NEW P \in Rows, NEW Q \in Rows, NEW n \in Nat, NEW a \in Places, NEW b \in Places,
         a < b, InOrder(P, n), Shifted(P, Q, a, b)
  PROVE  InOrder(Q, n)
<1> DEFINE A(k, i) == k # a /\ i \in 1 .. Len(P[k]) /\ Q[k][i] = P[k][i]
           B(k, i) == k = a /\ i \in 1 .. Len(P[b]) /\ Q[k][i] = P[b][i]
<1>1. ASSUME NEW k \in Places, NEW i \in 1 .. Len(Q[k])
      PROVE  k # b /\ (A(k, i) \/ B(k, i))
  BY DEF Shifted, Places
<1>2. \A k \in Places : a < k /\ k < b => Len(P[k]) = 0
  BY DEF Shifted
<1> SUFFICES ASSUME NEW k \in Places, NEW i \in 1 .. Len(Q[k])
             PROVE  /\ Q[k][i].no <= n
                    /\ \A l \in Places : \A j \in 1 .. Len(Q[l]) :
                         Before(k, i, l, j) => Q[k][i].no < Q[l][j].no
  BY DEF InOrder
<1>3. Q[k][i].no <= n
  BY <1>1 DEF InOrder
<1>4. ASSUME NEW l \in Places, NEW j \in 1 .. Len(Q[l]), Before(k, i, l, j)
      PROVE  Q[k][i].no < Q[l][j].no
  <2>1. k \in Nat /\ l \in Nat /\ a \in Nat /\ b \in Nat /\ i \in Nat /\ j \in Nat /\ k # b /\ l # b
    BY <1>1, Entries DEF Places
  <2>2. CASE A(k, i) /\ A(l, j)
    BY <1>4, <2>2 DEF InOrder
  <2>3. CASE A(k, i) /\ B(l, j)
    <3>1. Before(k, i, b, j)
      BY <1>4, <2>1, <2>3 DEF Before
    <3> QED
      BY <2>3, <3>1 DEF InOrder
  <2>4. CASE B(k, i) /\ A(l, j)
    <3>1. Before(b, i, l, j)
      BY <1>2, <1>4, <2>1, <2>4 DEF Before
    <3> QED
      BY <2>4, <3>1 DEF InOrder
  <2>5. CASE B(k, i) /\ B(l, j)
    <3>1. Before(b, i, b, j)
      BY <1>4, <2>1, <2>5 DEF Before
    <3> QED
      BY <2>5, <3>1 DEF InOrder
  <2> HIDE DEF A, B
  <2> QED
    BY <1>1, <2>2, <2>3, <2>4, <2>5
<1> QED
  BY <1>3, <1>4

-----------------------------------------------------------------------------
(* DbLink.                                                                 *)
Parts ==
  [k \in Places |-> CASE k = 1 -> heard [] k = 2 -> ans [] k = 3 -> cache [] OTHER -> req[k - 3]]

(* Game servers reach db_srv in the order in which they were started, the  *)
(* one with the slot before all that wait.                                 *)
Queueing ==
  /\ \A i \in 1 .. Len(waiting) : slot < waiting[i] /\ waiting[i] <= proc
  /\ \A i, j \in 1 .. Len(waiting) : i < j => waiting[i] < waiting[j]

OnlyTheLast ==
  \A p \in Process : (p > proc => state[p] = "none") /\ (state[p] = "up" => p = proc)

Emptied ==
  /\ slot # proc => ans = << >>
  /\ slot # 0 => (state[slot] = "up" => cache = << >>)
  /\ \A p \in Process : req[p] # << >> => Linked(p)

LinkInv == LinkTypeOK /\ Queueing /\ OnlyTheLast /\ Emptied /\ InOrder(Parts, asked)

LEMMA PartsAre ==
  LinkTypeOK =>
    /\ Parts \in Rows
    /\ Parts[1] = heard /\ Parts[2] = ans /\ Parts[3] = cache
    /\ \A k \in Places : k # 1 /\ k # 2 /\ k # 3 => k - 3 \in Process /\ Parts[k] = req[k - 3]
<1> SUFFICES ASSUME LinkTypeOK
             PROVE  /\ Parts \in Rows
                    /\ Parts[1] = heard /\ Parts[2] = ans /\ Parts[3] = cache
                    /\ \A k \in Places : k # 1 /\ k # 2 /\ k # 3 => k - 3 \in Process /\ Parts[k] = req[k - 3]
  OBVIOUS
<1>1. /\ 1 \in Places /\ 2 \in Places /\ 3 \in Places
      /\ \A k \in Places : k # 1 /\ k # 2 /\ k # 3 => k - 3 \in Process
  BY DbLinkAssumption DEF Places, Process
<1>2. \A k \in Places : Parts[k] = CASE k = 1 -> heard [] k = 2 -> ans [] k = 3 -> cache [] OTHER -> req[k - 3]
  BY Zenon DEF Parts
<1>3. /\ Parts[1] = heard /\ Parts[2] = ans /\ Parts[3] = cache
      /\ \A k \in Places : k # 1 /\ k # 2 /\ k # 3 => Parts[k] = req[k - 3]
  BY <1>1, <1>2
<1>4. \A k \in Places : Parts[k] \in Seq(Message)
  BY <1>1, <1>3 DEF LinkTypeOK
<1>5. \A k \in Places :
        (CASE k = 1 -> heard [] k = 2 -> ans [] k = 3 -> cache [] OTHER -> req[k - 3]) \in Seq(Message)
  BY <1>2, <1>4
<1>6. Parts \in [Places -> Seq(Message)]
  BY <1>5, Zenon DEF Parts
<1> QED
  BY <1>1, <1>3, <1>6 DEF Rows

LEMMA PlaceOf ==
  /\ 1 \in Places /\ 2 \in Places /\ 3 \in Places
  /\ \A p \in Process : p + 3 \in Places /\ p + 3 - 3 = p /\ p + 3 > 3 /\ p \in Nat /\ p # 0
  /\ \A k \in Places : k # 1 /\ k # 2 /\ k # 3 => k > 3 /\ k - 3 \in Process /\ k = (k - 3) + 3
BY DbLinkAssumption DEF Places, Process

LEMMA LinkedIs == \A p : Linked(p) <=> slot = p \/ \E i \in 1 .. Len(waiting) : waiting[i] = p
BY DEF Linked, Contains

LEMMA LinkedAfter == \A p : Linked(p)' <=> slot' = p \/ \E i \in 1 .. Len(waiting') : waiting'[i] = p
<1>1. (\A p : Linked(p) <=> slot = p \/ \E i \in 1 .. Len(waiting) : waiting[i] = p)'
  BY LinkedIs, PTL
<1> QED
  BY <1>1

LEMMA LinkInitHolds == LinkInit => LinkInv
<1> SUFFICES ASSUME LinkInit
             PROVE  LinkInv
  OBVIOUS
<1>1. LinkTypeOK
  BY DbLinkAssumption DEF LinkInit, LinkTypeOK, Running
<1>2. Queueing /\ OnlyTheLast
  BY DEF LinkInit, Queueing, OnlyTheLast
<1>3. Emptied
  BY DEF LinkInit, Emptied
<1>4. \A k \in Places : Len(Parts[k]) = 0
  BY <1>1, PartsAre DEF LinkInit
<1> QED
  BY <1>1, <1>2, <1>3, <1>4 DEF LinkInv, InOrder

LEMMA PartsAfter ==
  ASSUME LinkTypeOK'
  PROVE  /\ Parts' \in Rows
         /\ Parts'[1] = heard' /\ Parts'[2] = ans' /\ Parts'[3] = cache'
         /\ \A k \in Places : k # 1 /\ k # 2 /\ k # 3 => k - 3 \in Process /\ Parts'[k] = req'[k - 3]
<1>1. (/\ Parts \in Rows
       /\ Parts[1] = heard /\ Parts[2] = ans /\ Parts[3] = cache
       /\ \A k \in Places : k # 1 /\ k # 2 /\ k # 3 => k - 3 \in Process /\ Parts[k] = req[k - 3])'
  BY PartsAre, PTL
<1> QED
  BY <1>1

LEMMA RequestPart == LinkTypeOK => \A p \in Process : Parts[p + 3] = req[p]
<1> SUFFICES ASSUME LinkTypeOK, NEW p \in Process, NEW k, k = p + 3
             PROVE  Parts[k] = req[p]
  BY Zenon
<1>1. k \in Places /\ k # 1 /\ k # 2 /\ k # 3 /\ k - 3 = p
  BY PlaceOf
<1>2. Parts[k] = req[k - 3]
  BY <1>1, PartsAre, Zenon
<1> QED
  BY <1>1, <1>2

LEMMA RequestPartAfter == LinkTypeOK' => \A p \in Process : Parts'[p + 3] = req'[p]
<1>1. (LinkTypeOK => \A p \in Process : Parts[p + 3] = req[p])'
  BY RequestPart, PTL
<1> QED
  BY <1>1

LEMMA StartKeeps == LinkInv /\ Start => LinkInv'
<1> SUFFICES ASSUME LinkInv, Start
             PROVE  LinkInv'
  OBVIOUS
<1> USE DEF LinkInv
<1>1. /\ proc \in Nat /\ proc + 1 \in Process /\ slot \in Nat /\ slot <= proc /\ ans = << >>
      /\ waiting \in Seq(Process) /\ waiting' = Append(waiting, proc + 1) /\ Len(waiting) \in Nat
      /\ state \in [Process -> {"none", "up", "fin", "reset"}] /\ MaxProc \in Nat
  BY DbLinkAssumption DEF LinkTypeOK, Start, Process
<1>2. /\ Len(waiting') = Len(waiting) + 1
      /\ \A i \in 1 .. Len(waiting) : waiting'[i] = waiting[i] /\ waiting[i] \in Process
      /\ waiting'[Len(waiting) + 1] = proc + 1
  BY <1>1
<1>3. LinkTypeOK'
  <2>1. waiting' \in Seq(Process)
    BY <1>1
  <2>2. proc' \in 0 .. MaxProc /\ slot' \in 0 .. proc' /\ heard' \in Seq(Message) /\ ans' = << >>
    BY <1>1 DEF Start, LinkTypeOK
  <2> QED
    BY <1>1, <2>1, <2>2 DEF Start, LinkTypeOK
<1>4. Queueing'
  <2>1. \A i \in 1 .. Len(waiting') : i \in 1 .. Len(waiting) \/ i = Len(waiting) + 1
    BY <1>1, <1>2
  <2>2. \A i \in 1 .. Len(waiting') : slot' < waiting'[i] /\ waiting'[i] <= proc'
    BY <1>1, <1>2, <2>1 DEF Queueing, Start, Process
  <2>3. \A i, j \in 1 .. Len(waiting') : i < j => waiting'[i] < waiting'[j]
    <3> SUFFICES ASSUME NEW i \in 1 .. Len(waiting'), NEW j \in 1 .. Len(waiting'), i < j
                 PROVE  waiting'[i] < waiting'[j]
      OBVIOUS
    <3>1. i \in 1 .. Len(waiting)
      BY <1>1, <1>2
    <3> QED
      BY <1>1, <1>2, <2>1, <3>1 DEF Queueing, Process
  <2> QED
    BY <2>2, <2>3 DEF Queueing
<1>5. OnlyTheLast'
  BY <1>1 DEF OnlyTheLast, Start, Running, Process
<1>6. Emptied'
  <2>1. \A p \in Process : Linked(p) => Linked(p)'
    <3>1. slot' = slot /\ \A i \in 1 .. Len(waiting) : i \in 1 .. Len(waiting')
      BY <1>1, <1>2 DEF Start
    <3> QED
      BY <1>2, <3>1, LinkedIs, LinkedAfter
  <2>2. slot # 0 => slot \in Process /\ state'[slot] = state[slot]
    BY <1>1 DEF Start, Process
  <2> QED
    BY <1>1, <2>1, <2>2 DEF Emptied, Start
<1>7. InOrder(Parts, asked)'
  <2>1. Shrunk(Parts, Parts')
    BY <1>3, PartsAre, PartsAfter DEF Shrunk, Start
  <2> QED
    BY <1>3, <2>1, PartsAre, PartsAfter, ShrinkKeeps DEF LinkTypeOK, Start
<1> QED
  BY <1>3, <1>4, <1>5, <1>6, <1>7

LEMMA AskKeeps == LinkInv /\ Ask => LinkInv'
<1> SUFFICES ASSUME LinkInv, Ask
             PROVE  LinkInv'
  OBVIOUS
<1> USE DEF LinkInv
<1> DEFINE m == [by |-> proc, no |-> asked + 1]
<1>1. /\ proc \in Process /\ asked \in Nat /\ asked + 1 \in 1 .. MaxAsked /\ m \in Message
      /\ m.no = asked + 1
  BY DbLinkAssumption DEF LinkTypeOK, Ask, Running, Process, Message
<1> HIDE DEF m
<1>2. /\ Linked(proc) => req' = [req EXCEPT ![proc] = Append(@, m)]
      /\ ~ Linked(proc) => req' = req
  BY DEF Ask, m
<1>3. /\ \A p \in Process : p # proc => req'[p] = req[p]
      /\ req'[proc] = req[proc] \/ (Linked(proc) /\ req'[proc] = Append(req[proc], m))
      /\ req' \in [Process -> Seq(Message)]
  <2>1. req \in [Process -> Seq(Message)] /\ Append(req[proc], m) \in Seq(Message)
    BY <1>1, SeqFacts DEF LinkTypeOK
  <2>2. CASE Linked(proc)
    BY <1>1, <1>2, <2>1, <2>2
  <2>3. CASE ~ Linked(proc)
    BY <1>2, <2>1, <2>3
  <2> QED
    BY <2>2, <2>3
<1>4. LinkTypeOK'
  BY <1>1, <1>3 DEF Ask, LinkTypeOK, Running
<1>5. Queueing' /\ OnlyTheLast'
  BY DEF Queueing, OnlyTheLast, Ask
<1>6. Emptied'
  <2>1. \A p : Linked(p) => Linked(p)'
    BY DEF Ask, Linked
  <2>2. UNCHANGED <<slot, proc, state, ans, cache>>
    BY DEF Ask
  <2> QED
    BY <1>1, <1>3, <2>1, <2>2 DEF Emptied
<1>7. InOrder(Parts, asked)'
  <2>1. CASE req'[proc] = req[proc]
    <3>1. \A k \in Places : Parts'[k] = Parts[k]
      BY <1>3, <1>4, <2>1, PartsAre, PartsAfter DEF Ask
    <3>2. \A k \in Places : \A i \in 1 .. Len(Parts[k]) : Parts[k][i].no <= asked + 1
      BY <1>1, Entries, PartsAre DEF InOrder
    <3> QED
      BY <3>1, <3>2 DEF InOrder, Ask
  <2>2. CASE Linked(proc) /\ req'[proc] = Append(req[proc], m)
    <3>1. \A p \in Process : p > proc => req[p] = << >>
      <4> SUFFICES ASSUME NEW p \in Process, p > proc, req[p] # << >>
                   PROVE  FALSE
        OBVIOUS
      <4>1. Linked(p)
        BY DEF Emptied
      <4>2. slot # p
        BY <1>1 DEF LinkTypeOK, Process
      <4>3. PICK i \in 1 .. Len(waiting) : waiting[i] = p
        BY <4>1, <4>2, LinkedIs
      <4> QED
        BY <1>1, <4>3 DEF Queueing, Process
    <3>2. \A k \in Places : proc + 3 < k => Parts[k] = << >>
      <4> SUFFICES ASSUME NEW k \in Places, proc + 3 < k
                   PROVE  Parts[k] = << >>
        OBVIOUS
      <4>1. k # 1 /\ k # 2 /\ k # 3 /\ k - 3 > proc
        BY <1>1 DEF Places, Process
      <4> QED
        BY <3>1, <4>1, PartsAre
    <3>3. proc + 3 \in Places /\ Parts'[proc + 3] = Append(Parts[proc + 3], m)
      <4>1. /\ proc + 3 \in Places /\ proc + 3 # 1 /\ proc + 3 # 2 /\ proc + 3 # 3
            /\ proc + 3 - 3 = proc
        BY <1>1, PlaceOf
      <4>2. Parts[proc + 3] = req[proc] /\ Parts'[proc + 3] = req'[proc]
        BY <1>1, <1>4, RequestPart, RequestPartAfter, Zenon
      <4> QED
        BY <2>2, <4>1, <4>2
    <3>4. \A k \in Places : k # proc + 3 => Parts'[k] = Parts[k]
      <4> SUFFICES ASSUME NEW k \in Places, k # proc + 3
                   PROVE  Parts'[k] = Parts[k]
        OBVIOUS
      <4>1. CASE k = 1 \/ k = 2 \/ k = 3
        BY <1>4, <4>1, PartsAre, PartsAfter DEF Ask
      <4>2. CASE k # 1 /\ k # 2 /\ k # 3
        <5>1. k - 3 \in Process /\ k - 3 # proc
          BY <1>1, <4>2, PlaceOf
        <5> QED
          BY <1>3, <1>4, <4>2, <5>1, PartsAre, PartsAfter
      <4> QED
        BY <4>1, <4>2
    <3>5. Added(Parts, Parts', proc + 3, m)
      BY <3>2, <3>3, <3>4 DEF Added
    <3>6. InOrder(Parts', asked + 1)
      BY <1>1, <1>4, <3>3, <3>5, PartsAre, PartsAfter, AddKeeps
    <3> QED
      BY <3>6 DEF Ask
  <2> QED
    BY <1>3, <2>1, <2>2
<1> QED
  BY <1>4, <1>5, <1>6, <1>7

LEMMA HearKeeps == LinkInv /\ Hear => LinkInv'
<1> SUFFICES ASSUME LinkInv, Hear
             PROVE  LinkInv'
  OBVIOUS
<1> USE DEF LinkInv
<1>1. ans \in Seq(Message) /\ ans # << >> /\ heard \in Seq(Message) /\ Head(ans) \in Message /\ Tail(ans) \in Seq(Message)
  BY SeqFacts DEF LinkTypeOK, Hear
<1>2. LinkTypeOK'
  BY <1>1 DEF LinkTypeOK, Hear, Running
<1>3. Queueing' /\ OnlyTheLast'
  BY DEF Queueing, OnlyTheLast, Hear
<1>4. Emptied'
  BY <1>1 DEF Emptied, Hear, Linked
<1>5. InOrder(Parts, asked)'
  <2>1. Moved(Parts, Parts', 1, 2)
    <3>1. \A k \in Places : ~ (1 < k /\ k < 2)
      BY DEF Places
    <3> QED
      BY <1>1, <1>2, <3>1, PartsAre, PartsAfter DEF Moved, Hear
  <2> QED
    BY <1>2, <2>1, PartsAre, PartsAfter, PlaceOf, MoveKeeps DEF LinkTypeOK, Hear
<1> QED
  BY <1>2, <1>3, <1>4, <1>5

LEMMA KillKeeps == LinkInv /\ Kill => LinkInv'
<1> SUFFICES ASSUME LinkInv, Kill
             PROVE  LinkInv'
  OBVIOUS
<1> USE DEF LinkInv
<1>1. proc \in Process /\ state \in [Process -> {"none", "up", "fin", "reset"}]
  BY DbLinkAssumption DEF LinkTypeOK, Kill, Running, Process
<1>2. PICK e \in {"fin", "reset"} : state' = [state EXCEPT ![proc] = e]
  BY DEF Kill
<1>3. LinkTypeOK'
  BY <1>1, <1>2 DEF LinkTypeOK, Kill
<1>4. Queueing' /\ OnlyTheLast'
  BY <1>1, <1>2 DEF Queueing, OnlyTheLast, Kill, Process
<1>5. Emptied'
  <2>1. slot # 0 => slot \in Process /\ (state'[slot] = "up" => state[slot] = "up")
    <3>1. slot # 0 => slot \in Process
      BY <1>1, DbLinkAssumption DEF LinkTypeOK, Process
    <3> HIDE DEF LinkInv
    <3> QED
      BY <1>1, <1>2, <3>1
  <2>2. UNCHANGED <<slot, proc, cache, req>> /\ ans' = << >> /\ \A p : Linked(p) => Linked(p)'
    BY DEF Kill, Linked
  <2> HIDE DEF LinkInv
  <2> QED
    BY <2>1, <2>2 DEF Emptied, LinkInv
<1>6. InOrder(Parts, asked)'
  <2>1. Shrunk(Parts, Parts')
    BY <1>3, PartsAre, PartsAfter DEF Shrunk, Kill
  <2> QED
    BY <1>3, <2>1, PartsAre, PartsAfter, ShrinkKeeps DEF LinkTypeOK, Kill
<1> QED
  BY <1>3, <1>4, <1>5, <1>6

(* The first of those that wait.                                           *)
LEMMA FirstInLine ==
  ASSUME LinkTypeOK, Queueing, waiting # << >>
  PROVE  /\ Head(waiting) \in Process /\ Head(waiting) <= proc /\ slot < Head(waiting)
         /\ Tail(waiting) \in Seq(Process) /\ Len(Tail(waiting)) \in Nat
         /\ \A p : (\E i \in 1 .. Len(waiting) : waiting[i] = p) <=>
                     p = Head(waiting) \/ \E i \in 1 .. Len(Tail(waiting)) : Tail(waiting)[i] = p
         /\ \A i \in 1 .. Len(Tail(waiting)) :
              Head(waiting) < Tail(waiting)[i] /\ slot < Tail(waiting)[i] /\ Tail(waiting)[i] <= proc
         /\ \A i, j \in 1 .. Len(Tail(waiting)) : i < j => Tail(waiting)[i] < Tail(waiting)[j]
<1>1. /\ waiting \in Seq(Process) /\ Len(waiting) \in Nat /\ Len(waiting) > 0
      /\ Head(waiting) = waiting[1] /\ 1 \in 1 .. Len(waiting) /\ waiting[1] \in Process
      /\ Tail(waiting) \in Seq(Process) /\ Len(Tail(waiting)) = Len(waiting) - 1
  BY DEF LinkTypeOK
<1>2. \A i \in 1 .. Len(Tail(waiting)) :
        i \in Nat /\ i + 1 \in 1 .. Len(waiting) /\ 1 < i + 1 /\ Tail(waiting)[i] = waiting[i + 1]
  BY <1>1
<1>3. ASSUME NEW p
      PROVE  (\E i \in 1 .. Len(waiting) : waiting[i] = p) <=>
               p = Head(waiting) \/ \E i \in 1 .. Len(Tail(waiting)) : Tail(waiting)[i] = p
  <2>1. ASSUME NEW i \in 1 .. Len(waiting), waiting[i] = p, i # 1
        PROVE  \E j \in 1 .. Len(Tail(waiting)) : Tail(waiting)[j] = p
    <3>1. i - 1 \in 1 .. Len(Tail(waiting)) /\ i - 1 + 1 = i
      BY <1>1, <2>1
    <3>2. Tail(waiting)[i - 1] = p
      BY <1>2, <2>1, <3>1
    <3> QED
      BY <3>1, <3>2
  <2>2. ASSUME NEW j \in 1 .. Len(Tail(waiting)), Tail(waiting)[j] = p
        PROVE  \E i \in 1 .. Len(waiting) : waiting[i] = p
    BY <1>2, <2>2
  <2> QED
    BY <1>1, <2>1, <2>2
<1>4. \A i \in 1 .. Len(Tail(waiting)) :
        Head(waiting) < Tail(waiting)[i] /\ slot < Tail(waiting)[i] /\ Tail(waiting)[i] <= proc
  BY <1>1, <1>2 DEF Queueing
<1>5. \A i, j \in 1 .. Len(Tail(waiting)) : i < j => Tail(waiting)[i] < Tail(waiting)[j]
  BY <1>2 DEF Queueing
<1> QED
  BY <1>1, <1>3, <1>4, <1>5 DEF Queueing

LEMMA AcceptKeeps == LinkInv /\ Accept => LinkInv'
<1> SUFFICES ASSUME LinkInv, Accept
             PROVE  LinkInv'
  OBVIOUS
<1>0. LinkTypeOK /\ Queueing /\ OnlyTheLast /\ Emptied /\ InOrder(Parts, asked)
  BY DEF LinkInv
<1>1. /\ waiting # << >> /\ slot = 0 /\ slot' = Head(waiting) /\ waiting' = Tail(waiting)
      /\ ans' = (IF state[slot'] = "up" THEN cache ELSE ans) /\ cache' = << >>
      /\ UNCHANGED <<proc, state, asked, req, heard>>
  BY DEF Accept
<1>2. /\ slot' \in Process /\ slot' <= proc /\ waiting' \in Seq(Process)
      /\ \A p : (\E i \in 1 .. Len(waiting) : waiting[i] = p) =>
                  p = slot' \/ \E i \in 1 .. Len(waiting') : waiting'[i] = p
      /\ \A i \in 1 .. Len(waiting') : slot' < waiting'[i] /\ waiting'[i] <= proc
      /\ \A i, j \in 1 .. Len(waiting') : i < j => waiting'[i] < waiting'[j]
  BY <1>0, <1>1, FirstInLine
<1>3. /\ proc \in Nat /\ slot' \in Nat /\ slot' # 0 /\ slot' \in 0 .. proc
      /\ \A p \in Process : p # 0
  BY <1>0, <1>2, DbLinkAssumption DEF LinkTypeOK, Process
<1>4. ans' \in Seq(Message) /\ (ans' # << >> => state[slot'] = "up" \/ ans # << >>)
  BY <1>0, <1>1 DEF LinkTypeOK
<1>5. state[slot'] = "up" => slot' = proc
  BY <1>0, <1>2 DEF OnlyTheLast
<1>6. LinkTypeOK'
  <2>1. Running' <=> Running
    BY <1>1 DEF Running
  <2>2. ~ Running => ans' = << >>
    BY <1>0, <1>1, <1>3, <1>5 DEF Running, LinkTypeOK
  <2>3. Len(<< >>) <= CacheSize /\ << >> \in Seq(Message)
    BY DbLinkAssumption
  <2> QED
    BY <1>0, <1>1, <1>2, <1>3, <1>4, <2>1, <2>2, <2>3 DEF LinkTypeOK
<1>7. Queueing' /\ OnlyTheLast'
  BY <1>0, <1>1, <1>2 DEF Queueing, OnlyTheLast
<1>8. Emptied'
  <2>1. \A p \in Process : Linked(p) => Linked(p)'
    BY <1>1, <1>2, <1>3, LinkedIs, LinkedAfter
  <2>2. slot' # proc' => ans' = << >>
    <3>1. slot # proc \/ proc = 0
      BY <1>1
    <3>2. ans = << >>
      BY <1>0, <1>1, <1>3, <3>1 DEF Emptied, LinkTypeOK, Running
    <3> QED
      BY <1>1, <1>5, <3>2
  <2> QED
    BY <1>0, <1>1, <2>1, <2>2 DEF Emptied
<1>9. InOrder(Parts, asked)'
  <2>1. CASE state[slot'] = "up"
    <3>1. ans = << >> /\ ans' = cache
      BY <1>0, <1>1, <1>2, <1>3, <1>5, <2>1 DEF Emptied
    <3>2. Shifted(Parts, Parts', 2, 3)
      <4>1. \A k \in Places : ~ (2 < k /\ k < 3)
        BY DEF Places
      <4>2. \A k \in Places : k # 2 /\ k # 3 => Parts'[k] = Parts[k]
        BY <1>0, <1>1, <1>6, PartsAre, PartsAfter
      <4> QED
        BY <1>0, <1>1, <1>6, <3>1, <4>1, <4>2, PartsAre, PartsAfter DEF Shifted
    <3>3. Parts \in Rows /\ Parts' \in Rows /\ 2 \in Places /\ 3 \in Places /\ asked \in Nat
      BY <1>0, <1>6, PartsAre, PartsAfter, PlaceOf DEF LinkTypeOK
    <3> QED
      BY <1>0, <1>1, <3>2, <3>3, ShiftKeeps
  <2>2. CASE state[slot'] # "up"
    <3>1. Shrunk(Parts, Parts')
      BY <1>0, <1>1, <1>6, <2>2, PartsAre, PartsAfter DEF Shrunk
    <3> QED
      BY <1>0, <1>1, <1>6, <3>1, PartsAre, PartsAfter, ShrinkKeeps DEF LinkTypeOK
  <2> QED
    BY <2>1, <2>2
<1> QED
  BY <1>6, <1>7, <1>8, <1>9 DEF LinkInv

LEMMA RefuseKeeps == LinkInv /\ Refuse => LinkInv'
<1> SUFFICES ASSUME LinkInv, Refuse
             PROVE  LinkInv'
  OBVIOUS
<1>0. LinkTypeOK /\ Queueing /\ OnlyTheLast /\ Emptied /\ InOrder(Parts, asked)
  BY DEF LinkInv
<1> DEFINE h == Head(waiting)
<1>1. /\ waiting # << >> /\ slot # 0 /\ waiting' = Tail(waiting)
      /\ req' = [req EXCEPT ![h] = << >>]
      /\ UNCHANGED <<proc, state, asked, slot, cache, ans, heard>>
  BY DEF Refuse
<1>2. /\ h \in Process /\ slot < h /\ waiting' \in Seq(Process)
      /\ \A p : (\E i \in 1 .. Len(waiting) : waiting[i] = p) =>
                  p = h \/ \E i \in 1 .. Len(waiting') : waiting'[i] = p
      /\ \A i \in 1 .. Len(waiting') : slot < waiting'[i] /\ waiting'[i] <= proc
      /\ \A i, j \in 1 .. Len(waiting') : i < j => waiting'[i] < waiting'[j]
  BY <1>0, <1>1, FirstInLine
<1> HIDE DEF h
<1>3. /\ req' \in [Process -> Seq(Message)] /\ req'[h] = << >>
      /\ \A p \in Process : p # h => req'[p] = req[p]
  BY <1>0, <1>1, <1>2 DEF LinkTypeOK
<1>4. LinkTypeOK'
  BY <1>0, <1>1, <1>2, <1>3 DEF LinkTypeOK, Running
<1>5. Queueing' /\ OnlyTheLast'
  BY <1>0, <1>1, <1>2 DEF Queueing, OnlyTheLast
<1>6. Emptied'
  <2>1. \A p \in Process : p # h /\ Linked(p) => Linked(p)'
    BY <1>1, <1>2, LinkedIs, LinkedAfter
  <2> QED
    BY <1>0, <1>1, <1>3, <2>1 DEF Emptied
<1>7. InOrder(Parts, asked)'
  <2>1. Shrunk(Parts, Parts')
    BY <1>0, <1>1, <1>3, <1>4, PartsAre, PartsAfter DEF Shrunk
  <2> QED
    BY <1>0, <1>1, <1>4, <2>1, PartsAre, PartsAfter, ShrinkKeeps DEF LinkTypeOK
<1> QED
  BY <1>4, <1>5, <1>6, <1>7 DEF LinkInv

LEMMA ReleaseKeeps == LinkInv /\ Release => LinkInv'
<1> SUFFICES ASSUME LinkInv, Release
             PROVE  LinkInv'
  OBVIOUS
<1>0. LinkTypeOK /\ Queueing /\ OnlyTheLast /\ Emptied /\ InOrder(Parts, asked)
  BY DEF LinkInv
<1>1. /\ slot # 0 /\ state[slot] # "up" /\ slot' = 0
      /\ req' = [req EXCEPT ![slot] = << >>]
      /\ UNCHANGED <<proc, state, asked, waiting, cache, ans, heard>>
  BY DEF Release
<1>2. slot \in Process /\ proc \in Nat
  BY <1>0, <1>1, DbLinkAssumption DEF LinkTypeOK, Process
<1>3. /\ req' \in [Process -> Seq(Message)] /\ req'[slot] = << >>
      /\ \A p \in Process : p # slot => req'[p] = req[p]
  BY <1>0, <1>1, <1>2 DEF LinkTypeOK
<1>4. LinkTypeOK'
  <2>1. slot' \in 0 .. proc'
    BY <1>1, <1>2
  <2> QED
    BY <1>0, <1>1, <1>3, <2>1 DEF LinkTypeOK, Running
<1>5. Queueing' /\ OnlyTheLast'
  <2>1. \A i \in 1 .. Len(waiting) : waiting[i] \in Process
    BY <1>0 DEF LinkTypeOK
  <2>2. \A p \in Process : 0 < p
    BY DEF Process
  <2> QED
    BY <1>0, <1>1, <2>1, <2>2 DEF Queueing, OnlyTheLast
<1>6. Emptied'
  <2>1. \A p \in Process : p # slot /\ Linked(p) => Linked(p)'
    BY <1>1, LinkedIs, LinkedAfter
  <2>2. ans = << >>
    BY <1>0, <1>1 DEF Emptied, LinkTypeOK, Running
  <2> QED
    BY <1>0, <1>1, <1>3, <2>1, <2>2 DEF Emptied
<1>7. InOrder(Parts, asked)'
  <2>1. Shrunk(Parts, Parts')
    BY <1>0, <1>1, <1>3, <1>4, PartsAre, PartsAfter DEF Shrunk
  <2> QED
    BY <1>0, <1>1, <1>4, <2>1, PartsAre, PartsAfter, ShrinkKeeps DEF LinkTypeOK
<1> QED
  BY <1>4, <1>5, <1>6, <1>7 DEF LinkInv

LEMMA AnswerKeeps == LinkInv /\ Answer => LinkInv'
<1> SUFFICES ASSUME LinkInv, Answer
             PROVE  LinkInv'
  OBVIOUS
<1>0. LinkTypeOK /\ Queueing /\ OnlyTheLast /\ Emptied /\ InOrder(Parts, asked)
  BY DEF LinkInv
<1> DEFINE m == Head(req[slot])
<1>1. /\ slot # 0 /\ req[slot] # << >> /\ req' = [req EXCEPT ![slot] = Tail(req[slot])]
      /\ SendToGameSrv(m)
      /\ UNCHANGED <<proc, asked, waiting, slot, heard>>
  BY DEF Answer
<1>2. slot \in Process /\ proc \in Nat /\ slot <= proc
  BY <1>0, <1>1, DbLinkAssumption DEF LinkTypeOK, Process
<1>3. /\ req \in [Process -> Seq(Message)] /\ req[slot] \in Seq(Message)
      /\ m \in Message /\ Tail(req[slot]) \in Seq(Message)
  <2>1. req \in [Process -> Seq(Message)] /\ req[slot] \in Seq(Message)
    BY <1>0, <1>2 DEF LinkTypeOK
  <2> QED
    BY <1>1, <2>1, SeqFacts
<1> HIDE DEF m
<1>4. /\ req' \in [Process -> Seq(Message)] /\ req'[slot] = Tail(req[slot])
      /\ \A p \in Process : p # slot => req'[p] = req[p]
  BY <1>1, <1>2, <1>3
<1>5. /\ ans \in Seq(Message) /\ cache \in Seq(Message)
      /\ state \in [Process -> {"none", "up", "fin", "reset"}] /\ asked \in Nat
  BY <1>0 DEF LinkTypeOK
<1> DEFINE Up   == state[slot] = "up" /\ ans' = Append(ans, m) /\ state' = state /\ cache' = cache
           Kept == state[slot] = "reset" /\ cache' = Append(cache, m) /\ ans' = ans /\ state' = state
           Lost == state[slot] # "up" /\ ans' = ans /\ cache' = cache
<1>6. /\ Up \/ Kept \/ Lost
      /\ state' = state \/ (state[slot] = "fin" /\ state' = [state EXCEPT ![slot] = "reset"])
      /\ Kept => Len(cache) < CacheSize
  BY <1>1 DEF SendToGameSrv, Cache
<1>7. /\ \A p \in Process : state'[p] = "up" <=> state[p] = "up"
      /\ \A p \in Process : state'[p] = "none" <=> state[p] = "none"
      /\ state' \in [Process -> {"none", "up", "fin", "reset"}]
  BY <1>2, <1>5, <1>6
<1>8. state[slot] = "up" => slot = proc
  BY <1>0, <1>2 DEF OnlyTheLast
<1>9. LinkTypeOK'
  <2>1. ans' \in Seq(Message)
    BY <1>3, <1>5, <1>6
  <2>2. cache' \in Seq(Message) /\ Len(cache') <= CacheSize
    <3>1. CASE Kept
      <4>1. Len(cache') = Len(cache) + 1 /\ cache' \in Seq(Message) /\ Len(cache) \in Nat
        BY <1>3, <1>5, <3>1
      <4> QED
        BY <1>6, <3>1, <4>1, DbLinkAssumption
    <3>2. CASE cache' = cache
      BY <1>0, <3>2 DEF LinkTypeOK
    <3> QED
      BY <1>6, <3>1, <3>2
  <2>3. ~ Running' => ans' = << >>
    <3>1. Running' <=> Running
      <4>1. proc # 0 => proc \in Process
        BY <1>0, <1>2, DbLinkAssumption DEF LinkTypeOK, Process
      <4> QED
        BY <1>1, <1>7, <4>1 DEF Running
    <3>2. ~ Running => ~ Up
      BY <1>1, <1>8 DEF Running
    <3> QED
      BY <1>0, <1>6, <3>1, <3>2 DEF LinkTypeOK
  <2> QED
    BY <1>0, <1>1, <1>4, <1>7, <2>1, <2>2, <2>3 DEF LinkTypeOK
<1>10. Queueing' /\ OnlyTheLast'
  BY <1>0, <1>1, <1>7 DEF Queueing, OnlyTheLast
<1>11. Emptied'
  <2>1. \A p \in Process : Linked(p) => Linked(p)'
    BY <1>1 DEF Linked
  <2>2. slot # proc => ans' = << >>
    BY <1>0, <1>6, <1>8 DEF Emptied
  <2>3. state[slot] = "up" => cache' = << >>
    BY <1>0, <1>1, <1>6 DEF Emptied
  <2>4. \A p \in Process : req'[p] # << >> => Linked(p)'
    <3>1. \A p \in Process : p = slot => Linked(p)'
      BY <1>1 DEF Linked
    <3>2. \A p \in Process : p # slot => (req'[p] # << >> => Linked(p))
      BY <1>0, <1>4 DEF Emptied
    <3> QED
      BY <2>1, <3>1, <3>2, Zenon
  <2> QED
    BY <1>1, <1>2, <1>7, <2>2, <2>3, <2>4 DEF Emptied
<1>12. \A p \in Process : p < slot => req[p] = << >>
  <2> SUFFICES ASSUME NEW p \in Process, p < slot, req[p] # << >>
               PROVE  FALSE
    OBVIOUS
  <2>1. Linked(p) /\ p \in Nat /\ slot \in Nat
    BY <1>0, <1>2 DEF Emptied, Process
  <2>2. PICK i \in 1 .. Len(waiting) : waiting[i] = p
    BY <2>1, LinkedIs
  <2> QED
    BY <1>0, <2>1, <2>2 DEF Queueing
<1>13. InOrder(Parts, asked)'
  <2>1. /\ Parts \in Rows /\ Parts' \in Rows /\ 2 \in Places /\ 3 \in Places /\ slot + 3 \in Places
        /\ slot + 3 > 3 /\ Parts[slot + 3] = req[slot] /\ Parts'[slot + 3] = Tail(req[slot])
    BY <1>0, <1>2, <1>4, <1>9, PartsAre, PartsAfter, PlaceOf, RequestPart, RequestPartAfter, Zenon
  <2>2. \A k \in Places : 3 < k /\ k < slot + 3 => Parts[k] = << >>
    <3> SUFFICES ASSUME NEW k \in Places, 3 < k, k < slot + 3
                 PROVE  Parts[k] = << >>
      OBVIOUS
    <3>1. k # 1 /\ k # 2 /\ k # 3 /\ k - 3 \in Process /\ k - 3 < slot
      BY <1>2, PlaceOf DEF Places, Process
    <3> QED
      BY <1>0, <1>12, <3>1, PartsAre
  <2>3. \A k \in Places : k # 2 /\ k # 3 /\ k # slot + 3 => Parts'[k] = Parts[k]
    <3> SUFFICES ASSUME NEW k \in Places, k # 2, k # 3, k # slot + 3
                 PROVE  Parts'[k] = Parts[k]
      OBVIOUS
    <3>1. CASE k = 1
      BY <1>0, <1>1, <1>9, <3>1, PartsAre, PartsAfter
    <3>2. CASE k # 1
      <4>1. k - 3 \in Process /\ k - 3 # slot
        BY <1>2, <3>2, PlaceOf
      <4> QED
        BY <1>0, <1>4, <1>9, <3>2, <4>1, PartsAre, PartsAfter
    <3> QED
      BY <3>1, <3>2
  <2>4. Parts[2] = ans /\ Parts[3] = cache /\ Parts'[2] = ans' /\ Parts'[3] = cache'
    BY <1>0, <1>9, PartsAre, PartsAfter
  <2>5. \A k \in Places : k \in Nat
    BY DEF Places
  <2>6. CASE Up
    <3>1. cache = << >>
      BY <1>0, <1>1, <2>6 DEF Emptied
    <3>2. \A k \in Places : 2 < k /\ k < slot + 3 => Parts[k] = << >>
      BY <2>2, <2>4, <2>5, <3>1
    <3>3. Moved(Parts, Parts', 2, slot + 3)
      BY <1>1, <2>1, <2>3, <2>4, <2>6, <3>2 DEF Moved, m
    <3>4. 2 < slot + 3
      BY <2>1, <2>5
    <3> QED
      BY <1>1, <1>5, <2>1, <3>3, <3>4, <1>0, MoveKeeps
  <2>7. CASE Kept
    <3>1. Moved(Parts, Parts', 3, slot + 3)
      BY <1>1, <2>1, <2>2, <2>3, <2>4, <2>7 DEF Moved, m
    <3>2. 3 < slot + 3
      BY <2>1, <2>5
    <3> QED
      BY <1>1, <1>5, <2>1, <3>1, <3>2, <1>0, MoveKeeps
  <2>8. CASE Lost
    <3>1. Shrunk(Parts, Parts')
      BY <1>1, <2>1, <2>3, <2>4, <2>8 DEF Shrunk
    <3> QED
      BY <1>1, <1>5, <2>1, <3>1, <1>0, ShrinkKeeps
  <2> QED
    BY <1>6, <2>6, <2>7, <2>8
<1> QED
  BY <1>9, <1>10, <1>11, <1>13 DEF LinkInv

LEMMA LinkStep == LinkInv /\ [LinkNext]_linkvars => LinkInv'
<1>1. LinkInv /\ UNCHANGED linkvars => LinkInv'
  <2> SUFFICES ASSUME LinkInv, UNCHANGED linkvars
               PROVE  LinkInv'
    OBVIOUS
  <2>1. LinkTypeOK'
    BY DEF LinkInv, LinkTypeOK, Running, linkvars
  <2>2. Queueing' /\ OnlyTheLast'
    BY DEF LinkInv, Queueing, OnlyTheLast, linkvars
  <2>3. Emptied'
    BY DEF LinkInv, Emptied, Linked, linkvars
  <2>4. InOrder(Parts, asked)'
    <3>1. Parts' = Parts
      BY DEF Parts, linkvars
    <3> QED
      BY <3>1 DEF LinkInv, InOrder, linkvars
  <2> QED
    BY <2>1, <2>2, <2>3, <2>4 DEF LinkInv
<1> QED
  BY <1>1, StartKeeps, AskKeeps, HearKeeps, KillKeeps, AcceptKeeps, RefuseKeeps, AnswerKeeps, ReleaseKeeps
    DEF LinkNext, Listen

(* Two queues one behind the other are in the order of asking, and so are  *)
(* all that wait.                                                          *)
LEMMA InRow ==
  ASSUME NEW P \in Rows, NEW n \in Nat, InOrder(P, n), NEW k \in Places
  PROVE  /\ P[k] \in Seq(Message) /\ Ascending(P[k])
         /\ \A l \in Places : k < l => Precedes(P[k], P[l])
<1>1. Ascending(P[k])
  BY DEF InOrder, Before, Ascending
<1>2. \A l \in Places : k < l => Precedes(P[k], P[l])
  BY DEF InOrder, Before, Precedes
<1> QED
  BY <1>1, <1>2 DEF Rows

Waits == [i \in DOMAIN waiting |-> req[waiting[i]]]

LEMMA WaitsFlat ==
  ASSUME LinkInv
  PROVE  /\ FlattenSeq(Waits) \in Seq(Message) /\ Ascending(FlattenSeq(Waits))
         /\ \A s \in Seq(Message) :
              (\A i \in 1 .. Len(waiting) : Precedes(s, req[waiting[i]])) => Precedes(s, FlattenSeq(Waits))
<1>1. LinkTypeOK /\ Queueing /\ InOrder(Parts, asked) /\ asked \in Nat /\ Parts \in Rows
  BY PartsAre DEF LinkInv, LinkTypeOK
<1> DEFINE n == Len(waiting)
<1>2. n \in Nat /\ DOMAIN waiting = 1 .. n /\ \A i \in 1 .. n : waiting[i] \in Process
  BY <1>1 DEF LinkTypeOK
<1> HIDE DEF n
<1>3. \A i \in 1 .. n : Waits[i] = req[waiting[i]]
  BY <1>2 DEF Waits
<1>4. \A p \in Process : req[p] \in Seq(Message) /\ req[p] = Parts[p + 3] /\ p + 3 \in Places /\ p \in Nat
  BY <1>1, RequestPart, PlaceOf DEF LinkTypeOK
<1>5. Waits \in [1 .. n -> Seq(Message)]
  BY <1>2, <1>4 DEF Waits
<1>6. \A i \in 1 .. n : Ascending(Waits[i])
  BY <1>1, <1>2, <1>3, <1>4, InRow
<1>7. \A i, j \in 1 .. n : i < j => Precedes(Waits[i], Waits[j])
  <2> SUFFICES ASSUME NEW i \in 1 .. n, NEW j \in 1 .. n, i < j
               PROVE  Precedes(Waits[i], Waits[j])
    OBVIOUS
  <2>1. waiting[i] < waiting[j] /\ waiting[i] \in Process /\ waiting[j] \in Process
    BY <1>1, <1>2 DEF Queueing, n
  <2>2. waiting[i] + 3 < waiting[j] + 3
    BY <1>4, <2>1
  <2> QED
    BY <1>1, <1>3, <1>4, <2>1, <2>2, InRow
<1>8. Flat(FlattenSeq(Waits), n, n, Waits)
  BY <1>2, <1>5, <1>6, <1>7, Flattened
<1> QED
  BY <1>3, <1>8 DEF Flat, n

LEMMA LineAscends == LinkInv => OldestFirst
<1> SUFFICES ASSUME LinkInv
             PROVE  OldestFirst
  OBVIOUS
<1>1. LinkTypeOK /\ Queueing /\ InOrder(Parts, asked) /\ asked \in Nat /\ Parts \in Rows
  BY PartsAre DEF LinkInv, LinkTypeOK
<1> DEFINE r == IF slot = 0 THEN << >> ELSE req[slot]
           w == FlattenSeq(Waits)
<1>2. /\ heard \in Seq(Message) /\ Ascending(heard) /\ Precedes(heard, ans) /\ Precedes(heard, cache)
      /\ ans \in Seq(Message) /\ Ascending(ans) /\ Precedes(ans, cache)
      /\ cache \in Seq(Message) /\ Ascending(cache)
  <2>1. /\ 1 \in Places /\ 2 \in Places /\ 3 \in Places /\ 1 < 2 /\ 1 < 3 /\ 2 < 3
        /\ Parts[1] = heard /\ Parts[2] = ans /\ Parts[3] = cache
    BY <1>1, PartsAre, PlaceOf
  <2> QED
    BY <1>1, <2>1, InRow
<1>3. \A p \in Process :
        /\ req[p] \in Seq(Message) /\ Ascending(req[p])
        /\ Precedes(heard, req[p]) /\ Precedes(ans, req[p]) /\ Precedes(cache, req[p])
        /\ \A o \in Process : p < o => Precedes(req[p], req[o])
  <2>1. /\ 1 \in Places /\ 2 \in Places /\ 3 \in Places
        /\ Parts[1] = heard /\ Parts[2] = ans /\ Parts[3] = cache
    BY <1>1, PartsAre, PlaceOf
  <2> SUFFICES ASSUME NEW p \in Process
               PROVE  /\ req[p] \in Seq(Message) /\ Ascending(req[p])
                      /\ Precedes(heard, req[p]) /\ Precedes(ans, req[p]) /\ Precedes(cache, req[p])
                      /\ \A o \in Process : p < o => Precedes(req[p], req[o])
    OBVIOUS
  <2>2. /\ p + 3 \in Places /\ p \in Nat /\ Parts[p + 3] = req[p] /\ 1 < p + 3 /\ 2 < p + 3 /\ 3 < p + 3
    BY <1>1, RequestPart, PlaceOf
  <2>3. \A o \in Process : o + 3 \in Places /\ Parts[o + 3] = req[o] /\ (p < o => p + 3 < o + 3)
    BY <1>1, <2>2, RequestPart, PlaceOf
  <2> QED
    BY <1>1, <2>1, <2>2, <2>3, InRow
<1>4. /\ w \in Seq(Message) /\ Ascending(w)
      /\ \A s \in Seq(Message) : (\A i \in 1 .. Len(waiting) : Precedes(s, req[waiting[i]])) => Precedes(s, w)
  BY WaitsFlat
<1>5. \A i \in 1 .. Len(waiting) : waiting[i] \in Process /\ slot < waiting[i]
  BY <1>1 DEF LinkTypeOK, Queueing
<1> HIDE DEF w
<1>6. /\ r \in Seq(Message) /\ Ascending(r)
      /\ Precedes(heard, r) /\ Precedes(ans, r) /\ Precedes(cache, r) /\ Precedes(r, w)
  <2>1. CASE slot = 0
    BY <2>1 DEF Ascending, Precedes
  <2>2. CASE slot # 0
    <3>1. slot \in Process
      BY <1>1, <2>2, DbLinkAssumption DEF LinkTypeOK, Process
    <3>2. \A i \in 1 .. Len(waiting) : Precedes(req[slot], req[waiting[i]])
      BY <1>3, <1>5, <3>1
    <3> QED
      BY <1>3, <1>4, <2>2, <3>1, <3>2
  <2> QED
    BY <2>1, <2>2
<1>7. Precedes(heard, w) /\ Precedes(ans, w) /\ Precedes(cache, w)
  BY <1>2, <1>3, <1>4, <1>5
<1> HIDE DEF r
<1> DEFINE a == heard \o ans
           b == a \o cache
           c == b \o r
           d == c \o w
<1>8. a \in Seq(Message) /\ Ascending(a) /\ Precedes(a, cache) /\ Precedes(a, r) /\ Precedes(a, w)
  BY <1>2, <1>6, <1>7, Joined
<1> HIDE DEF a
<1>9. b \in Seq(Message) /\ Ascending(b) /\ Precedes(b, r) /\ Precedes(b, w)
  BY <1>2, <1>6, <1>7, <1>8, Joined
<1> HIDE DEF b
<1>10. c \in Seq(Message) /\ Ascending(c) /\ Precedes(c, w)
  BY <1>6, <1>9, Joined
<1> HIDE DEF c
<1>11. d \in Seq(Message) /\ Ascending(d)
  BY <1>4, <1>10, Joined
<1>12. Line = d
  BY Zenon DEF Line, Waits, a, b, c, d, r, w
<1> HIDE DEF d
<1>13. \A i, j \in DOMAIN d : i < j => d[i].no < d[j].no
  BY <1>11 DEF Ascending
<1> QED
  BY <1>1, <1>12, <1>13 DEF OldestFirst

(* game_srv hears the answers of db_srv in the order of asking and each at *)
(* most once, over any number of deaths, for every number of processes and *)
(* requests and every size of the cache (send_to_game_srv,                 *)
(* dbsrv_cb_server_listen_after).                                          *)
THEOREM AnswersInOrder == LinkSpec => []OldestFirst
<1>1. LinkSpec => []LinkInv
  BY LinkInitHolds, LinkStep, PTL DEF LinkSpec
<1> QED
  BY <1>1, LineAscends, PTL
=============================================================================
