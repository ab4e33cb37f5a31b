----------------------------- MODULE SightProof -----------------------------
(* Theorem about Sight, for any accounts, scenes, places and descriptors,  *)
(* any room in a scene and any number of deaths and lost notices: every    *)
(* client comes to see exactly who is there.                               *)
EXTENDS Sight, FiniteSetTheorems, SequenceTheorems, WellFoundedInduction, TLAPS

(* Loops: a function that is defined step by step exists.                  *)
LEMMA LeastNumber ==
  ASSUME NEW T \in SUBSET Nat, T # {}
  PROVE  \E m \in T : \A n \in T : m <= n
<1>1. PICK m \in T : \A n \in T : ~(<<n, m>> \in OpToRel(<, Nat))
  BY WFMin, NatLessThanWellFounded, Zenon
<1>2. \A n \in T : ~(n < m)
  BY <1>1, Zenon DEF OpToRel
<1> QED
  BY <1>2

Loop(g, n, X, x, R) ==
  /\ g \in [0 .. n -> X] /\ g[0] = x
  /\ \A i \in 1 .. n : g[i] = R[<<i, g[i - 1]>>]

LEMMA LoopExists ==
  ASSUME NEW n, n \in Nat, NEW X, NEW x, x \in X, NEW R, R \in [(1 .. n) \X X -> X]
  PROVE  \E g : Loop(g, n, X, x, R)
<1> DEFINE Runs(k) == \E g \in [0 .. k -> X] : g[0] = x /\ \A i \in 1 .. k : g[i] = R[<<i, g[i - 1]>>]
           T == {k \in 0 .. n : ~ Runs(k)}
<1>1. Runs(0)
  <2> DEFINE g == [i \in 0 .. 0 |-> x]
  <2>1. g \in [0 .. 0 -> X] /\ g[0] = x
    OBVIOUS
  <2>2. \A i \in 1 .. 0 : FALSE
    OBVIOUS
  <2> HIDE DEF g
  <2> QED
    BY <2>1, <2>2
<1>2. ASSUME NEW k \in 1 .. n, Runs(k - 1)
      PROVE  Runs(k)
  <2>1. PICK g \in [0 .. k - 1 -> X] : g[0] = x /\ \A i \in 1 .. k - 1 : g[i] = R[<<i, g[i - 1]>>]
    BY <1>2
  <2> DEFINE h == [i \in 0 .. k |-> IF i = k THEN R[<<k, g[k - 1]>>] ELSE g[i]]
  <2>2. k - 1 \in 0 .. k - 1 /\ g[k - 1] \in X /\ <<k, g[k - 1]>> \in (1 .. n) \X X
    BY <2>1
  <2>3. \A i \in 0 .. k : i # k => i \in 0 .. k - 1
    OBVIOUS
  <2>4. h \in [0 .. k -> X]
    BY <2>1, <2>2, <2>3
  <2>5. h[0] = x /\ h[k] = R[<<k, g[k - 1]>>] /\ h[k - 1] = g[k - 1]
    BY <2>1
  <2>6. ASSUME NEW i \in 1 .. k
        PROVE  h[i] = R[<<i, h[i - 1]>>]
    <3>1. CASE i = k
      BY <2>5, <3>1
    <3>2. CASE i # k
      <4>1. i \in 1 .. k - 1 /\ i \in 0 .. k /\ i - 1 \in 0 .. k /\ i - 1 # k
        BY <3>2
      <4>2. h[i] = g[i] /\ h[i - 1] = g[i - 1]
        BY <3>2, <4>1
      <4> QED
        BY <2>1, <4>1, <4>2
    <3> QED
      BY <3>1, <3>2
  <2> HIDE DEF h
  <2> QED
    BY <2>4, <2>5, <2>6
<1> HIDE DEF Runs
<1>3. T = {}
  <2>1. ASSUME T # {}
        PROVE  FALSE
    <3>1. T \in SUBSET Nat
      OBVIOUS
    <3>2. PICK k \in T : \A j \in T : k <= j
      BY <2>1, <3>1, LeastNumber
    <3>3. k \in 0 .. n /\ ~ Runs(k)
      OBVIOUS
    <3>4. k # 0 /\ k \in 1 .. n /\ k - 1 \in 0 .. n /\ ~ k <= k - 1
      BY <1>1, <3>3
    <3>5. Runs(k - 1)
      BY <3>2, <3>4
    <3> QED
      BY <1>2, <3>3, <3>4, <3>5
  <2> QED
    BY <2>1
<1>4. Runs(n)
  BY <1>3
<1> QED
  BY <1>4 DEF Runs, Loop

(* What holds at the start and is kept by a round holds in the end.        *)
LEMMA LoopKeeps ==
  ASSUME NEW n \in Nat, NEW Good, 0 \in Good,
         \A i \in 1 .. n : i - 1 \in Good => i \in Good
  PROVE  \A i \in 0 .. n : i \in Good
<1> DEFINE T == {k \in 0 .. n : k \notin Good}
<1>1. ASSUME T # {}
      PROVE  FALSE
  <2>1. T \in SUBSET Nat
    OBVIOUS
  <2>2. PICK k \in T : \A j \in T : k <= j
    BY <1>1, <2>1, LeastNumber
  <2>3. k \in 0 .. n /\ k \notin Good
    OBVIOUS
  <2>4. k \in 1 .. n /\ k - 1 \in 0 .. n /\ ~ k <= k - 1
    BY <2>3
  <2>5. k - 1 \in Good
    BY <2>2, <2>4
  <2> QED
    BY <2>3, <2>4, <2>5
<1> QED
  BY <1>1

-----------------------------------------------------------------------------
(* What a client makes of notices on their way to it.                      *)
View   == [Role -> Pos \cup {None}]
What   == {<<"answer">>} \cup {<<"show", v>> : v \in View} \cup {<<"gone", r>> : r \in Role}
          \cup {<<"move", r, p>> : r \in Role, p \in Pos}
Notice == [to : SUBSET (Fd \cup {None}), what : What]

Sees(v, f, n) == IF f \in n.to THEN Seen(v, n.what) ELSE v

Viewed(v, f, w, g) ==
  /\ g \in [0 .. Len(w) -> View] /\ g[0] = v
  /\ \A i \in 1 .. Len(w) : g[i] = Sees(g[i - 1], f, w[i])

Ends(v, f, w, x) == \E g : Viewed(v, f, w, g) /\ x = g[Len(w)]

LEMMA SeenAnswer == \A v : Seen(v, <<"answer">>) = Nobody
BY DEF Seen

LEMMA SeenShow ==
  ASSUME NEW v, NEW u
  PROVE  Seen(v, <<"show", u>>) = [q \in Role |-> IF u[q] # None THEN u[q] ELSE v[q]]
BY DEF Seen

LEMMA SeenGone ==
  ASSUME NEW v, NEW r
  PROVE  Seen(v, <<"gone", r>>) = [v EXCEPT ![r] = None]
BY DEF Seen

LEMMA SeenMove ==
  ASSUME NEW v, NEW r, NEW p
  PROVE  Seen(v, <<"move", r, p>>) = [v EXCEPT ![r] = IF v[r] = None THEN None ELSE p]
BY DEF Seen

LEMMA SeenType ==
  ASSUME NEW v \in View, NEW what \in What
  PROVE  Seen(v, what) \in View
<1>1. CASE what = <<"answer">>
  BY <1>1, SeenAnswer DEF Nobody, View
<1>2. CASE \E u \in View : what = <<"show", u>>
  <2>1. PICK u \in View : what = <<"show", u>>
    BY <1>2
  <2>2. \A q \in Role : u[q] \in Pos \cup {None} /\ v[q] \in Pos \cup {None}
    BY DEF View
  <2>3. [q \in Role |-> IF u[q] # None THEN u[q] ELSE v[q]] \in View
    BY <2>2 DEF View
  <2> QED
    BY <2>1, <2>3, SeenShow
<1>3. CASE \E r \in Role : what = <<"gone", r>>
  <2>1. PICK r \in Role : what = <<"gone", r>>
    BY <1>3
  <2>2. Seen(v, what) = [v EXCEPT ![r] = None]
    BY <2>1, SeenGone, Zenon
  <2>3. [v EXCEPT ![r] = None] \in View
    BY DEF View
  <2> QED
    BY <2>2, <2>3
<1>4. CASE \E r \in Role, p \in Pos : what = <<"move", r, p>>
  <2>1. PICK r \in Role, p \in Pos : what = <<"move", r, p>>
    BY <1>4
  <2>2. Seen(v, what) = [v EXCEPT ![r] = IF v[r] = None THEN None ELSE p]
    BY <2>1, SeenMove, Zenon
  <2>3. [v EXCEPT ![r] = IF v[r] = None THEN None ELSE p] \in View
    BY DEF View
  <2> QED
    BY <2>2, <2>3
<1> QED
  BY <1>1, <1>2, <1>3, <1>4 DEF What

LEMMA SeesType ==
  ASSUME NEW v \in View, NEW f, NEW n \in Notice
  PROVE  Sees(v, f, n) \in View
<1>1. n.what \in What
  BY DEF Notice
<1> QED
  BY <1>1, SeenType DEF Sees

LEMMA NoticeFacts ==
  ASSUME NEW w \in Seq(Notice)
  PROVE  /\ Len(w) \in Nat /\ \A i \in 1 .. Len(w) : w[i] \in Notice
         /\ \A n \in Notice :
              /\ Append(w, n) \in Seq(Notice) /\ Len(Append(w, n)) = Len(w) + 1
              /\ Append(w, n)[Len(w) + 1] = n
              /\ \A i \in 1 .. Len(w) : Append(w, n)[i] = w[i]
         /\ w # << >> =>
              /\ Len(w) > 0 /\ Head(w) = w[1] /\ Head(w) \in Notice
              /\ Tail(w) \in Seq(Notice) /\ Len(Tail(w)) = Len(w) - 1
              /\ \A i \in 1 .. Len(w) - 1 : Tail(w)[i] = w[i + 1]
OBVIOUS

LEMMA EndExists ==
  ASSUME NEW v \in View, NEW f, NEW w \in Seq(Notice)
  PROVE  \E g : Viewed(v, f, w, g)
<1> DEFINE n == Len(w)
           R == [ix \in (1 .. n) \X View |-> Sees(ix[2], f, w[ix[1]])]
<1>1. n \in Nat /\ \A i \in 1 .. n : w[i] \in Notice
  BY NoticeFacts
<1>2. \A i \in 1 .. n : \A x \in View : Sees(x, f, w[i]) \in View
  BY <1>1, SeesType
<1>3. R \in [(1 .. n) \X View -> View]
  BY <1>2
<1>4. \A i \in 1 .. n : \A x \in View : R[<<i, x>>] = Sees(x, f, w[i])
  OBVIOUS
<1> HIDE DEF R, n
<1>5. PICK g : Loop(g, n, View, v, R)
  BY <1>1, <1>3, LoopExists, Zenon
<1>6. \A i \in 1 .. n : i - 1 \in 0 .. n
  BY <1>1
<1>7. \A i \in 1 .. n : g[i] = Sees(g[i - 1], f, w[i])
  BY <1>4, <1>5, <1>6 DEF Loop
<1>8. Viewed(v, f, w, g)
  BY <1>5, <1>7 DEF Loop, Viewed, n
<1> QED
  BY <1>8

LEMMA EndOnce ==
  ASSUME NEW v, NEW f, NEW w \in Seq(Notice), NEW g, NEW h, Viewed(v, f, w, g), Viewed(v, f, w, h)
  PROVE  \A i \in 0 .. Len(w) : g[i] = h[i]
<1> DEFINE Good == {i \in 0 .. Len(w) : g[i] = h[i]}
<1>1. Len(w) \in Nat /\ 0 \in Good
  BY NoticeFacts DEF Viewed
<1>2. \A i \in 1 .. Len(w) : i - 1 \in Good => i \in Good
  BY DEF Viewed
<1> HIDE DEF Good
<1>3. \A i \in 0 .. Len(w) : i \in Good
  BY <1>1, <1>2, LoopKeeps, Zenon
<1> QED
  BY <1>3 DEF Good

LEMMA EndsOnce ==
  ASSUME NEW v, NEW f, NEW w \in Seq(Notice), NEW x, NEW y, Ends(v, f, w, x), Ends(v, f, w, y)
  PROVE  x = y
<1>1. PICK g : Viewed(v, f, w, g) /\ x = g[Len(w)]
  BY DEF Ends
<1>2. PICK h : Viewed(v, f, w, h) /\ y = h[Len(w)]
  BY DEF Ends
<1>3. Len(w) \in 0 .. Len(w)
  BY NoticeFacts
<1> QED
  BY <1>1, <1>2, <1>3, EndOnce

LEMMA EndsType ==
  ASSUME NEW v, NEW f, NEW w \in Seq(Notice), NEW x, Ends(v, f, w, x)
  PROVE  x \in View
<1>1. PICK g : Viewed(v, f, w, g) /\ x = g[Len(w)]
  BY DEF Ends
<1>2. Len(w) \in 0 .. Len(w)
  BY NoticeFacts
<1> QED
  BY <1>1, <1>2 DEF Viewed

LEMMA EndsAppend ==
  ASSUME NEW v, NEW f, NEW w \in Seq(Notice), NEW x, NEW n \in Notice, Ends(v, f, w, x)
  PROVE  Ends(v, f, Append(w, n), Sees(x, f, n))
<1>1. PICK g : Viewed(v, f, w, g) /\ x = g[Len(w)]
  BY DEF Ends
<1>2. /\ Len(w) \in Nat /\ Len(Append(w, n)) = Len(w) + 1 /\ Append(w, n)[Len(w) + 1] = n
      /\ \A i \in 1 .. Len(w) : Append(w, n)[i] = w[i]
  BY NoticeFacts
<1> DEFINE u == Append(w, n)
           m == Len(w)
           y == Sees(x, f, n)
           h == [i \in 0 .. m + 1 |-> IF i = m + 1 THEN y ELSE g[i]]
<1>3. y \in View
  BY EndsType, SeesType
<1> HIDE DEF u, m, y
<1>4. m \in Nat /\ g \in [0 .. m -> View] /\ g[0] = v /\ x = g[m]
      /\ \A i \in 1 .. m : g[i] = Sees(g[i - 1], f, w[i])
  BY <1>1, <1>2 DEF Viewed, m
<1>5. h \in [0 .. m + 1 -> View] /\ h[0] = v /\ h[m + 1] = y /\ h[m] = x
  BY <1>3, <1>4
<1>6. \A i \in 1 .. m + 1 : h[i] = Sees(h[i - 1], f, u[i])
  <2> SUFFICES ASSUME NEW i \in 1 .. m + 1
               PROVE  h[i] = Sees(h[i - 1], f, u[i])
    OBVIOUS
  <2>1. CASE i = m + 1
    <3>1. h[i] = y /\ h[i - 1] = x /\ u[i] = n
      BY <1>2, <1>4, <1>5, <2>1 DEF u, m
    <3> QED
      BY <3>1 DEF y
  <2>2. CASE i # m + 1
    <3>1. i \in 1 .. m /\ i \in 0 .. m + 1 /\ i - 1 \in 0 .. m + 1 /\ i - 1 # m + 1
      BY <1>4, <2>2
    <3>2. h[i] = g[i] /\ h[i - 1] = g[i - 1] /\ u[i] = w[i]
      BY <1>2, <2>2, <3>1 DEF u, m
    <3> QED
      BY <1>4, <3>1, <3>2
  <2> QED
    BY <2>1, <2>2
<1> HIDE DEF h
<1>7. Viewed(v, f, u, h) /\ y = h[Len(u)]
  BY <1>2, <1>5, <1>6 DEF Viewed, u, m
<1> QED
  BY <1>7 DEF Ends, u, y

LEMMA EndsTail ==
  ASSUME NEW v, NEW f, NEW w \in Seq(Notice), NEW x, w # << >>, Ends(v, f, w, x)
  PROVE  Ends(Sees(v, f, Head(w)), f, Tail(w), x)
<1>1. PICK g : Viewed(v, f, w, g) /\ x = g[Len(w)]
  BY DEF Ends
<1> DEFINE m == Len(w)
           u == Tail(w)
           h == [i \in 0 .. m - 1 |-> g[i + 1]]
<1>2. /\ m \in Nat /\ m > 0 /\ Head(w) = w[1] /\ Len(u) = m - 1
      /\ \A i \in 1 .. m - 1 : u[i] = w[i + 1]
  BY NoticeFacts
<1>3. g \in [0 .. m -> View] /\ g[0] = v /\ x = g[m]
      /\ \A i \in 1 .. m : g[i] = Sees(g[i - 1], f, w[i])
  BY <1>1 DEF Viewed
<1> HIDE DEF u, m
<1>4. h \in [0 .. m - 1 -> View] /\ h[m - 1] = x
  BY <1>2, <1>3
<1>5. h[0] = Sees(v, f, Head(w))
  <2>1. 1 \in 1 .. m /\ 1 - 1 = 0 /\ 0 \in 0 .. m - 1 /\ 0 + 1 = 1
    BY <1>2
  <2>2. g[1] = Sees(g[0], f, w[1])
    BY <1>3, <2>1
  <2> QED
    BY <1>2, <1>3, <2>1, <2>2
<1>6. \A i \in 1 .. m - 1 : h[i] = Sees(h[i - 1], f, u[i])
  <2> SUFFICES ASSUME NEW i \in 1 .. m - 1
               PROVE  h[i] = Sees(h[i - 1], f, u[i])
    OBVIOUS
  <2>1. i \in 0 .. m - 1 /\ i - 1 \in 0 .. m - 1 /\ i - 1 + 1 = i /\ i + 1 \in 1 .. m /\ i + 1 - 1 = i
    BY <1>2
  <2>2. h[i] = g[i + 1] /\ h[i - 1] = g[i] /\ u[i] = w[i + 1]
    BY <1>2, <2>1
  <2>3. g[i + 1] = Sees(g[i], f, w[i + 1])
    BY <1>3, <2>1
  <2> QED
    BY <2>2, <2>3
<1> HIDE DEF h
<1>7. Viewed(Sees(v, f, Head(w)), f, u, h) /\ x = h[Len(u)]
  BY <1>2, <1>4, <1>5, <1>6 DEF Viewed
<1> QED
  BY <1>7 DEF Ends, u

(* Behind an answer nothing is left of what was seen before it.            *)
LEMMA EndsAnswer ==
  ASSUME NEW v, NEW z, NEW f, NEW w \in Seq(Notice), NEW x, NEW y,
         NEW k \in 1 .. Len(w), f \in w[k].to, w[k].what[1] = "answer",
         Ends(v, f, w, x), Ends(z, f, w, y)
  PROVE  x = y
<1>1. PICK g : Viewed(v, f, w, g) /\ x = g[Len(w)]
  BY DEF Ends
<1>2. PICK h : Viewed(z, f, w, h) /\ y = h[Len(w)]
  BY DEF Ends
<1> DEFINE Good == {i \in 0 .. Len(w) : i >= k => g[i] = h[i]}
<1>3. Len(w) \in Nat /\ 0 \in Good
  BY NoticeFacts
<1>4. ASSUME NEW i \in 1 .. Len(w), i - 1 \in Good
      PROVE  i \in Good
  <2>1. g[i] = Sees(g[i - 1], f, w[i]) /\ h[i] = Sees(h[i - 1], f, w[i])
    BY <1>1, <1>2 DEF Viewed
  <2>2. CASE i = k
    <3>1. \A u : Sees(u, f, w[i]) = Nobody
      BY <2>2 DEF Sees, Seen
    <3> QED
      BY <2>1, <3>1
  <2>3. CASE i > k
    <3>1. i - 1 >= k
      BY <1>3, <2>3
    <3> QED
      BY <1>4, <2>1, <3>1
  <2>4. CASE i < k
    BY <1>3, <2>4
  <2> QED
    BY <1>3, <2>2, <2>3, <2>4
<1> HIDE DEF Good
<1>5. \A i \in 0 .. Len(w) : i \in Good
  BY <1>3, <1>4, LoopKeeps
<1> QED
  BY <1>1, <1>2, <1>3, <1>5 DEF Good

LEMMA WillSeeIs ==
  ASSUME NEW f \in Fd, sight[f] \in View, wire \in Seq(Notice)
  PROVE  Ends(sight[f], f, wire, WillSee(f))
<1> DEFINE n == Len(wire)
           Round(h) == [k \in 0 .. n |->
              IF k = 0 THEN sight[f]
              ELSE IF f \in wire[k].to THEN Seen(h[k - 1], wire[k].what) ELSE h[k - 1]]
           v == CHOOSE h : h = Round(h)
<1>1. n \in Nat
  BY NoticeFacts
<1>2. WillSee(f) = v[n]
  BY DEF WillSee
<1>3. PICK g : Viewed(sight[f], f, wire, g)
  BY EndExists
<1>4. g \in [0 .. n -> View] /\ \A k \in 0 .. n : g[k] = Round(g)[k]
  <2>1. \A k \in 0 .. n : k # 0 => k \in 1 .. n
    BY <1>1
  <2> QED
    BY <1>3, <2>1 DEF Viewed, Sees
<1>5. g = Round(g)
  BY <1>4
<1>6. v = Round(v)
  <2> HIDE DEF Round
  <2>1. \E h : h = Round(h)
    BY <1>5
  <2> QED
    BY <2>1, Zenon
<1> HIDE DEF v
<1>7. \A k \in 1 .. n : v[k] = Sees(v[k - 1], f, wire[k])
  <2>1. \A k \in 1 .. n : k \in 0 .. n /\ k # 0
    BY <1>1
  <2> QED
    BY <1>6, <2>1 DEF Sees
<1>8. v[0] = sight[f] /\ 0 \in 0 .. n
  BY <1>1, <1>6
<1> DEFINE Same == {k \in 0 .. n : v[k] = g[k]}
<1>9. \A k \in 0 .. n : k \in Same
  <2>1. 0 \in Same
    BY <1>3, <1>8 DEF Viewed
  <2>2. \A k \in 1 .. n : k - 1 \in Same => k \in Same
    BY <1>3, <1>7 DEF Viewed
  <2> HIDE DEF Same
  <2> QED
    BY <1>1, <2>1, <2>2, LoopKeeps, Zenon
<1>10. WillSee(f) = g[n]
  BY <1>1, <1>2, <1>9
<1> QED
  BY <1>3, <1>10 DEF Ends

-----------------------------------------------------------------------------
(* A handler, step by step.                                                *)
Sent    == Fd \cup {None}
Op      == {<<"answer">>, <<"delete">>, <<"gone">>, <<"come">>, <<"list">>, <<"move">>}
           \cup {<<"insert", s>> : s \in Scene}
States(r) ==
  {t \in [place : [Role -> Scene \cup {None}], members : [Scene -> SUBSET Role],
          wire : Seq(Notice), missed : SUBSET Sent, over : BOOLEAN] : t.place[r] \in Scene}

Posts == session' \in [Role -> Sent] /\ path' \in [Role -> Pos]

LEMMA StateFacts ==
  ASSUME NEW r \in Role, NEW t \in States(r)
  PROVE  /\ t.place \in [Role -> Scene \cup {None}] /\ t.members \in [Scene -> SUBSET Role]
         /\ t.wire \in Seq(Notice) /\ t.missed \subseteq Sent /\ t.over \in BOOLEAN
         /\ t.place[r] \in Scene /\ t.members[t.place[r]] \subseteq Role
         /\ DOMAIN t = {"place", "members", "wire", "missed", "over"}
BY Zenon DEF States

(* What u tells more than t: what to those in to.                          *)
Told(t, u, r, to, what) ==
  /\ u \in States(r) /\ u.place = t.place /\ u.members = t.members
  /\ u.missed = t.missed /\ u.over = t.over
  /\ \A f, v, x : Ends(v, f, t.wire, x) =>
       Ends(v, f, u.wire, IF f \in to THEN Seen(x, what) ELSE x)

LEMMA TellIs ==
  ASSUME NEW r \in Role, NEW t \in States(r), NEW to \in SUBSET Sent, NEW what \in What
  PROVE  Told(t, Tell(t, to, what), r, to, what)
<1> DEFINE n == [to |-> to, what |-> what]
           u == Append(t.wire, n)
<1>1. t.wire \in Seq(Notice) /\ n \in Notice /\ n.to = to /\ n.what = what
  BY StateFacts DEF Notice, Sent
<1> HIDE DEF n
<1>2. u \in Seq(Notice)
  BY <1>1
<1>3. ASSUME NEW f, NEW v, NEW x, Ends(v, f, t.wire, x)
      PROVE  Ends(v, f, u, IF f \in to THEN Seen(x, what) ELSE x)
  <2>1. Ends(v, f, u, Sees(x, f, n))
    BY <1>1, <1>3, EndsAppend
  <2>2. Sees(x, f, n) = IF f \in to THEN Seen(x, what) ELSE x
    BY <1>1 DEF Sees
  <2> QED
    BY <2>1, <2>2
<1> HIDE DEF u
<1>4. CASE to = {}
  BY <1>4 DEF Tell, Told
<1>5. CASE to # {}
  <2>1. Tell(t, to, what) = [t EXCEPT !.wire = u]
    BY <1>5 DEF Tell, u, n
  <2>2. /\ [t EXCEPT !.wire = u] \in States(r)
        /\ [t EXCEPT !.wire = u].place = t.place /\ [t EXCEPT !.wire = u].members = t.members
        /\ [t EXCEPT !.wire = u].missed = t.missed /\ [t EXCEPT !.wire = u].over = t.over
        /\ [t EXCEPT !.wire = u].wire = u
    BY <1>2 DEF States
  <2> QED
    BY <1>3, <2>1, <2>2 DEF Told
<1> QED
  BY <1>4, <1>5

LEMMA NoticesAre ==
  /\ <<"answer">> \in What
  /\ \A R, w : R \in SUBSET Role /\ w \in [Role -> Pos] => Shown(R, w) \in View /\ <<"show", Shown(R, w)>> \in What
  /\ \A r \in Role : <<"gone", r>> \in What /\ \A p \in Pos : <<"move", r, p>> \in What
<1>1. ASSUME NEW R, NEW w, R \in SUBSET Role, w \in [Role -> Pos]
      PROVE  Shown(R, w) \in View
  BY <1>1 DEF Shown, View
<1> QED
  BY <1>1 DEF What

LEMMA OthersType ==
  ASSUME Posts, NEW r \in Role, NEW t \in States(r)
  PROVE  Others(t, r) \in SUBSET Sent
BY StateFacts DEF Posts, Others

LEMMA OpCases ==
  ASSUME NEW op \in Op
  PROVE  \/ op = <<"answer">> /\ \A t, r : ~ t.over => Step(t, r, op) = Answer(t, r)
         \/ op = <<"delete">> /\ \A t, r : ~ t.over => Step(t, r, op) = Delete(t, r)
         \/ op = <<"gone">> /\ \A t, r : ~ t.over => Step(t, r, op) = TellGone(t, r)
         \/ op = <<"come">> /\ \A t, r : ~ t.over => Step(t, r, op) = TellCome(t, r)
         \/ op = <<"list">> /\ \A t, r : ~ t.over => Step(t, r, op) = TellThere(t, r)
         \/ op = <<"move">> /\ \A t, r : ~ t.over => Step(t, r, op) = TellMove(t, r)
         \/ \E s \in Scene : op = <<"insert", s>> /\ \A t, r : ~ t.over => Step(t, r, op) = Insert(t, r, s)
<1>1. CASE op = <<"answer">>
  BY <1>1 DEF Step
<1>2. CASE op = <<"delete">>
  BY <1>2 DEF Step
<1>3. CASE op = <<"gone">>
  BY <1>3 DEF Step
<1>4. CASE op = <<"come">>
  BY <1>4 DEF Step
<1>5. CASE op = <<"list">>
  BY <1>5 DEF Step
<1>6. CASE op = <<"move">>
  BY <1>6 DEF Step
<1>7. CASE \E s \in Scene : op = <<"insert", s>>
  <2>1. PICK s \in Scene : op = <<"insert", s>>
    BY <1>7
  <2>2. op[1] = "insert" /\ op[2] = s
    BY <2>1
  <2>3. \A t, r : ~ t.over => Step(t, r, op) = Insert(t, r, s)
    BY <2>2 DEF Step
  <2> QED
    BY <2>1, <2>3
<1> QED
  BY <1>1, <1>2, <1>3, <1>4, <1>5, <1>6, <1>7 DEF Op

LEMMA OverStays == \A t, r, op : t.over => Step(t, r, op) = t
BY DEF Step

LEMMA AnswerIs ==
  ASSUME Posts, NEW r \in Role, NEW t \in States(r)
  PROVE  /\ Answer(t, r) \in States(r)
         /\ Answer(t, r).place = t.place /\ Answer(t, r).members = t.members
         /\ Answer(t, r).missed = t.missed \ {session'[r]} /\ Answer(t, r).over = t.over
         /\ \A f, v, x : Ends(v, f, t.wire, x) =>
              Ends(v, f, Answer(t, r).wire, IF f = session'[r] THEN Nobody ELSE x)
<1> DEFINE to == {session'[r]}
           u  == Tell(t, to, <<"answer">>)
           m  == t.missed \ {session'[r]}
<1>1. to \in SUBSET Sent /\ <<"answer">> \in What
  BY NoticesAre DEF Posts
<1>2. Told(t, u, r, to, <<"answer">>)
  BY <1>1, TellIs, Zenon
<1>3. m \subseteq Sent
  BY StateFacts
<1>4. Answer(t, r) = [u EXCEPT !.missed = m]
  BY <1>2 DEF Answer, Told
<1>5. u \in States(r) /\ u.place = t.place /\ u.members = t.members /\ u.over = t.over
  BY <1>2 DEF Told
<1>6. \A f, v, x : Ends(v, f, t.wire, x) => Ends(v, f, u.wire, IF f = session'[r] THEN Nobody ELSE x)
  <2> SUFFICES ASSUME NEW f, NEW v, NEW x, Ends(v, f, t.wire, x)
               PROVE  Ends(v, f, u.wire, IF f = session'[r] THEN Nobody ELSE x)
    OBVIOUS
  <2> HIDE DEF u
  <2>1. Ends(v, f, u.wire, IF f \in to THEN Seen(x, <<"answer">>) ELSE x)
    BY <1>2 DEF Told
  <2>2. (IF f \in to THEN Seen(x, <<"answer">>) ELSE x) = IF f = session'[r] THEN Nobody ELSE x
    BY SeenAnswer
  <2> QED
    BY <2>1, <2>2
<1> HIDE DEF u, m
<1>7. /\ [u EXCEPT !.missed = m] \in States(r)
      /\ [u EXCEPT !.missed = m].place = u.place /\ [u EXCEPT !.missed = m].members = u.members
      /\ [u EXCEPT !.missed = m].wire = u.wire /\ [u EXCEPT !.missed = m].over = u.over
      /\ [u EXCEPT !.missed = m].missed = m
  BY <1>3, <1>5 DEF States
<1> QED
  BY <1>4, <1>5, <1>6, <1>7 DEF m

LEMMA DeleteIs ==
  ASSUME NEW r \in Role, NEW t \in States(r)
  PROVE  /\ Delete(t, r) \in States(r)
         /\ Delete(t, r).place = t.place /\ Delete(t, r).wire = t.wire
         /\ Delete(t, r).missed = t.missed /\ Delete(t, r).over = t.over
         /\ Delete(t, r).members = [t.members EXCEPT ![t.place[r]] = t.members[t.place[r]] \ {r}]
<1> DEFINE m == [t.members EXCEPT ![t.place[r]] = t.members[t.place[r]] \ {r}]
<1>1. m \in [Scene -> SUBSET Role]
  BY StateFacts
<1>2. Delete(t, r) = [t EXCEPT !.members = m]
  BY StateFacts DEF Delete
<1> HIDE DEF m
<1>3. /\ [t EXCEPT !.members = m] \in States(r)
      /\ [t EXCEPT !.members = m].place = t.place /\ [t EXCEPT !.members = m].wire = t.wire
      /\ [t EXCEPT !.members = m].missed = t.missed /\ [t EXCEPT !.members = m].over = t.over
      /\ [t EXCEPT !.members = m].members = m
  BY <1>1 DEF States
<1> QED
  BY <1>2, <1>3 DEF m

(* The two outcomes of array_insert.                                       *)
Refused(t, u, r, s) ==
  /\ u.over = TRUE /\ u.members = t.members /\ u.place = t.place
  /\ IF r \in t.members[s] THEN u.missed = t.missed \cup {session'[r]} ELSE u.missed = t.missed
Accepted(t, u, r, s) ==
  /\ ~ (Cardinality(t.members[s]) >= Cap) /\ r \notin t.members[s]
  /\ u.over = t.over /\ u.missed = t.missed
  /\ u.members = [t.members EXCEPT ![s] = t.members[s] \cup {r}]
  /\ u.place = [t.place EXCEPT ![r] = s]
Inserted(t, u, r, s) ==
  u \in States(r) /\ u.wire = t.wire /\ (Refused(t, u, r, s) \/ Accepted(t, u, r, s))

LEMMA InsertIs ==
  ASSUME Posts, NEW r \in Role, NEW t \in States(r), NEW s \in Scene
  PROVE  Inserted(t, Insert(t, r, s), r, s)
<1>1. CASE r \in t.members[s] \/ Cardinality(t.members[s]) >= Cap
  <2> DEFINE e == IF r \in t.members[s] THEN t.missed \cup {session'[r]} ELSE t.missed
  <2>1. e \subseteq Sent
    BY StateFacts DEF Posts
  <2>2. Insert(t, r, s) = [t EXCEPT !.over = TRUE, !.missed = e]
    BY <1>1, StateFacts DEF Insert
  <2> HIDE DEF e
  <2> DEFINE u == [t EXCEPT !.over = TRUE, !.missed = e]
  <2>3. /\ u \in States(r) /\ u.wire = t.wire /\ u.over = TRUE /\ u.members = t.members
        /\ u.place = t.place /\ u.missed = e
    BY <2>1 DEF States
  <2> QED
    BY <2>2, <2>3 DEF e, Inserted, Refused
<1>2. CASE ~ (r \in t.members[s] \/ Cardinality(t.members[s]) >= Cap)
  <2> DEFINE m == [t.members EXCEPT ![s] = t.members[s] \cup {r}]
             p == [t.place EXCEPT ![r] = s]
  <2>1. m \in [Scene -> SUBSET Role] /\ p \in [Role -> Scene \cup {None}] /\ p[r] \in Scene
    BY StateFacts
  <2>2. Insert(t, r, s) = [t EXCEPT !.members = m, !.place = p]
    BY <1>2, StateFacts DEF Insert
  <2> HIDE DEF m, p
  <2> DEFINE u == [t EXCEPT !.members = m, !.place = p]
  <2>3. /\ u \in States(r) /\ u.wire = t.wire /\ u.over = t.over /\ u.members = m
        /\ u.place = p /\ u.missed = t.missed
    BY <2>1 DEF States
  <2> QED
    BY <1>2, <2>2, <2>3 DEF m, p, Inserted, Accepted
<1> QED
  BY <1>1, <1>2

-----------------------------------------------------------------------------
(* What a step leaves of the tables.  A role is listed only where it is.   *)
Listed(pl, mem) ==
  /\ \A s \in Scene : IsFiniteSet(mem[s]) /\ Cardinality(mem[s]) <= Cap
  /\ \A s \in Scene : \A q \in mem[s] : pl[q] = s

(* A handler of r leaves everyone else where they are.                     *)
Fit(t, r) ==
  /\ t \in States(r) /\ Listed(t.place, t.members)
  /\ \A q \in Role \ {r} : t.place[q] = place[q]
  /\ \A s \in Scene : t.members[s] \subseteq members[s] \cup {r}
  /\ t.missed \subseteq missed \cup {session'[r]}

Free(t, r) == \A s \in Scene : r \notin t.members[s]

LEMMA TellsAre ==
  ASSUME Posts, NEW r \in Role, NEW t \in States(r)
  PROVE  /\ Told(t, TellGone(t, r), r, Others(t, r), <<"gone", r>>)
         /\ Told(t, TellCome(t, r), r, Others(t, r), <<"show", Shown({r}, path')>>)
         /\ Told(t, TellMove(t, r), r, Others(t, r), <<"move", r, path'[r]>>)
         /\ Told(t, TellThere(t, r), r,
                 IF t.members[t.place[r]] \ {r} = {} THEN {} ELSE {session'[r]},
                 <<"show", Shown(t.members[t.place[r]] \ {r}, path')>>)
<1>1. Others(t, r) \in SUBSET Sent
  BY OthersType
<1>2. <<"gone", r>> \in What /\ <<"move", r, path'[r]>> \in What
  BY NoticesAre DEF Posts
<1>3. \A R \in SUBSET Role : <<"show", Shown(R, path')>> \in What
  BY NoticesAre DEF Posts
<1>4. t.members[t.place[r]] \ {r} \in SUBSET Role /\ {r} \in SUBSET Role
  BY StateFacts
<1>5. (IF t.members[t.place[r]] \ {r} = {} THEN {} ELSE {session'[r]}) \in SUBSET Sent
  BY DEF Posts
<1>6. Told(t, TellGone(t, r), r, Others(t, r), <<"gone", r>>)
  BY <1>1, <1>2, TellIs, Zenon DEF TellGone
<1>7. Told(t, TellCome(t, r), r, Others(t, r), <<"show", Shown({r}, path')>>)
  BY <1>1, <1>3, <1>4, TellIs, Zenon DEF TellCome
<1>8. Told(t, TellMove(t, r), r, Others(t, r), <<"move", r, path'[r]>>)
  BY <1>1, <1>2, TellIs, Zenon DEF TellMove
<1>9. Told(t, TellThere(t, r), r,
           IF t.members[t.place[r]] \ {r} = {} THEN {} ELSE {session'[r]},
           <<"show", Shown(t.members[t.place[r]] \ {r}, path')>>)
  BY <1>3, <1>4, <1>5, TellIs, Zenon DEF TellThere
<1> QED
  BY <1>6, <1>7, <1>8, <1>9

LEMMA FitTold ==
  ASSUME NEW r, NEW t, NEW u, NEW to, NEW what, Fit(t, r), Told(t, u, r, to, what)
  PROVE  Fit(u, r) /\ (Free(t, r) => Free(u, r))
BY DEF Fit, Told, Free

LEMMA FitAnswer ==
  ASSUME Posts, NEW r \in Role, NEW t, Fit(t, r)
  PROVE  Fit(Answer(t, r), r) /\ (Free(t, r) => Free(Answer(t, r), r))
BY AnswerIs DEF Fit, Free

LEMMA FitDelete ==
  ASSUME NEW r \in Role, NEW t, Fit(t, r)
  PROVE  Fit(Delete(t, r), r) /\ Free(Delete(t, r), r)
<1> DEFINE z == t.place[r]
           u == Delete(t, r)
           m == [t.members EXCEPT ![z] = t.members[z] \ {r}]
<1>1. /\ t \in States(r) /\ z \in Scene /\ t.members \in [Scene -> SUBSET Role]
      /\ u \in States(r) /\ u.place = t.place /\ u.missed = t.missed /\ u.members = m
  BY StateFacts, DeleteIs DEF Fit
<1>2. /\ \A s \in Scene : IsFiniteSet(t.members[s]) /\ Cardinality(t.members[s]) <= Cap
      /\ \A s \in Scene : \A q \in t.members[s] : t.place[q] = s
  BY DEF Fit, Listed
<1> HIDE DEF z, u
<1>3. m[z] = t.members[z] \ {r} /\ \A s \in Scene : s # z => m[s] = t.members[s]
  BY <1>1
<1> HIDE DEF m
<1>4. IsFiniteSet(m[z]) /\ Cardinality(m[z]) <= Cap
  <2>1. IsFiniteSet(m[z]) /\ Cardinality(m[z]) <= Cardinality(t.members[z])
    BY <1>1, <1>2, <1>3, FS_Subset
  <2>2. Cardinality(m[z]) \in Nat /\ Cardinality(t.members[z]) \in Nat
    BY <1>1, <1>2, <2>1, FS_CardinalityType
  <2> QED
    BY <1>1, <1>2, <2>1, <2>2, SightAssumption
<1>5. \A s \in Scene : m[s] \subseteq t.members[s]
  BY <1>1, <1>3
<1>6. Listed(t.place, m)
  BY <1>2, <1>3, <1>4, <1>5 DEF Listed
<1>7. \A s \in Scene : r \notin m[s]
  BY <1>2, <1>3 DEF z
<1>8. /\ \A q \in Role \ {r} : t.place[q] = place[q]
      /\ \A s \in Scene : t.members[s] \subseteq members[s] \cup {r}
      /\ t.missed \subseteq missed \cup {session'[r]}
  BY DEF Fit
<1>9. Fit(u, r) /\ Free(u, r)
  BY <1>1, <1>5, <1>6, <1>7, <1>8 DEF Fit, Free
<1> QED
  BY <1>9 DEF u

LEMMA FitInsert ==
  ASSUME Posts, NEW r \in Role, NEW t, NEW s \in Scene, Fit(t, r), Free(t, r) \/ s = t.place[r]
  PROVE  Fit(Insert(t, r, s), r)
<1> DEFINE u == Insert(t, r, s)
           m == [t.members EXCEPT ![s] = t.members[s] \cup {r}]
           p == [t.place EXCEPT ![r] = s]
<1>1. /\ t \in States(r) /\ t.members \in [Scene -> SUBSET Role] /\ t.place \in [Role -> Scene \cup {None}]
      /\ t.missed \subseteq missed \cup {session'[r]}
  BY StateFacts DEF Fit
<1>0. Inserted(t, u, r, s)
  BY <1>1, InsertIs, Zenon
<1>2. \/ u.members = t.members /\ u.place = t.place /\ u.missed \subseteq t.missed \cup {session'[r]}
      \/ /\ ~ (Cardinality(t.members[s]) >= Cap) /\ r \notin t.members[s]
         /\ u.missed = t.missed /\ u.members = m /\ u.place = p
  <2> HIDE DEF u
  <2> QED
    BY <1>0 DEF Inserted, Refused, Accepted
<1> HIDE DEF u
<1>3. /\ \A z \in Scene : IsFiniteSet(t.members[z]) /\ Cardinality(t.members[z]) <= Cap
      /\ \A z \in Scene : \A q \in t.members[z] : t.place[q] = z
      /\ \A q \in Role \ {r} : t.place[q] = place[q]
      /\ \A z \in Scene : t.members[z] \subseteq members[z] \cup {r}
  BY DEF Fit, Listed
<1>4. CASE u.members = t.members /\ u.place = t.place /\ u.missed \subseteq t.missed \cup {session'[r]}
  <2>1. Fit(u, r)
    BY <1>0, <1>1, <1>4 DEF Fit, Inserted
  <2> QED
    BY <2>1 DEF u
<1>5. CASE /\ ~ (Cardinality(t.members[s]) >= Cap) /\ r \notin t.members[s]
           /\ u.missed = t.missed /\ u.members = m /\ u.place = p
  <2>1. /\ m[s] = t.members[s] \cup {r} /\ \A z \in Scene : z # s => m[z] = t.members[z]
        /\ p[r] = s /\ \A q \in Role : q # r => p[q] = t.place[q]
    BY <1>1
  <2> HIDE DEF m, p
  <2>2. IsFiniteSet(m[s]) /\ Cardinality(m[s]) = Cardinality(t.members[s]) + 1
    <3>1. IsFiniteSet(t.members[s]) /\ r \notin t.members[s]
      BY <1>3, <1>5
    <3>2. /\ IsFiniteSet(t.members[s] \cup {r})
          /\ Cardinality(t.members[s] \cup {r}) = Cardinality(t.members[s]) + 1
      BY <3>1, FS_AddElement
    <3> QED
      BY <2>1, <3>2
  <2>3. Cardinality(m[s]) <= Cap
    <3>1. Cardinality(t.members[s]) \in Nat
      BY <1>3, FS_CardinalityType
    <3> QED
      BY <1>5, <2>2, <3>1, SightAssumption
  <2>4. \A z \in Scene : z # s => r \notin t.members[z]
    BY <1>3 DEF Free
  <2>5. \A z \in Scene : \A q \in m[z] : p[q] = z
    BY <1>1, <1>3, <2>1, <2>4
  <2>6. Listed(p, m)
    BY <1>3, <2>1, <2>2, <2>3, <2>5 DEF Listed
  <2>7. \A z \in Scene : m[z] \subseteq members[z] \cup {r}
    BY <1>3, <2>1
  <2>8. \A q \in Role \ {r} : p[q] = place[q]
    BY <1>3, <2>1
  <2>9. Fit(u, r)
    BY <1>0, <1>1, <1>5, <2>6, <2>7, <2>8 DEF Fit, Inserted
  <2> QED
    BY <2>9 DEF u
<1> QED
  BY <1>2, <1>4, <1>5

-----------------------------------------------------------------------------
(* What a step leaves of the sight of the others, and of its own.          *)
Distinct == \A q, p \in Role : session'[q] = session'[p] /\ session'[q] # None => q = p

ThereIn(pl, mem, q, pa) == IF q \in mem[pl[q]] THEN Shown(mem[pl[q]] \ {q}, pa) ELSE Nobody

Views(t, q, x) == Ends(sight[session'[q]], session'[q], t.wire, x)

Keeps(t, u, r, pa) ==
  \A q \in Role \ {r} :
    session'[q] # None /\ t.place[q] # None /\ Views(t, q, ThereIn(t.place, t.members, q, pa))
      => Views(u, q, ThereIn(u.place, u.members, q, pa))

LEMMA IsOther ==
  ASSUME Distinct, NEW r \in Role, NEW t \in States(r), NEW q \in Role, session'[q] # None
  PROVE  session'[q] \in Others(t, r) <=> q \in t.members[t.place[r]] \ {r}
<1>1. t.members[t.place[r]] \subseteq Role
  BY StateFacts
<1> QED
  BY <1>1 DEF Others, Distinct

LEMMA ToldViews ==
  ASSUME NEW r, NEW t, NEW u, NEW to, NEW what, Told(t, u, r, to, what),
         NEW q, NEW x, Views(t, q, x)
  PROVE  Views(u, q, IF session'[q] \in to THEN Seen(x, what) ELSE x)
BY Zenon DEF Told, Views

LEMMA ToldIn ==
  ASSUME NEW r, NEW t, NEW u, NEW to, NEW what, Told(t, u, r, to, what),
         NEW q, NEW x, Views(t, q, x), session'[q] \in to
  PROVE  Views(u, q, Seen(x, what))
BY ToldViews

LEMMA ToldOut ==
  ASSUME NEW r, NEW t, NEW u, NEW to, NEW what, Told(t, u, r, to, what),
         NEW q, NEW x, Views(t, q, x), session'[q] \notin to
  PROVE  Views(u, q, x)
BY ToldViews

LEMMA ShownLess ==
  ASSUME NEW R, NEW pa, NEW r
  PROVE  Seen(Shown(R, pa), <<"gone", r>>) = Shown(R \ {r}, pa)
<1>1. Seen(Shown(R, pa), <<"gone", r>>) = [Shown(R, pa) EXCEPT ![r] = None]
  BY SeenGone
<1> QED
  BY <1>1 DEF Shown

LEMMA ShownMore ==
  ASSUME NEW R, NEW r \in Role, NEW pa \in [Role -> Pos]
  PROVE  Seen(Shown(R, pa), <<"show", Shown({r}, pa)>>) = Shown(R \cup {r}, pa)
<1>1. Seen(Shown(R, pa), <<"show", Shown({r}, pa)>>)
      = [q \in Role |-> IF Shown({r}, pa)[q] # None THEN Shown({r}, pa)[q] ELSE Shown(R, pa)[q]]
  BY SeenShow
<1>2. \A q \in Role : pa[q] # None
  BY SightAssumption
<1> QED
  BY <1>1, <1>2 DEF Shown

LEMMA ShownNew ==
  ASSUME NEW R, NEW pa \in [Role -> Pos]
  PROVE  Seen(Nobody, <<"show", Shown(R, pa)>>) = Shown(R, pa)
<1>1. Seen(Nobody, <<"show", Shown(R, pa)>>)
      = [q \in Role |-> IF Shown(R, pa)[q] # None THEN Shown(R, pa)[q] ELSE Nobody[q]]
  BY SeenShow
<1> QED
  BY <1>1 DEF Shown, Nobody

LEMMA ShownMoved ==
  ASSUME NEW R, NEW r \in R, NEW pa \in [Role -> Pos], NEW pb \in [Role -> Pos],
         R \subseteq Role, \A q \in Role \ {r} : pa[q] = pb[q]
  PROVE  Seen(Shown(R, pa), <<"move", r, pb[r]>>) = Shown(R, pb)
<1>1. Seen(Shown(R, pa), <<"move", r, pb[r]>>)
      = [Shown(R, pa) EXCEPT ![r] = IF Shown(R, pa)[r] = None THEN None ELSE pb[r]]
  BY SeenMove
<1>2. \A q \in Role : pa[q] # None
  BY SightAssumption
<1> QED
  BY <1>1, <1>2 DEF Shown

LEMMA ShownAlone == \A pa : Shown({}, pa) = Nobody
BY DEF Shown, Nobody

(* The tables a role leaves.                                               *)
Left(t, u, r) ==
  /\ Fit(u, r) /\ Free(u, r)
  /\ u.over = t.over /\ u.missed = t.missed /\ u.place = t.place
  /\ \A pa \in [Role -> Pos] : Keeps(t, u, r, pa)
  /\ \A x : session'[r] # None /\ Views(t, r, x) => Views(u, r, x)

LEMMA GoneIs ==
  ASSUME Posts, Distinct, NEW r \in Role, NEW t, Fit(t, r)
  PROVE  Left(t, TellGone(Delete(t, r), r), r)
<1> DEFINE z == t.place[r]
           d == Delete(t, r)
           u == TellGone(d, r)
           m == [t.members EXCEPT ![z] = t.members[z] \ {r}]
<1>1. /\ t \in States(r) /\ z \in Scene /\ t.members \in [Scene -> SUBSET Role]
      /\ t.place \in [Role -> Scene \cup {None}]
      /\ \A s \in Scene : \A q \in t.members[s] : t.place[q] = s
  BY StateFacts DEF Fit, Listed
<1>2. /\ d \in States(r) /\ d.place = t.place /\ d.wire = t.wire
      /\ d.missed = t.missed /\ d.over = t.over /\ d.members = m
  BY <1>1, DeleteIs
<1>3. Fit(d, r) /\ Free(d, r)
  BY FitDelete
<1> HIDE DEF d
<1>4. Told(d, u, r, Others(d, r), <<"gone", r>>)
  BY <1>2, TellsAre
<1> HIDE DEF u
<1>5. Fit(u, r) /\ Free(u, r)
  BY <1>3, <1>4, FitTold
<1>6. u.over = t.over /\ u.missed = t.missed /\ u.place = t.place /\ u.members = m
  BY <1>2, <1>4 DEF Told
<1>7. m[z] = t.members[z] \ {r} /\ \A s \in Scene : s # z => m[s] = t.members[s]
  BY <1>1
<1>8. \A q, x : Views(t, q, x) <=> Views(d, q, x)
  BY <1>2 DEF Views
<1>9. \A q \in Role : session'[q] # None => (session'[q] \in Others(d, r) <=> q \in m[z] \ {r})
  <2> SUFFICES ASSUME NEW q \in Role, session'[q] # None
               PROVE  session'[q] \in Others(d, r) <=> q \in m[z] \ {r}
    OBVIOUS
  <2> HIDE DEF m
  <2>1. session'[q] \in Others(d, r) <=> q \in d.members[d.place[r]] \ {r}
    BY <1>2, IsOther
  <2> QED
    BY <1>2, <2>1
<1> HIDE DEF m
<1>10. ASSUME NEW pa \in [Role -> Pos], NEW q \in Role \ {r}, session'[q] # None, t.place[q] # None,
              Views(t, q, ThereIn(t.place, t.members, q, pa))
       PROVE  Views(u, q, ThereIn(u.place, u.members, q, pa))
  <2> DEFINE x == ThereIn(t.place, t.members, q, pa)
             y == ThereIn(u.place, u.members, q, pa)
  <2>0. Views(d, q, x)
    BY <1>8, <1>10
  <2>1. CASE q \in t.members[z]
    <3>1. t.place[q] = z /\ q \in m[z] \ {r} /\ m[z] \ {q} = (t.members[z] \ {q}) \ {r}
      BY <1>1, <1>7, <2>1
    <3>2. x = Shown(t.members[z] \ {q}, pa)
      BY <2>1, <3>1 DEF ThereIn
    <3>3. y = Shown(m[z] \ {q}, pa)
      BY <1>6, <3>1 DEF ThereIn
    <3>4. Seen(x, <<"gone", r>>) = y
      BY <3>1, <3>2, <3>3, ShownLess
    <3>5. session'[q] \in Others(d, r)
      BY <1>9, <1>10, <3>1
    <3> HIDE DEF x, y
    <3>6. Views(u, q, Seen(x, <<"gone", r>>))
      BY <1>4, <2>0, <3>5, ToldIn
    <3> QED
      BY <3>4, <3>6 DEF y
  <2>2. CASE q \notin t.members[z]
    <3>1. q \notin m[z] /\ (t.place[q] = z \/ m[t.place[q]] = t.members[t.place[q]])
      BY <1>1, <1>7, <1>10, <2>2
    <3>2. x = y
      BY <1>6, <2>2, <3>1 DEF ThereIn
    <3>3. session'[q] \notin Others(d, r)
      BY <1>9, <1>10, <3>1
    <3> HIDE DEF x, y
    <3>4. Views(u, q, x)
      BY <1>4, <2>0, <3>3, ToldOut
    <3> QED
      BY <3>2, <3>4 DEF y
  <2> QED
    BY <2>1, <2>2
<1>11. ASSUME NEW x, session'[r] # None, Views(t, r, x)
       PROVE  Views(u, r, x)
  <2>1. session'[r] \notin Others(d, r)
    BY <1>9, <1>11
  <2>2. Views(d, r, x)
    BY <1>8, <1>11
  <2> QED
    BY <1>4, <2>1, <2>2, ToldOut
<1>12. Left(t, u, r)
  BY <1>5, <1>6, <1>10, <1>11 DEF Left, Keeps
<1> QED
  BY <1>12 DEF u, d

LEMMA AnswerKeeps ==
  ASSUME Posts, Distinct, NEW r \in Role, NEW t, Fit(t, r), session'[r] # None
  PROVE  /\ \A pa : Keeps(t, Answer(t, r), r, pa)
         /\ \A x : Views(t, r, x) => Views(Answer(t, r), r, Nobody)
<1> DEFINE u == Answer(t, r)
<1>1. t \in States(r)
  BY DEF Fit
<1>2. /\ u.place = t.place /\ u.members = t.members
      /\ \A f, v, x : Ends(v, f, t.wire, x) => Ends(v, f, u.wire, IF f = session'[r] THEN Nobody ELSE x)
  BY <1>1, AnswerIs
<1> HIDE DEF u
<1>3. ASSUME NEW q \in Role \ {r}, session'[q] # None, NEW x, Views(t, q, x)
      PROVE  Views(u, q, x)
  <2>1. session'[q] # session'[r]
    BY <1>3 DEF Distinct
  <2>2. Ends(sight[session'[q]], session'[q], u.wire, IF session'[q] = session'[r] THEN Nobody ELSE x)
    BY <1>2, <1>3, Zenon DEF Views
  <2> QED
    BY <2>1, <2>2 DEF Views
<1>4. ASSUME NEW x, Views(t, r, x)
      PROVE  Views(u, r, Nobody)
  <2>1. Ends(sight[session'[r]], session'[r], u.wire, IF session'[r] = session'[r] THEN Nobody ELSE x)
    BY <1>2, <1>4, Zenon DEF Views
  <2> QED
    BY <2>1 DEF Views
<1>5. \A pa : Keeps(t, u, r, pa)
  BY <1>2, <1>3 DEF Keeps
<1> QED
  BY <1>4, <1>5 DEF u

LEMMA InsertKeeps ==
  ASSUME NEW r \in Role, NEW t, NEW i, NEW s \in Scene, Fit(t, r), Inserted(t, i, r, s)
  PROVE  \A q \in Role : \A x : Views(t, q, x) => Views(i, q, x)
BY DEF Inserted, Views

(* The tables a role comes to.                                             *)
Come1(t, r, s) == TellCome(Insert(t, r, s), r)
Come2(t, r, s) == TellThere(Come1(t, r, s), r)

LEMMA ComeIs ==
  ASSUME Posts, Distinct, NEW r \in Role, NEW t, NEW s \in Scene, Fit(t, r),
         Free(t, r) \/ s = t.place[r], session'[r] # None,
         NEW i, i = Insert(t, r, s), Accepted(t, i, r, s)
  PROVE  /\ Fit(Come1(t, r, s), r) /\ Fit(Come2(t, r, s), r)
         /\ Come1(t, r, s).over = t.over /\ Come2(t, r, s).missed = t.missed
         /\ Keeps(t, Come2(t, r, s), r, path')
         /\ Views(t, r, Nobody) =>
              LET u == Come2(t, r, s) IN Views(u, r, ThereIn(u.place, u.members, r, path'))
<1> DEFINE c == Come1(t, r, s)
           u == Come2(t, r, s)
           m == [t.members EXCEPT ![s] = t.members[s] \cup {r}]
           p == [t.place EXCEPT ![r] = s]
<1>1. /\ t \in States(r) /\ t.members \in [Scene -> SUBSET Role]
      /\ t.place \in [Role -> Scene \cup {None}] /\ path' \in [Role -> Pos]
      /\ \A z \in Scene : \A q \in t.members[z] : t.place[q] = z
  BY StateFacts DEF Fit, Listed, Posts
<1>2. Fit(i, r) /\ Inserted(t, i, r, s)
  BY <1>1, FitInsert, InsertIs
<1>3. /\ i \in States(r) /\ i.members = m /\ i.place = p
      /\ i.over = t.over /\ i.missed = t.missed /\ r \notin t.members[s]
  BY <1>2 DEF Accepted, Inserted
<1>4. Told(i, c, r, Others(i, r), <<"show", Shown({r}, path')>>)
  BY <1>3, TellsAre DEF Come1
<1> HIDE DEF c
<1>5. /\ c \in States(r) /\ c.members = m /\ c.place = p
      /\ c.over = t.over /\ c.missed = t.missed /\ Fit(c, r)
  BY <1>2, <1>3, <1>4, FitTold DEF Told
<1>6. /\ m[s] = t.members[s] \cup {r} /\ \A z \in Scene : z # s => m[z] = t.members[z]
      /\ p[r] = s /\ \A q \in Role : q # r => p[q] = t.place[q]
  BY <1>1
<1> HIDE DEF m, p
<1>7. m[s] \ {r} = t.members[s] /\ t.members[s] \subseteq Role
  BY <1>1, <1>3, <1>6
<1> DEFINE to == IF t.members[s] = {} THEN {} ELSE {session'[r]}
<1>8. Told(c, u, r, to, <<"show", Shown(t.members[s], path')>>)
  <2>1. Told(c, TellThere(c, r), r,
             IF c.members[c.place[r]] \ {r} = {} THEN {} ELSE {session'[r]},
             <<"show", Shown(c.members[c.place[r]] \ {r}, path')>>)
    BY <1>5, TellsAre
  <2>2. c.members[c.place[r]] \ {r} = t.members[s]
    BY <1>5, <1>6, <1>7
  <2>3. u = TellThere(c, r)
    BY DEF Come2, c
  <2> QED
    BY <2>1, <2>2, <2>3
<1> HIDE DEF u
<1>9. u.members = m /\ u.place = p /\ u.missed = t.missed /\ Fit(u, r)
  <2> HIDE DEF to
  <2>1. Fit(u, r)
    BY <1>5, <1>8, FitTold, Zenon
  <2> QED
    BY <1>5, <1>8, <2>1 DEF Told
<1>10. \A q \in Role : session'[q] # None => (session'[q] \in Others(i, r) <=> q \in t.members[s])
  <2> SUFFICES ASSUME NEW q \in Role, session'[q] # None
               PROVE  session'[q] \in Others(i, r) <=> q \in t.members[s]
    OBVIOUS
  <2>1. session'[q] \in Others(i, r) <=> q \in i.members[i.place[r]] \ {r}
    BY <1>3, IsOther
  <2> QED
    BY <1>3, <1>6, <1>7, <2>1
<1>11. ASSUME NEW q \in Role \ {r}, session'[q] # None, t.place[q] # None,
              Views(t, q, ThereIn(t.place, t.members, q, path'))
       PROVE  Views(u, q, ThereIn(u.place, u.members, q, path'))
  <2> DEFINE x == ThereIn(t.place, t.members, q, path')
             y == ThereIn(u.place, u.members, q, path')
  <2>1. Views(i, q, x)
    BY <1>2, <1>11, InsertKeeps
  <2>2. p[q] = t.place[q]
    BY <1>6
  <2>3. session'[q] \notin to
    BY <1>11 DEF Distinct
  <2>4. CASE q \in t.members[s]
    <3>1. t.place[q] = s /\ q \in m[s] /\ m[s] \ {q} = (t.members[s] \ {q}) \cup {r}
      BY <1>1, <1>6, <2>4
    <3>2. x = Shown(t.members[s] \ {q}, path')
      BY <2>4, <3>1 DEF ThereIn
    <3>3. y = Shown(m[s] \ {q}, path')
      BY <1>9, <2>2, <3>1 DEF ThereIn
    <3>4. Seen(x, <<"show", Shown({r}, path')>>) = y
      BY <1>1, <3>1, <3>2, <3>3, ShownMore
    <3>5. session'[q] \in Others(i, r)
      BY <1>10, <1>11, <2>4
    <3> HIDE DEF x, y, to
    <3>6. Views(c, q, Seen(x, <<"show", Shown({r}, path')>>))
      BY <1>4, <2>1, <3>5, ToldIn
    <3>7. Views(u, q, y)
      BY <1>8, <2>3, <3>4, <3>6, ToldOut
    <3> QED
      BY <3>7 DEF y
  <2>5. CASE q \notin t.members[s]
    <3>1. q \in m[p[q]] <=> q \in t.members[t.place[q]]
      BY <1>1, <1>6, <1>11, <2>2, <2>5
    <3>2. q \in t.members[t.place[q]] => m[p[q]] = t.members[t.place[q]]
      BY <1>1, <1>6, <1>11, <2>2, <2>5
    <3>3. x = y
      BY <1>9, <3>1, <3>2 DEF ThereIn
    <3>4. session'[q] \notin Others(i, r)
      BY <1>10, <1>11, <2>5
    <3> HIDE DEF x, y, to
    <3>5. Views(c, q, x)
      BY <1>4, <2>1, <3>4, ToldOut
    <3>6. Views(u, q, x)
      BY <1>8, <2>3, <3>5, ToldOut
    <3> QED
      BY <3>3, <3>6 DEF y
  <2> QED
    BY <2>4, <2>5
<1>12. ASSUME Views(t, r, Nobody)
       PROVE  Views(u, r, ThereIn(u.place, u.members, r, path'))
  <2>1. ThereIn(u.place, u.members, r, path') = Shown(t.members[s], path')
    BY <1>6, <1>7, <1>9 DEF ThereIn
  <2>2. session'[r] \notin Others(i, r)
    BY <1>3, <1>10
  <2>3. Views(i, r, Nobody)
    BY <1>2, <1>12, InsertKeeps
  <2>4. Views(c, r, Nobody)
    BY <1>4, <2>2, <2>3, ToldOut
  <2>5. CASE t.members[s] = {}
    <3>1. session'[r] \notin to
      BY <2>5
    <3> HIDE DEF to
    <3>2. Views(u, r, Nobody)
      BY <1>8, <2>4, <3>1, ToldOut
    <3> QED
      BY <2>1, <2>5, <3>2, ShownAlone
  <2>6. CASE t.members[s] # {}
    <3>1. session'[r] \in to
      BY <2>6
    <3> HIDE DEF to
    <3>2. Views(u, r, Seen(Nobody, <<"show", Shown(t.members[s], path')>>))
      BY <1>8, <2>4, <3>1, ToldIn
    <3> QED
      BY <1>1, <2>1, <3>2, ShownNew
  <2> QED
    BY <2>5, <2>6
<1>13. Keeps(t, u, r, path')
  BY <1>11 DEF Keeps
<1> QED
  BY <1>5, <1>9, <1>12, <1>13 DEF u, c

-----------------------------------------------------------------------------
(* A handler is its steps.                                                 *)
Base(p) == [place |-> p, members |-> members, wire |-> wire, missed |-> missed, over |-> FALSE]

LEMMA StepType ==
  ASSUME Posts, NEW r \in Role, NEW t \in States(r), NEW op \in Op
  PROVE  Step(t, r, op) \in States(r)
<1>1. CASE t.over
  BY <1>1, OverStays
<1>2. CASE ~ t.over
  <2>1. Answer(t, r) \in States(r) /\ Delete(t, r) \in States(r)
    BY AnswerIs, DeleteIs
  <2>2. /\ TellGone(t, r) \in States(r) /\ TellCome(t, r) \in States(r)
        /\ TellMove(t, r) \in States(r) /\ TellThere(t, r) \in States(r)
    BY TellsAre DEF Told
  <2>3. \A s \in Scene : Insert(t, r, s) \in States(r)
    BY InsertIs DEF Inserted
  <2> QED
    BY <1>2, <2>1, <2>2, <2>3, OpCases
<1> QED
  BY <1>1, <1>2

Steps(r, p, ops, g) ==
  /\ g[0] = Base(p)
  /\ \A i \in 1 .. Len(ops) : g[i] = Step(g[i - 1], r, ops[i])
  /\ \A n \in 0 .. Len(ops) : After(r, p, ops, n) = g[n]

LEMMA AfterIs ==
  ASSUME Posts, NEW r \in Role, NEW p, Base(p) \in States(r), NEW ops \in Seq(Op)
  PROVE  \E g : Steps(r, p, ops, g)
<1> DEFINE m == Len(ops)
           X == States(r)
           R == [ix \in (1 .. m) \X X |-> Step(ix[2], r, ops[ix[1]])]
<1>1. m \in Nat /\ \A i \in 1 .. m : ops[i] \in Op
  OBVIOUS
<1>2. \A i \in 1 .. m : \A x \in X : Step(x, r, ops[i]) \in X
  BY <1>1, StepType
<1> HIDE DEF X, m
<1>3. R \in [(1 .. m) \X X -> X]
  BY <1>2
<1>4. \A i \in 1 .. m : \A x \in X : R[<<i, x>>] = Step(x, r, ops[i])
  OBVIOUS
<1> HIDE DEF R
<1>5. PICK g : Loop(g, m, X, Base(p), R)
  BY <1>1, <1>3, LoopExists, Zenon DEF X
<1>6. \A i \in 1 .. m : i - 1 \in 0 .. m
  BY <1>1
<1>7. \A i \in 1 .. m : g[i] = Step(g[i - 1], r, ops[i])
  BY <1>4, <1>5, <1>6 DEF Loop
<1>8. g[0] = Base(p)
  BY <1>5 DEF Loop
<1>9. ASSUME NEW n \in 0 .. m
      PROVE  After(r, p, ops, n) = g[n]
  <2> DEFINE Round(h) == [k \in 0 .. n |-> IF k = 0 THEN Base(p) ELSE Step(h[k - 1], r, ops[k])]
             v == CHOOSE h : h = Round(h)
             e == [k \in 0 .. n |-> g[k]]
  <2>1. After(r, p, ops, n) = v[n]
    BY DEF After, Base
  <2>2. \A k \in 0 .. n : k # 0 => k \in 1 .. m /\ k - 1 \in 0 .. n
    BY <1>1
  <2>3. \A k \in 0 .. n : e[k] = IF k = 0 THEN Base(p) ELSE Step(e[k - 1], r, ops[k])
    BY <1>7, <1>8, <2>2
  <2>4. e = Round(e)
    <3>1. Round(e) = [k \in 0 .. n |-> e[k]]
      <4> HIDE DEF e
      <4> QED
        BY <2>3
    <3> QED
      BY <3>1
  <2>5. v = Round(v)
    <3> HIDE DEF Round
    <3>1. \E h : h = Round(h)
      BY <2>4
    <3> QED
      BY <3>1, Zenon
  <2> HIDE DEF v
  <2> DEFINE Same == {k \in 0 .. n : v[k] = g[k]}
  <2>6. n \in Nat /\ 0 \in Same
    BY <1>1, <1>8, <2>5
  <2>7. \A k \in 1 .. n : k - 1 \in Same => k \in Same
    <3> SUFFICES ASSUME NEW k \in 1 .. n, k - 1 \in Same
                 PROVE  k \in Same
      OBVIOUS
    <3>1. k \in 0 .. n /\ k # 0 /\ k \in 1 .. m
      BY <1>1
    <3>2. v[k] = Step(v[k - 1], r, ops[k])
      BY <2>5, <3>1
    <3> QED
      BY <1>7, <3>1, <3>2
  <2> HIDE DEF Same
  <2>8. \A k \in 0 .. n : k \in Same
    BY <2>6, <2>7, LoopKeeps, Zenon
  <2> QED
    BY <2>1, <2>6, <2>8 DEF Same
<1>10. Steps(r, p, ops, g)
  BY <1>7, <1>8, <1>9 DEF Steps, m
<1> QED
  BY <1>10

LEMMA StepsAre ==
  ASSUME NEW t, NEW r, ~ t.over
  PROVE  /\ Step(t, r, <<"answer">>) = Answer(t, r) /\ Step(t, r, <<"delete">>) = Delete(t, r)
         /\ Step(t, r, <<"gone">>) = TellGone(t, r) /\ Step(t, r, <<"come">>) = TellCome(t, r)
         /\ Step(t, r, <<"list">>) = TellThere(t, r) /\ Step(t, r, <<"move">>) = TellMove(t, r)
         /\ \A s \in Scene : Step(t, r, <<"insert", s>>) = Insert(t, r, s)
<1>1. /\ <<"answer">> \in Op /\ <<"delete">> \in Op /\ <<"gone">> \in Op /\ <<"come">> \in Op
      /\ <<"list">> \in Op /\ <<"move">> \in Op /\ \A s \in Scene : <<"insert", s>> \in Op
  BY DEF Op
<1>2. Step(t, r, <<"answer">>) = Answer(t, r) /\ Step(t, r, <<"delete">>) = Delete(t, r)
  BY DEF Step
<1>3. Step(t, r, <<"gone">>) = TellGone(t, r) /\ Step(t, r, <<"come">>) = TellCome(t, r)
  BY DEF Step
<1>4. Step(t, r, <<"list">>) = TellThere(t, r) /\ Step(t, r, <<"move">>) = TellMove(t, r)
  BY DEF Step
<1>5. ASSUME NEW s \in Scene
      PROVE  Step(t, r, <<"insert", s>>) = Insert(t, r, s)
  BY DEF Step
<1> QED
  BY <1>2, <1>3, <1>4, <1>5

(* Deleted and told.                                                       *)
LEMMA GoPart ==
  ASSUME Posts, Distinct, NEW r \in Role, NEW t, Fit(t, r), t.over = FALSE,
         NEW a, NEW b, a = Step(t, r, <<"delete">>), b = Step(a, r, <<"gone">>)
  PROVE  Fit(a, r) /\ Left(t, b, r)
<1>1. t \in States(r)
  BY DEF Fit
<1>2. a = Delete(t, r)
  BY StepsAre
<1>3. a.over = t.over
  BY <1>1, <1>2, DeleteIs
<1>4. b = TellGone(a, r)
  BY <1>3, StepsAre
<1> QED
  BY <1>2, <1>4, FitDelete, GoneIs

(* Listed, shown and told, or refused.                                     *)
Arrived(t, c, r) ==
  /\ t.missed \subseteq c.missed
  /\ Keeps(t, c, r, path')
  /\ Views(t, r, Nobody) /\ session'[r] \notin c.missed
       => Views(c, r, ThereIn(c.place, c.members, r, path'))

LEMMA ComePart ==
  ASSUME Posts, Distinct, NEW r \in Role, NEW t, NEW s \in Scene, Fit(t, r), t.over = FALSE,
         Free(t, r) \/ s = t.place[r], session'[r] # None,
         NEW a, NEW b, NEW c,
         a = Step(t, r, <<"insert", s>>), b = Step(a, r, <<"come">>), c = Step(b, r, <<"list">>)
  PROVE  Fit(a, r) /\ Fit(b, r) /\ Fit(c, r) /\ Arrived(t, c, r)
<1>1. t \in States(r) /\ a = Insert(t, r, s)
  BY StepsAre DEF Fit
<1>2. Inserted(t, a, r, s) /\ Fit(a, r)
  BY <1>1, InsertIs, FitInsert
<1>3. CASE Refused(t, a, r, s)
  <2>1. c = a /\ b = a
    BY <1>3, OverStays DEF Refused
  <2>2. t.missed \subseteq a.missed /\ a.place = t.place /\ a.members = t.members
    BY <1>3 DEF Refused
  <2>3. \A q \in Role : \A x : Views(t, q, x) => Views(a, q, x)
    BY <1>2, InsertKeeps
  <2>4. ASSUME session'[r] \notin a.missed
        PROVE  ThereIn(a.place, a.members, r, path') = Nobody
    <3>1. r \notin t.members[s]
      BY <1>3, <2>4 DEF Refused
    <3>2. r \notin t.members[t.place[r]]
      BY <1>1, <3>1, StateFacts DEF Free
    <3> QED
      BY <2>2, <3>2 DEF ThereIn
  <2>5. Arrived(t, a, r)
    BY <2>2, <2>3, <2>4 DEF Arrived, Keeps
  <2> QED
    BY <1>2, <2>1, <2>5
<1>4. CASE Accepted(t, a, r, s)
  <2>1. a.over = FALSE
    BY <1>4 DEF Accepted
  <2>2. b = Come1(t, r, s)
    BY <1>1, <2>1, StepsAre DEF Come1
  <2>3. /\ Fit(Come1(t, r, s), r) /\ Fit(Come2(t, r, s), r)
        /\ Come1(t, r, s).over = t.over /\ Come2(t, r, s).missed = t.missed
        /\ Keeps(t, Come2(t, r, s), r, path')
        /\ Views(t, r, Nobody) =>
              LET u == Come2(t, r, s) IN Views(u, r, ThereIn(u.place, u.members, r, path'))
    BY <1>1, <1>4, ComeIs
  <2>4. c = Come2(t, r, s)
    BY <2>2, <2>3, StepsAre DEF Come2
  <2>5. Arrived(t, c, r)
    BY <2>3, <2>4 DEF Arrived
  <2> QED
    BY <1>2, <2>2, <2>3, <2>4, <2>5
<1> QED
  BY <1>2, <1>3, <1>4 DEF Inserted

(* Nobody sees where a role is that is listed nowhere.                     *)
LEMMA FreePath ==
  ASSUME NEW r \in Role, NEW t, Fit(t, r), Free(t, r), NEW pa, NEW pb,
         \A q \in Role \ {r} : pa[q] = pb[q],
         NEW q \in Role, t.place[q] # None
  PROVE  ThereIn(t.place, t.members, q, pa) = ThereIn(t.place, t.members, q, pb)
<1>1. t \in States(r)
  BY DEF Fit
<1>2. t.place[q] \in Scene
  BY <1>1, StateFacts
<1> DEFINE R == t.members[t.place[q]] \ {q}
<1>3. r \notin R
  BY <1>2 DEF Free
<1>4. Shown(R, pa) = Shown(R, pb)
  <2> HIDE DEF R
  <2> QED
    BY <1>3 DEF Shown
<1> QED
  BY <1>4 DEF ThereIn

-----------------------------------------------------------------------------
(* The handlers.                                                           *)
AnswerCome(s) == << <<"answer">> >> \o Come(s)
AnswerGoCome(s) == << <<"answer">> >> \o Go \o Come(s)
GoAnswer == Go \o << <<"answer">> >>

LEMMA OpsAre ==
  ASSUME NEW s \in Scene
  PROVE  /\ <<"answer">> \in Op /\ <<"delete">> \in Op /\ <<"gone">> \in Op /\ <<"come">> \in Op
         /\ <<"list">> \in Op /\ <<"move">> \in Op /\ <<"insert", s>> \in Op
BY DEF Op

Joins(a, b, c) ==
  /\ c \in Seq(Op) /\ Len(c) = Len(a) + Len(b)
  /\ \A i \in 1 .. Len(a) : c[i] = a[i]
  /\ \A j \in 1 .. Len(b) : c[Len(a) + j] = b[j]

LEMMA Joined ==
  ASSUME NEW a \in Seq(Op), NEW b \in Seq(Op)
  PROVE  Joins(a, b, a \o b)
<1> DEFINE c == a \o b
<1>1. /\ c \in Seq(Op) /\ Len(c) = Len(a) + Len(b)
      /\ \A i \in 1 .. Len(a) + Len(b) : c[i] = IF i <= Len(a) THEN a[i] ELSE b[i - Len(a)]
  BY ConcatProperties, Zenon
<1> HIDE DEF c
<1>2. Len(a) \in Nat /\ Len(b) \in Nat
  BY LenProperties
<1>3. ASSUME NEW i \in 1 .. Len(a)
      PROVE  c[i] = a[i]
  <2>1. i \in 1 .. Len(a) + Len(b) /\ i <= Len(a)
    BY <1>2
  <2> QED
    BY <1>1, <2>1, Zenon
<1>4. ASSUME NEW j \in 1 .. Len(b)
      PROVE  c[Len(a) + j] = b[j]
  <2>1. PICK k \in 1 .. Len(a) + Len(b) : k = Len(a) + j /\ ~ (k <= Len(a)) /\ k - Len(a) = j
    BY <1>2
  <2>2. c[k] = b[k - Len(a)]
    BY <1>1, <2>1, Zenon
  <2> QED
    BY <2>1, <2>2, Zenon
<1> QED
  BY <1>1, <1>3, <1>4 DEF c, Joins

LEMMA OneAnswer ==
  << <<"answer">> >> \in Seq(Op) /\ Len(<< <<"answer">> >>) = 1 /\ << <<"answer">> >>[1] = <<"answer">>
<1>1. <<"answer">> \in Op
  BY DEF Op
<1> QED
  BY <1>1

LEMMA AnswerComeIs ==
  ASSUME NEW s \in Scene, NEW ops, ops = AnswerCome(s)
  PROVE  /\ ops \in Seq(Op) /\ Len(ops) = 4
         /\ ops[1] = <<"answer">> /\ ops[2] = <<"insert", s>> /\ ops[3] = <<"come">> /\ ops[4] = <<"list">>
<1> DEFINE a == << <<"answer">> >>
           b == Come(s)
<1>1. a \in Seq(Op) /\ Len(a) = 1 /\ a[1] = <<"answer">>
  BY OneAnswer
<1>2. b \in Seq(Op) /\ Len(b) = 3 /\ b[1] = <<"insert", s>> /\ b[2] = <<"come">> /\ b[3] = <<"list">>
  BY OpsAre DEF Come
<1>3. ops = a \o b
  BY DEF AnswerCome
<1> HIDE DEF a, b
<1>4. Joins(a, b, ops)
  BY <1>1, <1>2, <1>3, Joined, Zenon
<1>5. ops[1] = a[1] /\ ops[1 + 1] = b[1] /\ ops[1 + 2] = b[2] /\ ops[1 + 3] = b[3]
  BY <1>1, <1>2, <1>4 DEF Joins
<1> QED
  BY <1>1, <1>2, <1>4, <1>5 DEF Joins

LEMMA GoAre ==
  Go \in Seq(Op) /\ Len(Go) = 2 /\ Go[1] = <<"delete">> /\ Go[2] = <<"gone">>
<1>1. <<"delete">> \in Op /\ <<"gone">> \in Op
  BY DEF Op
<1> QED
  BY <1>1 DEF Go

LEMMA GoAnswerIs ==
  ASSUME NEW ops, ops = GoAnswer
  PROVE  /\ ops \in Seq(Op) /\ Len(ops) = 3
         /\ ops[1] = <<"delete">> /\ ops[2] = <<"gone">> /\ ops[3] = <<"answer">>
<1> DEFINE a == << <<"answer">> >>
<1>2. a \in Seq(Op) /\ Len(a) = 1 /\ a[1] = <<"answer">>
  BY OneAnswer
<1>3. ops = Go \o a
  BY DEF GoAnswer
<1> HIDE DEF a
<1>4. Joins(Go, a, ops)
  BY <1>2, <1>3, GoAre, Joined, Zenon
<1>5. ops[1] = Go[1] /\ ops[2] = Go[2] /\ ops[2 + 1] = a[1]
  BY <1>2, <1>4, GoAre DEF Joins
<1> QED
  BY <1>2, <1>4, <1>5, GoAre DEF Joins

LEMMA AnswerGoComeIs ==
  ASSUME NEW s \in Scene, NEW ops, ops = AnswerGoCome(s)
  PROVE  /\ ops \in Seq(Op) /\ Len(ops) = 6
         /\ ops[1] = <<"answer">> /\ ops[2] = <<"delete">> /\ ops[3] = <<"gone">>
         /\ ops[4] = <<"insert", s>> /\ ops[5] = <<"come">> /\ ops[6] = <<"list">>
<1> DEFINE a == << <<"answer">> >>
           b == a \o Go
           c == Come(s)
<1>1. a \in Seq(Op) /\ Len(a) = 1 /\ a[1] = <<"answer">>
  BY OneAnswer
<1>2. c \in Seq(Op) /\ Len(c) = 3 /\ c[1] = <<"insert", s>> /\ c[2] = <<"come">> /\ c[3] = <<"list">>
  BY OpsAre DEF Come
<1>3. ops = b \o c
  BY DEF AnswerGoCome
<1> HIDE DEF a, c
<1>4. Joins(a, Go, b)
  BY <1>1, GoAre, Joined, Zenon
<1> HIDE DEF b
<1>5. b \in Seq(Op) /\ Len(b) = 3 /\ b[1] = a[1] /\ b[1 + 1] = Go[1] /\ b[1 + 2] = Go[2]
  BY <1>1, <1>4, GoAre DEF Joins
<1>6. Joins(b, c, ops)
  BY <1>2, <1>3, <1>5, Joined, Zenon
<1>7. /\ ops[1] = b[1] /\ ops[2] = b[2] /\ ops[3] = b[3]
      /\ ops[3 + 1] = c[1] /\ ops[3 + 2] = c[2] /\ ops[3 + 3] = c[3]
  BY <1>2, <1>5, <1>6 DEF Joins
<1> QED
  BY <1>1, <1>2, <1>5, <1>6, <1>7, GoAre DEF Joins

(* What a handler of r finds.                                              *)
Begin(r) ==
  /\ Posts /\ Distinct /\ session'[r] \in Fd
  /\ path \in [Role -> Pos] /\ \A q \in Role \ {r} : path'[q] = path[q]
  /\ sight \in [Fd -> View] /\ wire \in Seq(Notice)

(* What it leaves: who saw all that is there sees all that is there.       *)
Right(t, r) ==
  /\ missed \ {session'[r]} \subseteq t.missed
  /\ \A q \in Role \ {r} :
       session'[q] # None /\ place[q] # None /\ Ends(sight[session'[q]], session'[q], wire, There(q))
         => Views(t, q, ThereIn(t.place, t.members, q, path'))
  /\ session'[r] \notin t.missed
     /\ (place[r] # None /\ session'[r] \notin missed => Ends(sight[session'[r]], session'[r], wire, There(r)))
       => Views(t, r, ThereIn(t.place, t.members, r, path'))

RunsWell(r, p, ops) ==
  /\ \A n \in 0 .. Len(ops) : Fit(After(r, p, ops, n), r)
  /\ Right(After(r, p, ops, Len(ops)), r)

LEMMA ThereIs == \A q : There(q) = ThereIn(place, members, q, path)
BY DEF There, ThereIn

LEMMA BaseIs ==
  \A p : /\ Base(p).place = p /\ Base(p).members = members /\ Base(p).wire = wire
         /\ Base(p).missed = missed /\ Base(p).over = FALSE
BY DEF Base

LEMMA BaseViews ==
  ASSUME NEW r \in Role, NEW p, \A q \in Role \ {r} : p[q] = place[q],
         NEW q \in Role \ {r}, Ends(sight[session'[q]], session'[q], wire, There(q))
  PROVE  Views(Base(p), q, ThereIn(Base(p).place, Base(p).members, q, path))
<1>1. ThereIn(p, members, q, path) = There(q)
  BY DEF There, ThereIn
<1> QED
  BY <1>1, BaseIs DEF Views

LEMMA BaseSees ==
  ASSUME NEW r \in Role, Begin(r), NEW p
  PROVE  \E x : Views(Base(p), r, x)
<1>1. PICK g : Viewed(sight[session'[r]], session'[r], wire, g)
  BY EndExists DEF Begin
<1>2. Ends(sight[session'[r]], session'[r], wire, g[Len(wire)])
  BY <1>1 DEF Ends
<1> QED
  BY <1>2, BaseIs DEF Views

LEMMA KeepsOn ==
  ASSUME NEW r \in Role, NEW t, NEW u, NEW pa, Fit(t, r), Keeps(t, u, r, pa),
         NEW q \in Role \ {r}, session'[q] # None, place[q] # None,
         Views(t, q, ThereIn(t.place, t.members, q, pa))
  PROVE  Views(u, q, ThereIn(u.place, u.members, q, pa))
BY DEF Keeps, Fit

Follows(g, j, i, r, op) == g[i] = Step(g[j], r, op)

LEMMA StepAt ==
  ASSUME NEW r, NEW p, NEW ops, NEW g, Steps(r, p, ops, g),
         NEW i \in 1 .. Len(ops), NEW j, j = i - 1, NEW op, ops[i] = op
  PROVE  Follows(g, j, i, r, op)
BY DEF Steps, Follows

LEMMA TransportIs ==
  ASSUME NEW r \in Role, Begin(r), NEW s \in Scene, Fit(Base(place), r)
  PROVE  RunsWell(r, place, AnswerGoCome(s))
<1> DEFINE ops == AnswerGoCome(s)
<1>1. /\ ops \in Seq(Op) /\ Len(ops) = 6
      /\ ops[1] = <<"answer">> /\ ops[2] = <<"delete">> /\ ops[3] = <<"gone">>
      /\ ops[4] = <<"insert", s>> /\ ops[5] = <<"come">> /\ ops[6] = <<"list">>
  BY AnswerGoComeIs
<1> HIDE DEF ops
<1>2. Posts /\ Distinct /\ session'[r] # None
  BY SightAssumption DEF Begin
<1>3. Base(place) \in States(r)
  BY DEF Fit
<1>4. PICK g : Steps(r, place, ops, g)
  BY <1>1, <1>2, <1>3, AfterIs
<1>5. /\ g[0] = Base(place) /\ g[1] = Step(g[0], r, <<"answer">>)
      /\ g[2] = Step(g[1], r, <<"delete">>) /\ g[3] = Step(g[2], r, <<"gone">>)
      /\ g[4] = Step(g[3], r, <<"insert", s>>) /\ g[5] = Step(g[4], r, <<"come">>)
      /\ g[6] = Step(g[5], r, <<"list">>)
  <2>1. g[0] = Base(place)
    BY <1>4 DEF Steps
  <2>2. 1 \in 1 .. Len(ops) /\ 2 \in 1 .. Len(ops) /\ 3 \in 1 .. Len(ops)
        /\ 4 \in 1 .. Len(ops) /\ 5 \in 1 .. Len(ops) /\ 6 \in 1 .. Len(ops)
    BY <1>1
  <2>3. 0 = 1 - 1 /\ 1 = 2 - 1 /\ 2 = 3 - 1 /\ 3 = 4 - 1 /\ 4 = 5 - 1 /\ 5 = 6 - 1
    OBVIOUS
  <2>4. Follows(g, 0, 1, r, <<"answer">>)
    BY <1>1, <1>4, <2>2, <2>3, StepAt, Zenon
  <2>5. Follows(g, 1, 2, r, <<"delete">>)
    BY <1>1, <1>4, <2>2, <2>3, StepAt, Zenon
  <2>6. Follows(g, 2, 3, r, <<"gone">>)
    BY <1>1, <1>4, <2>2, <2>3, StepAt, Zenon
  <2>7. Follows(g, 3, 4, r, <<"insert", s>>)
    BY <1>1, <1>4, <2>2, <2>3, StepAt, Zenon
  <2>8. Follows(g, 4, 5, r, <<"come">>)
    BY <1>1, <1>4, <2>2, <2>3, StepAt, Zenon
  <2>9. Follows(g, 5, 6, r, <<"list">>)
    BY <1>1, <1>4, <2>2, <2>3, StepAt, Zenon
  <2> QED
    BY <2>1, <2>4, <2>5, <2>6, <2>7, <2>8, <2>9 DEF Follows
<1>6. Fit(g[0], r) /\ g[0].over = FALSE /\ g[0].missed = missed
  BY <1>5, BaseIs
<1>7. g[1] = Answer(g[0], r)
  BY <1>5, <1>6, StepsAre
<1>8. /\ Fit(g[1], r) /\ Keeps(g[0], g[1], r, path)
      /\ \A x : Views(g[0], r, x) => Views(g[1], r, Nobody)
  BY <1>2, <1>6, <1>7, FitAnswer, AnswerKeeps
<1>9. g[1].over = FALSE /\ g[1].missed = missed \ {session'[r]}
  BY <1>2, <1>6, <1>7, AnswerIs DEF Fit
<1>10. Fit(g[2], r) /\ Left(g[1], g[3], r)
  BY <1>2, <1>5, <1>8, <1>9, GoPart
<1>11. Fit(g[3], r) /\ Free(g[3], r) /\ g[3].over = FALSE /\ g[3].missed = missed \ {session'[r]}
  BY <1>9, <1>10 DEF Left
<1>12. Keeps(g[1], g[3], r, path) /\ Views(g[3], r, Nobody)
  <2>1. Views(g[1], r, Nobody)
    BY <1>5, <1>8, BaseSees
  <2>2. path \in [Role -> Pos]
    BY DEF Begin
  <2> QED
    BY <1>2, <1>10, <2>1, <2>2 DEF Left
<1>13. Fit(g[4], r) /\ Fit(g[5], r) /\ Fit(g[6], r) /\ Arrived(g[3], g[6], r)
  BY <1>2, <1>5, <1>11, ComePart
<1>14. ASSUME NEW q \in Role \ {r}, session'[q] # None, place[q] # None,
              Ends(sight[session'[q]], session'[q], wire, There(q))
       PROVE  Views(g[6], q, ThereIn(g[6].place, g[6].members, q, path'))
  <2>1. Views(g[0], q, ThereIn(g[0].place, g[0].members, q, path))
    BY <1>5, <1>14, BaseViews
  <2>2. Views(g[1], q, ThereIn(g[1].place, g[1].members, q, path))
    BY <1>6, <1>8, <1>14, <2>1, KeepsOn
  <2>3. Views(g[3], q, ThereIn(g[3].place, g[3].members, q, path))
    BY <1>8, <1>12, <1>14, <2>2, KeepsOn
  <2>4. ThereIn(g[3].place, g[3].members, q, path) = ThereIn(g[3].place, g[3].members, q, path')
    <3>1. g[3].place[q] # None
      BY <1>11, <1>14 DEF Fit
    <3>2. \A e \in Role \ {r} : path[e] = path'[e]
      BY DEF Begin
    <3> QED
      BY <1>11, <3>1, <3>2, FreePath
  <2>5. Keeps(g[3], g[6], r, path')
    BY <1>13 DEF Arrived
  <2> QED
    BY <1>11, <1>14, <2>3, <2>4, <2>5, KeepsOn
<1>15. Right(g[6], r)
  BY <1>11, <1>12, <1>13, <1>14 DEF Right, Arrived
<1>16. \A n \in 0 .. 6 : Fit(g[n], r)
  <2>1. \A n \in 0 .. 6 : n = 0 \/ n = 1 \/ n = 2 \/ n = 3 \/ n = 4 \/ n = 5 \/ n = 6
    OBVIOUS
  <2> QED
    BY <1>6, <1>8, <1>10, <1>11, <1>13, <2>1
<1>17. RunsWell(r, place, ops)
  BY <1>1, <1>4, <1>15, <1>16 DEF RunsWell, Steps
<1> QED
  BY <1>17 DEF ops

(* Load and LeaveInstance: answered, then there.                           *)
LEMMA ArriveIs ==
  ASSUME NEW r \in Role, Begin(r), NEW s \in Scene, NEW p, Fit(Base(p), r),
         Free(Base(p), r) \/ (s = p[r] /\ path' = path)
  PROVE  RunsWell(r, p, AnswerCome(s))
<1> DEFINE ops == AnswerCome(s)
<1>1. /\ ops \in Seq(Op) /\ Len(ops) = 4
      /\ ops[1] = <<"answer">> /\ ops[2] = <<"insert", s>> /\ ops[3] = <<"come">> /\ ops[4] = <<"list">>
  BY AnswerComeIs
<1> HIDE DEF ops
<1>2. Posts /\ Distinct /\ session'[r] # None
  BY SightAssumption DEF Begin
<1>3. Base(p) \in States(r) /\ \A q \in Role \ {r} : p[q] = place[q]
  BY BaseIs DEF Fit
<1>4. PICK g : Steps(r, p, ops, g)
  BY <1>1, <1>2, <1>3, AfterIs
<1>5. /\ g[0] = Base(p) /\ g[1] = Step(g[0], r, <<"answer">>)
      /\ g[2] = Step(g[1], r, <<"insert", s>>) /\ g[3] = Step(g[2], r, <<"come">>)
      /\ g[4] = Step(g[3], r, <<"list">>)
  <2>1. g[0] = Base(p)
    BY <1>4 DEF Steps
  <2>2. 1 \in 1 .. Len(ops) /\ 2 \in 1 .. Len(ops) /\ 3 \in 1 .. Len(ops) /\ 4 \in 1 .. Len(ops)
    BY <1>1
  <2>3. 0 = 1 - 1 /\ 1 = 2 - 1 /\ 2 = 3 - 1 /\ 3 = 4 - 1
    OBVIOUS
  <2>4. Follows(g, 0, 1, r, <<"answer">>)
    BY <1>1, <1>4, <2>2, <2>3, StepAt, Zenon
  <2>5. Follows(g, 1, 2, r, <<"insert", s>>)
    BY <1>1, <1>4, <2>2, <2>3, StepAt, Zenon
  <2>6. Follows(g, 2, 3, r, <<"come">>)
    BY <1>1, <1>4, <2>2, <2>3, StepAt, Zenon
  <2>7. Follows(g, 3, 4, r, <<"list">>)
    BY <1>1, <1>4, <2>2, <2>3, StepAt, Zenon
  <2> QED
    BY <2>1, <2>4, <2>5, <2>6, <2>7 DEF Follows
<1>6. /\ Fit(g[0], r) /\ g[0].over = FALSE /\ g[0].missed = missed
      /\ Free(g[0], r) \/ (s = g[0].place[r] /\ path' = path)
  BY <1>5, BaseIs
<1>7. g[1] = Answer(g[0], r)
  BY <1>5, <1>6, StepsAre
<1>8. /\ Fit(g[1], r) /\ (Free(g[0], r) => Free(g[1], r)) /\ \A pa : Keeps(g[0], g[1], r, pa)
      /\ \A x : Views(g[0], r, x) => Views(g[1], r, Nobody)
  BY <1>2, <1>6, <1>7, FitAnswer, AnswerKeeps
<1>9. g[1].over = FALSE /\ g[1].missed = missed \ {session'[r]} /\ g[1].place = g[0].place
  BY <1>2, <1>6, <1>7, AnswerIs DEF Fit
<1>10. Views(g[1], r, Nobody)
  BY <1>5, <1>8, BaseSees
<1>11. Fit(g[2], r) /\ Fit(g[3], r) /\ Fit(g[4], r) /\ Arrived(g[1], g[4], r)
  BY <1>2, <1>5, <1>6, <1>8, <1>9, ComePart
<1>12. ASSUME NEW q \in Role \ {r}, session'[q] # None, place[q] # None,
              Ends(sight[session'[q]], session'[q], wire, There(q))
       PROVE  Views(g[4], q, ThereIn(g[4].place, g[4].members, q, path'))
  <2>1. Views(g[0], q, ThereIn(g[0].place, g[0].members, q, path))
    BY <1>3, <1>5, <1>12, BaseViews
  <2>2. Views(g[1], q, ThereIn(g[1].place, g[1].members, q, path))
    BY <1>6, <1>8, <1>12, <2>1, KeepsOn
  <2>3. ThereIn(g[1].place, g[1].members, q, path) = ThereIn(g[1].place, g[1].members, q, path')
    <3>1. g[1].place[q] # None
      BY <1>8, <1>12 DEF Fit
    <3>2. \A e \in Role \ {r} : path[e] = path'[e]
      BY DEF Begin
    <3>3. CASE Free(g[1], r)
      BY <1>8, <3>1, <3>2, <3>3, FreePath
    <3> QED
      BY <1>6, <1>8, <3>3
  <2>4. Keeps(g[1], g[4], r, path')
    BY <1>11 DEF Arrived
  <2> QED
    BY <1>8, <1>12, <2>2, <2>3, <2>4, KeepsOn
<1>13. Right(g[4], r)
  BY <1>9, <1>10, <1>11, <1>12 DEF Right, Arrived
<1>14. \A n \in 0 .. 4 : Fit(g[n], r)
  <2>1. \A n \in 0 .. 4 : n = 0 \/ n = 1 \/ n = 2 \/ n = 3 \/ n = 4
    OBVIOUS
  <2> QED
    BY <1>6, <1>8, <1>11, <2>1
<1>15. RunsWell(r, p, ops)
  BY <1>1, <1>4, <1>13, <1>14 DEF RunsWell, Steps
<1> QED
  BY <1>15 DEF ops

(* EnterInstance: gone, then answered.                                     *)
LEMMA EnterIs ==
  ASSUME NEW r \in Role, Begin(r), Fit(Base(place), r)
  PROVE  RunsWell(r, place, GoAnswer)
<1> DEFINE ops == GoAnswer
<1>1. /\ ops \in Seq(Op) /\ Len(ops) = 3
      /\ ops[1] = <<"delete">> /\ ops[2] = <<"gone">> /\ ops[3] = <<"answer">>
  BY GoAnswerIs
<1> HIDE DEF ops
<1>2. Posts /\ Distinct /\ session'[r] # None
  BY SightAssumption DEF Begin
<1>3. Base(place) \in States(r)
  BY DEF Fit
<1>4. PICK g : Steps(r, place, ops, g)
  BY <1>1, <1>2, <1>3, AfterIs
<1>5. /\ g[0] = Base(place) /\ g[1] = Step(g[0], r, <<"delete">>)
      /\ g[2] = Step(g[1], r, <<"gone">>) /\ g[3] = Step(g[2], r, <<"answer">>)
  <2>1. g[0] = Base(place)
    BY <1>4 DEF Steps
  <2>2. 1 \in 1 .. Len(ops) /\ 2 \in 1 .. Len(ops) /\ 3 \in 1 .. Len(ops)
    BY <1>1
  <2>3. 0 = 1 - 1 /\ 1 = 2 - 1 /\ 2 = 3 - 1
    OBVIOUS
  <2>4. Follows(g, 0, 1, r, <<"delete">>)
    BY <1>1, <1>4, <2>2, <2>3, StepAt, Zenon
  <2>5. Follows(g, 1, 2, r, <<"gone">>)
    BY <1>1, <1>4, <2>2, <2>3, StepAt, Zenon
  <2>6. Follows(g, 2, 3, r, <<"answer">>)
    BY <1>1, <1>4, <2>2, <2>3, StepAt, Zenon
  <2> QED
    BY <2>1, <2>4, <2>5, <2>6 DEF Follows
<1>6. Fit(g[0], r) /\ g[0].over = FALSE /\ g[0].missed = missed
  BY <1>5, BaseIs
<1>7. Fit(g[1], r) /\ Left(g[0], g[2], r)
  BY <1>2, <1>5, <1>6, GoPart
<1>8. Fit(g[2], r) /\ Free(g[2], r) /\ g[2].over = FALSE /\ g[2].missed = missed
  BY <1>6, <1>7 DEF Left
<1>9. g[3] = Answer(g[2], r)
  BY <1>5, <1>8, StepsAre
<1>10. /\ Fit(g[3], r) /\ Free(g[3], r) /\ \A pa : Keeps(g[2], g[3], r, pa)
       /\ \A x : Views(g[2], r, x) => Views(g[3], r, Nobody)
  BY <1>2, <1>8, <1>9, FitAnswer, AnswerKeeps
<1>11. g[3].missed = missed \ {session'[r]}
  BY <1>2, <1>8, <1>9, AnswerIs DEF Fit
<1>12. Views(g[3], r, Nobody)
  <2>1. PICK x : Views(g[0], r, x)
    BY <1>5, BaseSees
  <2>2. Views(g[2], r, x)
    BY <1>2, <1>7, <2>1 DEF Left
  <2> QED
    BY <1>10, <2>2
<1>13. ASSUME NEW q \in Role \ {r}, session'[q] # None, place[q] # None,
              Ends(sight[session'[q]], session'[q], wire, There(q))
       PROVE  Views(g[3], q, ThereIn(g[3].place, g[3].members, q, path'))
  <2>1. Views(g[0], q, ThereIn(g[0].place, g[0].members, q, path))
    BY <1>5, <1>13, BaseViews
  <2>2. Keeps(g[0], g[2], r, path)
    BY <1>7 DEF Left, Begin
  <2>3. Views(g[2], q, ThereIn(g[2].place, g[2].members, q, path))
    BY <1>6, <1>13, <2>1, <2>2, KeepsOn
  <2>4. Views(g[3], q, ThereIn(g[3].place, g[3].members, q, path))
    BY <1>8, <1>10, <1>13, <2>3, KeepsOn
  <2>5. ThereIn(g[3].place, g[3].members, q, path) = ThereIn(g[3].place, g[3].members, q, path')
    <3>1. g[3].place[q] # None
      BY <1>10, <1>13 DEF Fit
    <3>2. \A e \in Role \ {r} : path[e] = path'[e]
      BY DEF Begin
    <3> QED
      BY <1>10, <3>1, <3>2, FreePath
  <2> QED
    BY <2>4, <2>5
<1>14. ThereIn(g[3].place, g[3].members, r, path') = Nobody
  <2>1. g[3] \in States(r)
    BY <1>10 DEF Fit
  <2>2. g[3].place[r] \in Scene
    BY <2>1, StateFacts
  <2> QED
    BY <1>10, <2>2 DEF Free, ThereIn
<1>15. Right(g[3], r)
  BY <1>11, <1>12, <1>13, <1>14 DEF Right
<1>16. \A n \in 0 .. 3 : Fit(g[n], r)
  <2>1. \A n \in 0 .. 3 : n = 0 \/ n = 1 \/ n = 2 \/ n = 3
    OBVIOUS
  <2> QED
    BY <1>6, <1>7, <1>8, <1>10, <2>1
<1>17. RunsWell(r, place, ops)
  BY <1>1, <1>4, <1>15, <1>16 DEF RunsWell, Steps
<1> QED
  BY <1>17 DEF ops

(* Move: told to those there.                                              *)
LEMMA MoveIs ==
  ASSUME NEW r \in Role, Begin(r), Fit(Base(place), r)
  PROVE  RunsWell(r, place, << <<"move">> >>)
<1> DEFINE ops == << <<"move">> >>
<1>1. ops \in Seq(Op) /\ Len(ops) = 1 /\ ops[1] = <<"move">>
  <2>1. <<"move">> \in Op
    BY DEF Op
  <2> QED
    BY <2>1
<1> HIDE DEF ops
<1>2. Posts /\ Distinct /\ session'[r] # None
  BY SightAssumption DEF Begin
<1>3. Base(place) \in States(r)
  BY DEF Fit
<1>4. PICK g : Steps(r, place, ops, g)
  BY <1>1, <1>2, <1>3, AfterIs
<1>5. g[0] = Base(place) /\ g[1] = Step(g[0], r, <<"move">>)
  <2>1. g[0] = Base(place)
    BY <1>4 DEF Steps
  <2>2. 1 \in 1 .. Len(ops)
    BY <1>1
  <2>3. 0 = 1 - 1
    OBVIOUS
  <2>4. Follows(g, 0, 1, r, <<"move">>)
    BY <1>1, <1>4, <2>2, <2>3, StepAt, Zenon
  <2> QED
    BY <2>1, <2>4 DEF Follows
<1>6. Fit(g[0], r) /\ g[0].over = FALSE /\ g[0].missed = missed /\ g[0].place = place /\ g[0].members = members
  BY <1>5, BaseIs
<1>7. g[1] = TellMove(g[0], r)
  BY <1>5, <1>6, StepsAre
<1>8. /\ g[0] \in States(r)
      /\ \A s \in Scene : \A q \in members[s] : place[q] = s
      /\ place[r] \in Scene /\ members \in [Scene -> SUBSET Role] /\ place \in [Role -> Scene \cup {None}]
  BY <1>6, StateFacts DEF Fit, Listed
<1>9. Told(g[0], g[1], r, Others(g[0], r), <<"move", r, path'[r]>>)
  BY <1>2, <1>7, <1>8, TellsAre
<1>10. Fit(g[1], r)
  BY <1>6, <1>9, FitTold, Zenon
<1>11. g[1].missed = missed /\ g[1].place = place /\ g[1].members = members
  BY <1>6, <1>9 DEF Told
<1>12. \A q \in Role : session'[q] # None => (session'[q] \in Others(g[0], r) <=> q \in members[place[r]] \ {r})
  <2> SUFFICES ASSUME NEW q \in Role, session'[q] # None
               PROVE  session'[q] \in Others(g[0], r) <=> q \in members[place[r]] \ {r}
    OBVIOUS
  <2>1. session'[q] \in Others(g[0], r) <=> q \in g[0].members[g[0].place[r]] \ {r}
    BY <1>2, <1>8, IsOther
  <2> QED
    BY <1>6, <2>1
<1>13. ASSUME NEW q \in Role \ {r}, session'[q] # None, place[q] # None,
              Ends(sight[session'[q]], session'[q], wire, There(q))
       PROVE  Views(g[1], q, ThereIn(place, members, q, path'))
  <2> DEFINE x == ThereIn(place, members, q, path)
             y == ThereIn(place, members, q, path')
             what == <<"move", r, path'[r]>>
  <2>1. Views(g[0], q, x)
    BY <1>5, <1>6, <1>13, BaseViews
  <2>2. path' \in [Role -> Pos] /\ path \in [Role -> Pos] /\ \A e \in Role \ {r} : path[e] = path'[e]
    BY DEF Begin, Posts
  <2>3. place[q] \in Scene
    BY <1>8, <1>13
  <2>4. CASE q \in members[place[r]] /\ r \in members[place[r]]
    <3>1. place[q] = place[r]
      BY <1>8, <2>4
    <3> DEFINE R == members[place[r]] \ {q}
    <3>2. x = Shown(R, path) /\ y = Shown(R, path')
      BY <2>4, <3>1 DEF ThereIn
    <3>3. r \in R /\ R \subseteq Role
      BY <1>8, <2>4
    <3> HIDE DEF R, x, y
    <3>4. Seen(Shown(R, path), what) = Shown(R, path')
      BY <2>2, <3>3, ShownMoved
    <3>5. session'[q] \in Others(g[0], r)
      BY <1>12, <1>13, <2>4
    <3> HIDE DEF what
    <3>6. Views(g[1], q, Seen(x, what))
      BY <1>9, <2>1, <3>5, ToldIn DEF what
    <3> QED
      BY <3>2, <3>4, <3>6 DEF y
  <2>5. CASE ~ (q \in members[place[r]] /\ r \in members[place[r]])
    <3>1. ~ (q \in members[place[q]] /\ r \in members[place[q]])
      BY <1>8, <2>3, <2>5
    <3>2. x = y
      <4> DEFINE R == members[place[q]] \ {q}
      <4>1. CASE r \notin members[place[q]]
        <5>1. r \notin R
          BY <4>1
        <5> HIDE DEF R
        <5>2. Shown(R, path) = Shown(R, path')
          BY <2>2, <5>1 DEF Shown
        <5> QED
          BY <5>2 DEF ThereIn, R
      <4>2. CASE q \notin members[place[q]]
        BY <4>2 DEF ThereIn
      <4> QED
        BY <3>1, <4>1, <4>2
    <3>3. CASE q \in members[place[r]]
      <4>1. session'[q] \in Others(g[0], r)
        BY <1>12, <1>13, <3>3
      <4>2. place[q] = place[r] /\ r \notin members[place[r]]
        BY <1>8, <2>5, <3>3
      <4>3. x[r] = None /\ x = [e \in Role |-> x[e]]
        BY <4>2 DEF ThereIn, Shown, Nobody
      <4> HIDE DEF x, y
      <4>4. Seen(x, what) = [x EXCEPT ![r] = IF x[r] = None THEN None ELSE path'[r]]
        BY SeenMove, Zenon
      <4>5. Seen(x, what) = x
        BY <4>3, <4>4
      <4> HIDE DEF what
      <4>6. Views(g[1], q, Seen(x, what))
        BY <1>9, <2>1, <4>1, ToldIn DEF what
      <4> QED
        BY <3>2, <4>5, <4>6 DEF y
    <3>4. CASE q \notin members[place[r]]
      <4>1. session'[q] \notin Others(g[0], r)
        BY <1>12, <1>13, <3>4
      <4> HIDE DEF x, y
      <4>2. Views(g[1], q, x)
        BY <1>9, <2>1, <4>1, ToldOut
      <4> QED
        BY <3>2, <4>2 DEF y
    <3> QED
      BY <3>3, <3>4
  <2> QED
    BY <2>4, <2>5
<1>14. ASSUME session'[r] \notin missed, Ends(sight[session'[r]], session'[r], wire, There(r))
       PROVE  Views(g[1], r, ThereIn(place, members, r, path'))
  <2> DEFINE R == members[place[r]] \ {r}
  <2>1. r \notin R
    OBVIOUS
  <2>2. \A e \in Role \ {r} : path[e] = path'[e]
    BY DEF Begin
  <2> HIDE DEF R
  <2>3. Shown(R, path) = Shown(R, path')
    BY <2>1, <2>2 DEF Shown
  <2>4. There(r) = ThereIn(place, members, r, path')
    BY <2>3 DEF There, ThereIn, R
  <2>5. Views(g[0], r, There(r))
    BY <1>5, <1>14, BaseIs DEF Views
  <2>6. session'[r] \notin Others(g[0], r)
    BY <1>2, <1>12
  <2>7. Views(g[1], r, There(r))
    BY <1>9, <2>5, <2>6, ToldOut
  <2> QED
    BY <2>4, <2>7
<1>15. Right(g[1], r)
  <2>1. place[r] # None
    BY <1>8, SightAssumption
  <2> QED
    BY <1>11, <1>13, <1>14, <2>1 DEF Right
<1>16. \A n \in 0 .. 1 : Fit(g[n], r)
  <2>1. \A n \in 0 .. 1 : n = 0 \/ n = 1
    OBVIOUS
  <2> QED
    BY <1>6, <1>10, <2>1
<1>17. RunsWell(r, place, ops)
  BY <1>1, <1>4, <1>15, <1>16 DEF RunsWell, Steps
<1> QED
  BY <1>17 DEF ops

-----------------------------------------------------------------------------
(* Logins and LOGOUTs on their way.                                        *)
Requests == {<<"login", f, r>> : f \in Fd, r \in Role} \cup {<<"logout", f>> : f \in Fd}

IsLogin(m)     == m[1] = "login"
IsLogout(m, f) == m = <<"logout", f>>

(* A login waits for the LOGOUT of whoever had the descriptor, and of the  *)
(* descriptor that had the account.                                        *)
LoginWaits(q, ss, ow, k) ==
  /\ \A r \in Role : ss[r] = q[k][2] \/ (r = q[k][3] /\ ss[r] # None) =>
       \E j \in 1 .. k - 1 : IsLogout(q[j], ss[r])
  /\ \A l \in 1 .. k - 1 : IsLogin(q[l]) /\ (q[l][2] = q[k][2] \/ q[l][3] = q[k][3]) =>
       \E j \in l + 1 .. k - 1 : IsLogout(q[j], q[l][2])
  /\ ow[q[k][2]] = q[k][3] \/ \E j \in k + 1 .. Len(q) : IsLogout(q[j], q[k][2])

(* A role whose client has left has a LOGOUT coming, and no two roles have *)
(* one descriptor.                                                         *)
Attached(q, ss, ow) ==
  /\ \A r \in Role : ss[r] # None => ow[ss[r]] = r \/ \E j \in 1 .. Len(q) : IsLogout(q[j], ss[r])
  /\ \A r, p \in Role : ss[r] = ss[p] /\ ss[r] # None => r = p

Waiting(q, ss, ow) ==
  /\ \A k \in 1 .. Len(q) : IsLogin(q[k]) => LoginWaits(q, ss, ow, k)
  /\ Attached(q, ss, ow)

LEMMA RequestIs ==
  ASSUME NEW m \in Requests
  PROVE  /\ IsLogin(m) => m[2] \in Fd /\ m[3] \in Role /\ \A f : ~ IsLogout(m, f)
         /\ ~ IsLogin(m) => m[1] = "logout" /\ m[2] \in Fd /\ IsLogout(m, m[2]) /\ \A f : IsLogout(m, f) => f = m[2]
<1>1. CASE \E f \in Fd, r \in Role : m = <<"login", f, r>>
  <2>1. PICK f \in Fd, r \in Role : m = <<"login", f, r>>
    BY <1>1
  <2>2. m[1] = "login" /\ m[2] = f /\ m[3] = r
    BY <2>1
  <2>3. \A e : <<"logout", e>>[1] = "logout"
    OBVIOUS
  <2>4. \A e : m # <<"logout", e>>
    BY <2>2, <2>3
  <2> QED
    BY <2>2, <2>4 DEF IsLogin, IsLogout
<1>2. CASE \E f \in Fd : m = <<"logout", f>>
  <2>1. PICK f \in Fd : m = <<"logout", f>>
    BY <1>2
  <2>2. m[1] = "logout" /\ m[2] = f
    BY <2>1
  <2>3. \A e : <<"logout", e>>[2] = e
    OBVIOUS
  <2>4. \A e : m = <<"logout", e>> => e = f
    BY <2>2, <2>3
  <2> QED
    BY <2>1, <2>2, <2>4 DEF IsLogin, IsLogout
<1> QED
  BY <1>1, <1>2 DEF Requests

LEMMA QueueFacts ==
  ASSUME NEW q \in Seq(Requests)
  PROVE  /\ Len(q) \in Nat /\ \A k \in 1 .. Len(q) : q[k] \in Requests
         /\ \A m \in Requests :
              /\ Append(q, m) \in Seq(Requests) /\ Len(Append(q, m)) = Len(q) + 1
              /\ Append(q, m)[Len(q) + 1] = m /\ \A k \in 1 .. Len(q) : Append(q, m)[k] = q[k]
         /\ q # << >> =>
              /\ Len(q) > 0 /\ Head(q) = q[1] /\ Tail(q) \in Seq(Requests)
              /\ Len(Tail(q)) = Len(q) - 1 /\ \A k \in 1 .. Len(q) - 1 : Tail(q)[k] = q[k + 1]
OBVIOUS

(* Waiting is about what stays, with one more request behind.              *)
LEMMA WaitsOn ==
  ASSUME NEW q \in Seq(Requests), NEW u, NEW k \in 1 .. Len(q), NEW ss, NEW ow, NEW ox,
         Len(u) = Len(q) + 1, \A i \in 1 .. Len(q) : u[i] = q[i],
         LoginWaits(q, ss, ow, k),
         ox[q[k][2]] = q[k][3] \/ (\E j \in k + 1 .. Len(q) : IsLogout(q[j], q[k][2])) \/ IsLogout(u[Len(u)], q[k][2])
  PROVE  LoginWaits(u, ss, ox, k)
<1>1. Len(q) \in Nat
  BY QueueFacts
<1>2. u[k] = q[k] /\ \A i \in 1 .. k - 1 : u[i] = q[i] /\ \A l \in 1 .. k - 1 : \A j \in l + 1 .. k - 1 : u[j] = q[j]
  <2>1. \A i \in 1 .. k - 1 : i \in 1 .. Len(q) /\ \A l \in 1 .. k - 1 : \A j \in l + 1 .. k - 1 : j \in 1 .. Len(q)
    BY <1>1
  <2> QED
    BY <2>1
<1>3. \A r \in Role : ss[r] = u[k][2] \/ (r = u[k][3] /\ ss[r] # None) =>
        \E j \in 1 .. k - 1 : IsLogout(u[j], ss[r])
  BY <1>2 DEF LoginWaits
<1>4. \A l \in 1 .. k - 1 : IsLogin(u[l]) /\ (u[l][2] = u[k][2] \/ u[l][3] = u[k][3]) =>
        \E j \in l + 1 .. k - 1 : IsLogout(u[j], u[l][2])
  BY <1>2 DEF LoginWaits
<1>5. ox[u[k][2]] = u[k][3] \/ \E j \in k + 1 .. Len(u) : IsLogout(u[j], u[k][2])
  <2>1. \A j \in k + 1 .. Len(q) : j \in k + 1 .. Len(u) /\ u[j] = q[j]
    BY <1>1
  <2>2. Len(u) \in k + 1 .. Len(u)
    BY <1>1
  <2> QED
    BY <1>2, <2>1, <2>2
<1> QED
  BY <1>3, <1>4, <1>5 DEF LoginWaits

LEMMA OpenWaits ==
  ASSUME NEW q \in Seq(Requests), NEW ss \in [Role -> Fd \cup {None}], NEW ow \in [Fd -> Role \cup {None}],
         Waiting(q, ss, ow), NEW f \in Fd, NEW r \in Role, ow[f] = None, \A g \in Fd : ow[g] # r,
         NEW u, u = Append(q, <<"login", f, r>>), NEW ox, ox = [ow EXCEPT ![f] = r]
  PROVE  Waiting(u, ss, ox)
<1> DEFINE m == <<"login", f, r>>
           n == Len(q)
<1>1. m \in Requests /\ m[2] = f /\ m[3] = r
  BY DEF Requests
<1> HIDE DEF m
<1>2. n \in Nat /\ Len(u) = n + 1 /\ u[n + 1] = m /\ \A i \in 1 .. n : u[i] = q[i] /\ q[i] \in Requests
  BY <1>1, QueueFacts DEF m
<1> HIDE DEF n
<1>3. ox[f] = r /\ \A g \in Fd : g # f => ox[g] = ow[g]
  OBVIOUS
<1>4. ASSUME NEW p \in Role, ss[p] # None, ow[ss[p]] # p
      PROVE  \E j \in 1 .. n : IsLogout(q[j], ss[p])
  BY <1>4 DEF Waiting, Attached, n
<1>5. ASSUME NEW k \in 1 .. n, IsLogin(q[k]), ow[q[k][2]] # q[k][3]
      PROVE  \E j \in k + 1 .. n : IsLogout(q[j], q[k][2])
  BY <1>5 DEF Waiting, LoginWaits, n
<1>6. ASSUME NEW k \in 1 .. n, IsLogin(q[k])
      PROVE  LoginWaits(u, ss, ox, k)
  <2>1. q[k][2] \in Fd /\ q[k][3] \in Role
    BY <1>2, <1>6, RequestIs
  <2>2. q[k][2] = f => ow[q[k][2]] # q[k][3]
    BY <2>1, SightAssumption
  <2>3. LoginWaits(q, ss, ow, k)
    BY <1>6 DEF Waiting, n
  <2>4. ox[q[k][2]] = q[k][3] \/ \E j \in k + 1 .. Len(q) : IsLogout(q[j], q[k][2])
    BY <1>3, <1>5, <1>6, <2>1, <2>2 DEF n
  <2> QED
    BY <1>2, <2>3, <2>4, WaitsOn DEF n
<1>7. LoginWaits(u, ss, ox, n + 1)
  <2>1. \A p \in Role : ss[p] = f \/ (p = r /\ ss[p] # None) =>
          \E j \in 1 .. n : IsLogout(q[j], ss[p])
    <3> SUFFICES ASSUME NEW p \in Role, ss[p] = f \/ (p = r /\ ss[p] # None)
                 PROVE  \E j \in 1 .. n : IsLogout(q[j], ss[p])
      OBVIOUS
    <3>1. ss[p] # None /\ ow[ss[p]] # p
      BY SightAssumption
    <3> QED
      BY <1>4, <3>1
  <2>2. \A l \in 1 .. n : IsLogin(q[l]) /\ (q[l][2] = f \/ q[l][3] = r) =>
          \E j \in l + 1 .. n : IsLogout(q[j], q[l][2])
    <3> SUFFICES ASSUME NEW l \in 1 .. n, IsLogin(q[l]), q[l][2] = f \/ q[l][3] = r
                 PROVE  \E j \in l + 1 .. n : IsLogout(q[j], q[l][2])
      OBVIOUS
    <3>1. q[l][2] \in Fd /\ q[l][3] \in Role
      BY <1>2, RequestIs
    <3>2. ow[q[l][2]] # q[l][3]
      BY <3>1, SightAssumption
    <3> QED
      BY <1>5, <3>2
  <2>3. n + 1 - 1 = n /\ \A l \in 1 .. n : \A j \in l + 1 .. n : j \in 1 .. n
    BY <1>2
  <2>4. \A p \in Role : ss[p] = f \/ (p = r /\ ss[p] # None) =>
          \E j \in 1 .. n : IsLogout(u[j], ss[p])
    BY <1>2, <2>1
  <2>5. \A l \in 1 .. n : IsLogin(u[l]) /\ (u[l][2] = f \/ u[l][3] = r) =>
          \E j \in l + 1 .. n : IsLogout(u[j], u[l][2])
    BY <1>2, <2>2, <2>3
  <2>6. PICK k : k = n + 1 /\ k - 1 = n /\ u[k] = m
    BY <1>2
  <2>7. u[k][2] = f /\ u[k][3] = r
    BY <1>1, <2>6
  <2>8. \A p \in Role : ss[p] = u[k][2] \/ (p = u[k][3] /\ ss[p] # None) =>
          \E j \in 1 .. k - 1 : IsLogout(u[j], ss[p])
    BY <2>4, <2>6, <2>7, Zenon
  <2>9. \A l \in 1 .. k - 1 : IsLogin(u[l]) /\ (u[l][2] = u[k][2] \/ u[l][3] = u[k][3]) =>
          \E j \in l + 1 .. k - 1 : IsLogout(u[j], u[l][2])
    BY <2>5, <2>6, <2>7, Zenon
  <2>10. ox[u[k][2]] = u[k][3]
    BY <1>3, <2>7, Zenon
  <2>11. LoginWaits(u, ss, ox, k)
    BY <2>8, <2>9, <2>10, Zenon DEF LoginWaits
  <2> QED
    BY <2>6, <2>11
<1>8. \A k \in 1 .. n + 1 : IsLogin(u[k]) => LoginWaits(u, ss, ox, k)
  <2>1. \A k \in 1 .. n + 1 : k = n + 1 \/ k \in 1 .. n
    BY <1>2
  <2> QED
    BY <1>2, <1>6, <1>7, <2>1
<1>9. ASSUME NEW p \in Role, ss[p] # None, ox[ss[p]] # p
      PROVE  \E j \in 1 .. n + 1 : IsLogout(u[j], ss[p])
  <2>1. ow[ss[p]] # p
    BY <1>3, <1>9, SightAssumption
  <2>2. PICK j \in 1 .. n : IsLogout(q[j], ss[p])
    BY <1>4, <1>9, <2>1
  <2>3. j \in 1 .. n + 1 /\ u[j] = q[j]
    BY <1>2
  <2> QED
    BY <2>2, <2>3
<1>10. Attached(u, ss, ox)
  <2>1. \A a, p \in Role : ss[a] = ss[p] /\ ss[a] # None => a = p
    BY DEF Waiting, Attached
  <2> QED
    BY <1>2, <1>9, <2>1 DEF Attached
<1> QED
  BY <1>2, <1>8, <1>10 DEF Waiting

LEMMA CloseWaits ==
  ASSUME NEW q \in Seq(Requests), NEW ss \in [Role -> Fd \cup {None}], NEW ow \in [Fd -> Role \cup {None}],
         Waiting(q, ss, ow), NEW f \in Fd,
         NEW u, u = Append(q, <<"logout", f>>), NEW ox, ox = [ow EXCEPT ![f] = None]
  PROVE  Waiting(u, ss, ox)
<1> DEFINE m == <<"logout", f>>
           n == Len(q)
<1>1. m \in Requests /\ ~ IsLogin(m) /\ IsLogout(m, f)
  BY DEF Requests, IsLogin, IsLogout
<1> HIDE DEF m
<1>2. n \in Nat /\ Len(u) = n + 1 /\ u[n + 1] = m /\ \A i \in 1 .. n : u[i] = q[i] /\ q[i] \in Requests
  BY <1>1, QueueFacts DEF m
<1> HIDE DEF n
<1>3. \A g \in Fd : g # f => ox[g] = ow[g]
  OBVIOUS
<1>4. ASSUME NEW k \in 1 .. n, IsLogin(q[k])
      PROVE  LoginWaits(u, ss, ox, k)
  <2>1. q[k][2] \in Fd
    BY <1>2, <1>4, RequestIs
  <2>2. LoginWaits(q, ss, ow, k)
    BY <1>4 DEF Waiting, n
  <2>3. \/ ox[q[k][2]] = q[k][3] \/ \E j \in k + 1 .. Len(q) : IsLogout(q[j], q[k][2])
        \/ IsLogout(u[Len(u)], q[k][2])
    BY <1>1, <1>2, <1>3, <2>1, <2>2 DEF LoginWaits
  <2> QED
    BY <1>2, <2>2, <2>3, WaitsOn DEF n
<1>5. \A k \in 1 .. n + 1 : IsLogin(u[k]) => LoginWaits(u, ss, ox, k)
  <2>1. \A k \in 1 .. n + 1 : k = n + 1 \/ k \in 1 .. n
    BY <1>2
  <2> QED
    BY <1>1, <1>2, <1>4, <2>1
<1>6. ASSUME NEW p \in Role, ss[p] # None, ox[ss[p]] # p
      PROVE  \E j \in 1 .. n + 1 : IsLogout(u[j], ss[p])
  <2>1. CASE ss[p] = f
    <3>1. n + 1 \in 1 .. n + 1
      BY <1>2
    <3> QED
      BY <1>1, <1>2, <2>1, <3>1
  <2>2. CASE ss[p] # f
    <3>1. ow[ss[p]] # p
      BY <1>3, <1>6, <2>2
    <3>2. PICK j \in 1 .. n : IsLogout(q[j], ss[p])
      BY <1>6, <3>1 DEF Waiting, Attached, n
    <3>3. j \in 1 .. n + 1 /\ u[j] = q[j]
      BY <1>2
    <3> QED
      BY <3>2, <3>3
  <2> QED
    BY <2>1, <2>2
<1>7. Attached(u, ss, ox)
  <2>1. \A a, p \in Role : ss[a] = ss[p] /\ ss[a] # None => a = p
    BY DEF Waiting, Attached
  <2> QED
    BY <1>2, <1>6, <2>1 DEF Attached
<1> QED
  BY <1>2, <1>5, <1>7 DEF Waiting

(* The first request is handled: u is the rest.                            *)
LEMMA WaitsLess ==
  ASSUME NEW q \in Seq(Requests), q # << >>, NEW u, u = Tail(q),
         NEW ss \in [Role -> Fd \cup {None}], NEW ow, Waiting(q, ss, ow),
         NEW st \in [Role -> Fd \cup {None}],
         \A r \in Role : st[r] # None =>
           \/ st[r] = ss[r] /\ ~ IsLogout(q[1], ss[r])
           \/ IsLogin(q[1]) /\ r = q[1][3] /\ st[r] = q[1][2],
         \A r, p \in Role : st[r] = st[p] /\ st[r] # None => r = p
  PROVE  Waiting(u, st, ow)
<1> DEFINE n == Len(q)
<1>1. /\ n \in Nat /\ n > 0 /\ u \in Seq(Requests) /\ Len(u) = n - 1
      /\ \A k \in 1 .. n - 1 : u[k] = q[k + 1]
      /\ \A k \in 1 .. n : q[k] \in Requests
  BY QueueFacts
<1> HIDE DEF n
<1>2. \A k \in 1 .. n : IsLogin(q[k]) => LoginWaits(q, ss, ow, k)
  BY DEF Waiting, n
<1>3. 1 \in 1 .. n
  BY <1>1
<1>4. ASSUME NEW r \in Role, st[r] # None, ow[st[r]] # r
      PROVE  \E j \in 1 .. n - 1 : IsLogout(u[j], st[r])
  <2>1. CASE st[r] = ss[r] /\ ~ IsLogout(q[1], ss[r])
    <3>1. PICK j \in 1 .. n : IsLogout(q[j], ss[r])
      BY <1>4, <2>1 DEF Waiting, Attached, n
    <3>2. j # 1
      BY <2>1, <3>1
    <3>3. PICK i \in 1 .. n - 1 : j = i + 1
      BY <1>1, <3>2
    <3> QED
      BY <1>1, <2>1, <3>1, <3>3
  <2>2. CASE IsLogin(q[1]) /\ r = q[1][3] /\ st[r] = q[1][2]
    <3>1. PICK j \in 1 + 1 .. n : IsLogout(q[j], q[1][2])
      BY <1>2, <1>3, <1>4, <2>2 DEF LoginWaits, n
    <3>2. PICK i \in 1 .. n - 1 : j = i + 1
      BY <1>1
    <3> QED
      BY <1>1, <2>2, <3>1, <3>2
  <2> QED
    BY <1>4, <2>1, <2>2
<1>5. ASSUME NEW k \in 1 .. n - 1, IsLogin(u[k])
      PROVE  LoginWaits(u, st, ow, k)
  <2>1. PICK h \in 1 .. n : h = k + 1 /\ h - 1 = k
    BY <1>1
  <2>2. u[k] = q[h] /\ q[h][2] \in Fd /\ q[h][3] \in Role
    BY <1>1, <1>5, <2>1, RequestIs
  <2>3. LoginWaits(q, ss, ow, h)
    BY <1>2, <1>5, <2>2
  <2>4. ASSUME NEW r \in Role, st[r] = u[k][2] \/ (r = u[k][3] /\ st[r] # None)
        PROVE  \E j \in 1 .. k - 1 : IsLogout(u[j], st[r])
    <3>0. st[r] # None
      BY <2>2, <2>4, SightAssumption
    <3>1. CASE st[r] = ss[r] /\ ~ IsLogout(q[1], ss[r])
      <4>1. PICK j \in 1 .. h - 1 : IsLogout(q[j], ss[r])
        BY <2>2, <2>3, <2>4, <3>1 DEF LoginWaits
      <4>2. j # 1
        BY <3>1, <4>1
      <4>3. PICK i \in 1 .. k - 1 : j = i + 1 /\ i \in 1 .. n - 1
        BY <1>1, <2>1, <4>2
      <4> QED
        BY <1>1, <3>1, <4>1, <4>3
    <3>2. CASE IsLogin(q[1]) /\ r = q[1][3] /\ st[r] = q[1][2]
      <4>1. 1 \in 1 .. h - 1
        BY <1>1, <2>1
      <4>2. q[1][2] = q[h][2] \/ q[1][3] = q[h][3]
        BY <2>2, <2>4, <3>2
      <4>3. PICK j \in 1 + 1 .. h - 1 : IsLogout(q[j], q[1][2])
        BY <2>3, <3>2, <4>1, <4>2 DEF LoginWaits
      <4>4. PICK i \in 1 .. k - 1 : j = i + 1 /\ i \in 1 .. n - 1
        BY <1>1, <2>1
      <4> QED
        BY <1>1, <3>2, <4>3, <4>4
    <3> QED
      BY <3>0, <3>1, <3>2
  <2>5. ASSUME NEW l \in 1 .. k - 1, IsLogin(u[l]), u[l][2] = u[k][2] \/ u[l][3] = u[k][3]
        PROVE  \E j \in l + 1 .. k - 1 : IsLogout(u[j], u[l][2])
    <3>1. PICK g \in 1 .. h - 1 : g = l + 1 /\ l \in 1 .. n - 1
      BY <1>1, <2>1
    <3>2. u[l] = q[g]
      BY <1>1, <3>1
    <3>3. PICK j \in g + 1 .. h - 1 : IsLogout(q[j], q[g][2])
      BY <2>2, <2>3, <2>5, <3>2 DEF LoginWaits
    <3>4. PICK i \in l + 1 .. k - 1 : j = i + 1 /\ i \in 1 .. n - 1
      BY <1>1, <2>1, <3>1
    <3> QED
      BY <1>1, <3>2, <3>3, <3>4
  <2>6. ow[u[k][2]] = u[k][3] \/ \E j \in k + 1 .. Len(u) : IsLogout(u[j], u[k][2])
    <3>1. CASE ow[q[h][2]] = q[h][3]
      BY <2>2, <3>1
    <3>2. CASE \E j \in h + 1 .. n : IsLogout(q[j], q[h][2])
      <4>1. PICK j \in h + 1 .. n : IsLogout(q[j], q[h][2])
        BY <3>2
      <4>2. PICK i \in k + 1 .. Len(u) : j = i + 1 /\ i \in 1 .. n - 1
        BY <1>1, <2>1
      <4> QED
        BY <1>1, <2>2, <4>1, <4>2
    <3> QED
      BY <2>3, <3>1, <3>2 DEF LoginWaits, n
  <2> QED
    BY <2>4, <2>5, <2>6 DEF LoginWaits
<1>6. Attached(u, st, ow)
  BY <1>1, <1>4 DEF Attached
<1> QED
  BY <1>1, <1>5, <1>6 DEF Waiting

(* Nobody has an account or a descriptor that a login is handled for.      *)
LEMMA FirstLogin ==
  ASSUME NEW q \in Seq(Requests), q # << >>, NEW ss, NEW ow, Waiting(q, ss, ow), IsLogin(q[1])
  PROVE  \A r \in Role : ss[r] # q[1][2] /\ (r = q[1][3] => ss[r] = None)
<1>1. 1 \in 1 .. Len(q)
  BY QueueFacts
<1>2. LoginWaits(q, ss, ow, 1)
  BY <1>1 DEF Waiting
<1>3. \A j \in 1 .. 1 - 1 : FALSE
  OBVIOUS
<1> QED
  BY <1>2, <1>3 DEF LoginWaits

LEMMA NoneWaits ==
  ASSUME NEW q \in Seq(Requests), NEW ss \in [Role -> Fd \cup {None}], NEW ow, Waiting(q, ss, ow),
         \A f \in Fd : \A k \in 1 .. Len(q) : ~ IsLogout(q[k], f)
  PROVE  Waiting(<< >>, ss, ow)
<1>1. Len(<< >>) = 0 /\ \A k \in 1 .. 0 : FALSE
  OBVIOUS
<1>2. \A r \in Role : ss[r] # None => ow[ss[r]] = r
  BY DEF Waiting, Attached
<1>3. Attached(<< >>, ss, ow)
  BY <1>2 DEF Waiting, Attached
<1> QED
  BY <1>1, <1>3 DEF Waiting

-----------------------------------------------------------------------------
(* The invariant.  Whoever watches will have seen all that is there.       *)
Watching(q) ==
  /\ place[q] # None /\ session[q] # None /\ session[q] \notin missed
  /\ owner[session[q]] # None /\ ~ Leaving(session[q])

Exact == \A q \in Role : Watching(q) => Ends(sight[session[q]], session[q], wire, There(q))

Placed ==
  /\ \A r \in Role : place[r] # None => session[r] # None
  /\ \A r \in away : place[r] # None

SInv ==
  /\ TypeOK /\ wire \in Seq(Notice) /\ toGame \in Seq(Requests)
  /\ Waiting(toGame, session, owner)
  /\ Listed(place, members) /\ Placed
  /\ Exact

LEMMA InvFacts ==
  ASSUME SInv
  PROVE  /\ owner \in [Fd -> Role \cup {None}] /\ session \in [Role -> Fd \cup {None}]
         /\ \A r \in away : r \in Role /\ session[r] # None
         /\ path \in [Role -> Pos] /\ place \in [Role -> Scene \cup {None}]
         /\ members \in [Scene -> SUBSET Role]
         /\ \A s \in Scene : \A q \in members[s] : session[q] # None /\ place[q] = s
         /\ sight \in [Fd -> View] /\ missed \subseteq Fd /\ faults \in 0 .. MaxFault
         /\ wire \in Seq(Notice) /\ toGame \in Seq(Requests)
         /\ Waiting(toGame, session, owner)
         /\ \A r, p \in Role : session[r] = session[p] /\ session[r] # None => r = p
BY DEF SInv, TypeOK, Online, View, Listed, Waiting, Attached

LEMMA BeginIs ==
  ASSUME SInv, NEW r \in Role, session[r] # None, session' = session,
         path' \in [Role -> Pos], \A q \in Role \ {r} : path'[q] = path[q]
  PROVE  Begin(r)
<1>1. Posts
  BY InvFacts DEF Posts, Sent
<1>2. Distinct /\ session'[r] \in Fd
  BY InvFacts DEF Distinct
<1> QED
  BY <1>1, <1>2, InvFacts DEF Begin

LEMMA BaseFits ==
  ASSUME SInv, NEW r \in Role, NEW p \in [Role -> Scene \cup {None}], p[r] \in Scene,
         \A q \in Role \ {r} : p[q] = place[q], Listed(p, members)
  PROVE  Fit(Base(p), r)
<1>1. Base(p) \in States(r)
  <2>1. members \in [Scene -> SUBSET Role] /\ wire \in Seq(Notice) /\ missed \subseteq Sent
    BY InvFacts DEF Sent
  <2> QED
    BY <2>1 DEF Base, States
<1> QED
  BY <1>1, BaseIs DEF Fit

(* After a handler of r the tables are in order.                           *)
LEMMA TablesSafe ==
  ASSUME SInv, NEW r \in Role, session[r] # None, session' = session,
         away' \subseteq away \cup {r}, path' \in [Role -> Pos],
         UNCHANGED <<owner, sight>>, faults' \in 0 .. MaxFault, missed' \subseteq Fd,
         NEW t, Fit(t, r), place' = t.place, members' = t.members
  PROVE  TypeOK' /\ Listed(place', members') /\ Placed'
<1>1. t \in States(r) /\ Listed(t.place, t.members)
  BY DEF Fit
<1>2. /\ place' \in [Role -> Scene \cup {None}] /\ members' \in [Scene -> SUBSET Role]
      /\ \A s \in Scene : Cardinality(members'[s]) <= Cap
  BY <1>1, StateFacts DEF Listed
<1>3. /\ \A s \in Scene : members'[s] \subseteq members[s] \cup {r}
      /\ \A q \in Role \ {r} : place'[q] = place[q]
  BY DEF Fit
<1>4. \A s \in Scene : \A q \in members'[s] : session'[q] # None
  BY <1>3, InvFacts
<1>5. members' \in [Scene -> SUBSET Online']
  BY <1>2, <1>4 DEF Online
<1>6. away' \subseteq Online'
  BY InvFacts DEF Online
<1>7. owner' \in [Fd -> Role \cup {None}] /\ session' \in [Role -> Fd \cup {None}]
      /\ sight' \in [Fd -> [Role -> Pos \cup {None}]]
  BY InvFacts DEF View
<1>8. TypeOK'
  BY <1>2, <1>5, <1>6, <1>7 DEF TypeOK
<1>9. Placed'
  <2>1. place'[r] # None
    BY <1>1, StateFacts, SightAssumption
  <2>2. \A q \in away : q \in Role
    BY InvFacts
  <2> QED
    BY <1>3, <2>1, <2>2 DEF Placed, SInv
<1> QED
  BY <1>1, <1>8, <1>9

LEMMA LeavingIs ==
  ASSUME toGame \in Seq(Requests)
  PROVE  \A f : Leaving(f) <=> \E k \in 1 .. Len(toGame) : IsLogout(toGame[k], f)
<1>1. DOMAIN toGame = 1 .. Len(toGame)
  BY LenProperties
<1> QED
  BY <1>1 DEF Leaving, IsLogout

LEMMA KilledSafe ==
  ASSUME SInv, NEW r \in Role, session[r] # None, session' = session,
         away' \subseteq away \cup {r}, path' \in [Role -> Pos],
         UNCHANGED <<owner, sight>>, NEW t, Fit(t, r), Killed(t)
  PROVE  SInv'
<1>1. /\ toGame' = << >> /\ missed' = Fd /\ place' = t.place /\ members' = t.members
      /\ faults' \in 0 .. MaxFault
  BY InvFacts, SightAssumption DEF Killed
<1>2. TypeOK' /\ Listed(place', members') /\ Placed'
  BY <1>1, TablesSafe
<1>3. wire' \in Seq(Notice)
  <2>1. t.wire \in Seq(Notice)
    BY StateFacts DEF Fit
  <2>2. PICK n \in 0 .. Len(t.wire) : wire' = SubSeq(t.wire, 1, n)
    BY DEF Killed
  <2>3. Len(t.wire) \in Nat /\ \A i \in 1 .. n : t.wire[i] \in Notice
    BY <2>1, NoticeFacts
  <2> QED
    BY <2>1, <2>2, <2>3
<1>4. toGame' \in Seq(Requests)
  BY <1>1
<1>5. Waiting(toGame', session', owner')
  <2>1. \A f \in Fd : \A k \in 1 .. Len(toGame) : ~ IsLogout(toGame[k], f)
    BY InvFacts, LeavingIs DEF Killed
  <2>2. Waiting(<< >>, session, owner)
    BY <2>1, InvFacts, NoneWaits
  <2> QED
    BY <1>1, <2>2
<1>6. Exact'
  <2>1. session' \in [Role -> Fd \cup {None}]
    BY InvFacts
  <2> QED
    BY <1>1, <2>1 DEF Exact, Watching
<1> QED
  BY <1>2, <1>3, <1>4, <1>5, <1>6 DEF SInv

LEMMA RunSafe ==
  ASSUME SInv, NEW r \in Role, session[r] # None, session' = session,
         away' \subseteq away \cup {r}, Begin(r),
         NEW p, NEW ops \in Seq(Op), RunsWell(r, p, ops), Run(r, p, ops)
  PROVE  SInv'
<1>1. UNCHANGED <<owner, sight>> /\ path' \in [Role -> Pos] /\ Len(ops) \in Nat
  BY LenProperties DEF Run, Begin, Posts
<1>2. CASE \E n \in 0 .. Len(ops) - 1 : Killed(After(r, p, ops, n))
  <2>1. PICK n \in 0 .. Len(ops) - 1 : Killed(After(r, p, ops, n))
    BY <1>2
  <2>2. n \in 0 .. Len(ops)
    BY <1>1
  <2>3. Fit(After(r, p, ops, n), r)
    BY <2>2 DEF RunsWell
  <2> QED
    BY <1>1, <2>1, <2>3, KilledSafe
<1>3. CASE Become(After(r, p, ops, Len(ops))) /\ UNCHANGED <<toGame, faults>>
  <2> DEFINE t == After(r, p, ops, Len(ops))
  <2>1. Fit(t, r) /\ Right(t, r)
    BY <1>1 DEF RunsWell
  <2>2. place' = t.place /\ members' = t.members /\ wire' = t.wire /\ missed' = t.missed
    BY <1>3 DEF Become
  <2> HIDE DEF t
  <2>3. t \in States(r) /\ t.missed \subseteq missed \cup {session'[r]} /\ \A q \in Role \ {r} : t.place[q] = place[q]
    BY <2>1 DEF Fit
  <2>4. session'[r] \in Fd /\ missed' \subseteq Fd /\ faults' \in 0 .. MaxFault
    BY <1>3, <2>2, <2>3, InvFacts DEF Begin
  <2>5. TypeOK' /\ Listed(place', members') /\ Placed'
    BY <1>1, <2>1, <2>2, <2>4, TablesSafe
  <2>6. wire' \in Seq(Notice) /\ toGame' \in Seq(Requests) /\ Waiting(toGame', session', owner')
    BY <1>1, <1>3, <2>2, <2>3, StateFacts, InvFacts
  <2>7. \A f : Leaving(f)' <=> Leaving(f)
    BY <1>3 DEF Leaving
  <2>8. \A q : There(q)' = ThereIn(t.place, t.members, q, path')
    BY <2>2 DEF There, ThereIn
  <2>9. ASSUME NEW q \in Role, Watching(q)'
        PROVE  Ends(sight'[session'[q]], session'[q], wire', There(q)')
    <3>0. /\ place'[q] # None /\ session'[q] # None /\ session'[q] \notin missed'
          /\ owner[session[q]] # None /\ ~ Leaving(session[q])
      BY <1>1, <2>7, <2>9 DEF Watching
    <3>1. CASE q = r
      <4>1. place[r] # None /\ session'[r] \notin missed => Watching(r)
        BY <3>0, <3>1 DEF Watching
      <4>2. place[r] # None /\ session'[r] \notin missed => Ends(sight[session'[r]], session'[r], wire, There(r))
        BY <4>1 DEF SInv, Exact
      <4>3. Views(t, r, ThereIn(t.place, t.members, r, path'))
        BY <2>1, <2>2, <3>0, <3>1, <4>2 DEF Right
      <4> QED
        BY <1>1, <2>2, <2>8, <3>1, <4>3 DEF Views
    <3>2. CASE q # r
      <4>1. session'[q] # session'[r]
        BY <3>0, <3>2 DEF Begin, Distinct
      <4>2. session[q] \notin missed /\ place[q] # None
        BY <2>1, <2>2, <2>3, <3>0, <3>2, <4>1 DEF Right
      <4>3. Watching(q)
        BY <3>0, <4>2 DEF Watching
      <4>4. Ends(sight[session[q]], session[q], wire, There(q))
        BY <4>3 DEF SInv, Exact
      <4>5. Views(t, q, ThereIn(t.place, t.members, q, path'))
        BY <2>1, <3>0, <3>2, <4>2, <4>4 DEF Right
      <4> QED
        BY <1>1, <2>2, <2>8, <4>5 DEF Views
    <3> QED
      BY <3>1, <3>2
  <2>10. Exact'
    BY <2>9 DEF Exact
  <2> QED
    BY <2>5, <2>6, <2>10 DEF SInv
<1> QED
  BY <1>2, <1>3 DEF Run

-----------------------------------------------------------------------------
(* Every action keeps the invariant.                                       *)
LEMMA MoveSafe ==
  ASSUME SInv, NEW r \in Role, NEW p \in Pos, Move(r, p)
  PROVE  SInv'
<1>1. /\ place[r] # None /\ path' = [path EXCEPT ![r] = p] /\ session' = session /\ away' = away
      /\ Run(r, place, << <<"move">> >>)
  BY DEF Move
<1>2. session[r] # None /\ place[r] \in Scene
  BY <1>1, InvFacts DEF SInv, Placed
<1>3. path' \in [Role -> Pos] /\ \A q \in Role \ {r} : path'[q] = path[q]
  BY <1>1, InvFacts
<1>4. Begin(r)
  BY <1>1, <1>2, <1>3, BeginIs
<1>5. Fit(Base(place), r)
  BY <1>2, InvFacts, BaseFits DEF SInv
<1>6. RunsWell(r, place, << <<"move">> >>)
  BY <1>4, <1>5, MoveIs
<1>7. << <<"move">> >> \in Seq(Op)
  <2>1. <<"move">> \in Op
    BY DEF Op
  <2> QED
    BY <2>1
<1>8. away' \subseteq away \cup {r}
  BY <1>1, InvFacts
<1> QED
  BY <1>1, <1>2, <1>4, <1>6, <1>7, <1>8, RunSafe

LEMMA TransportSafe ==
  ASSUME SInv, NEW r \in Role, NEW s \in Scene, Transport(r, s)
  PROVE  SInv'
<1>1. /\ place[r] # None /\ path' = [path EXCEPT ![r] = Enter] /\ session' = session /\ away' = away
      /\ Run(r, place, AnswerGoCome(s))
  BY DEF Transport, AnswerGoCome
<1>2. session[r] # None /\ place[r] \in Scene
  BY <1>1, InvFacts DEF SInv, Placed
<1>3. path' \in [Role -> Pos] /\ \A q \in Role \ {r} : path'[q] = path[q]
  BY <1>1, InvFacts, SightAssumption
<1>4. Begin(r)
  BY <1>1, <1>2, <1>3, BeginIs
<1>5. Fit(Base(place), r)
  BY <1>2, InvFacts, BaseFits DEF SInv
<1>6. RunsWell(r, place, AnswerGoCome(s))
  BY <1>4, <1>5, TransportIs
<1>7. AnswerGoCome(s) \in Seq(Op)
  BY AnswerGoComeIs
<1>8. away' \subseteq away \cup {r}
  BY <1>1, InvFacts
<1> QED
  BY <1>1, <1>2, <1>4, <1>6, <1>7, <1>8, RunSafe

LEMMA EnterInstanceSafe ==
  ASSUME SInv, NEW r \in Role, EnterInstance(r)
  PROVE  SInv'
<1>1. /\ place[r] # None /\ path' = path /\ session' = session /\ away' = away \cup {r}
      /\ Run(r, place, GoAnswer)
  BY DEF EnterInstance, GoAnswer
<1>2. session[r] # None /\ place[r] \in Scene
  BY <1>1, InvFacts DEF SInv, Placed
<1>3. path' \in [Role -> Pos] /\ \A q \in Role \ {r} : path'[q] = path[q]
  BY <1>1, InvFacts
<1>4. Begin(r)
  BY <1>1, <1>2, <1>3, BeginIs
<1>5. Fit(Base(place), r)
  BY <1>2, InvFacts, BaseFits DEF SInv
<1>6. RunsWell(r, place, GoAnswer)
  BY <1>4, <1>5, EnterIs
<1>7. GoAnswer \in Seq(Op)
  BY GoAnswerIs
<1>8. away' \subseteq away \cup {r}
  BY <1>1, <1>2, InvFacts
<1> QED
  BY <1>1, <1>2, <1>4, <1>6, <1>7, <1>8, RunSafe

LEMMA LeaveInstanceSafe ==
  ASSUME SInv, NEW r \in Role, LeaveInstance(r)
  PROVE  SInv'
<1>1. /\ path' = path /\ session' = session /\ away' = away \ {r}
      /\ Run(r, place, AnswerCome(place[r])) /\ place[r] # None
  BY DEF LeaveInstance, AnswerCome, SInv, Placed
<1>2. session[r] # None /\ place[r] \in Scene
  BY <1>1, InvFacts DEF SInv, Placed
<1>3. path' \in [Role -> Pos] /\ \A q \in Role \ {r} : path'[q] = path[q]
  BY <1>1, InvFacts
<1>4. Begin(r)
  BY <1>1, <1>2, <1>3, BeginIs
<1>5. Fit(Base(place), r)
  BY <1>2, InvFacts, BaseFits DEF SInv
<1>6. RunsWell(r, place, AnswerCome(place[r]))
  BY <1>1, <1>2, <1>4, <1>5, ArriveIs
<1>7. AnswerCome(place[r]) \in Seq(Op)
  BY <1>2, AnswerComeIs
<1>8. away' \subseteq away \cup {r}
  BY <1>1, InvFacts
<1> QED
  BY <1>1, <1>2, <1>4, <1>6, <1>7, <1>8, RunSafe

LEMMA LoadSafe ==
  ASSUME SInv, NEW r \in Role, NEW s \in Scene, NEW e \in Pos, Load(r, s, e)
  PROVE  SInv'
<1> DEFINE p == [place EXCEPT ![r] = s]
<1>1. /\ place[r] = None /\ path' = [path EXCEPT ![r] = e] /\ session' = session /\ away' = away
      /\ Run(r, p, AnswerCome(s)) /\ session[r] # None
  BY DEF Load, AnswerCome, Online
<1>2. p \in [Role -> Scene \cup {None}] /\ p[r] \in Scene /\ \A q \in Role \ {r} : p[q] = place[q]
  BY InvFacts
<1> HIDE DEF p
<1>3. path' \in [Role -> Pos] /\ \A q \in Role \ {r} : path'[q] = path[q]
  BY <1>1, InvFacts
<1>4. Begin(r)
  BY <1>1, <1>3, BeginIs
<1>5. \A z \in Scene : r \notin members[z]
  BY <1>1, InvFacts, SightAssumption
<1>6. Listed(p, members)
  <2>1. \A z \in Scene : members[z] \subseteq Role
    BY InvFacts
  <2> QED
    BY <1>2, <1>5, <2>1 DEF SInv, Listed
<1>7. Fit(Base(p), r)
  BY <1>2, <1>6, BaseFits
<1>8. Free(Base(p), r)
  BY <1>5, BaseIs DEF Free
<1>9. RunsWell(r, p, AnswerCome(s))
  BY <1>4, <1>7, <1>8, ArriveIs
<1>10. AnswerCome(s) \in Seq(Op)
  BY AnswerComeIs
<1>11. away' \subseteq away \cup {r}
  BY <1>1, InvFacts
<1> QED
  BY <1>1, <1>4, <1>9, <1>10, <1>11, RunSafe

(* Whose LOGOUT is on its way.                                             *)
Leaves(q, f) == \E k \in 1 .. Len(q) : IsLogout(q[k], f)

LEMMA LeavesNow ==
  ASSUME toGame \in Seq(Requests)
  PROVE  \A f : Leaving(f) <=> Leaves(toGame, f)
BY LeavingIs DEF Leaves

LEMMA LeavesThen ==
  ASSUME toGame' \in Seq(Requests), NEW q \in Role, Watching(q)'
  PROVE  /\ place'[q] # None /\ session'[q] # None /\ session'[q] \notin missed'
         /\ owner'[session'[q]] # None /\ ~ Leaves(toGame', session'[q])
<1>1. DOMAIN toGame' = 1 .. Len(toGame')
  BY LenProperties
<1> QED
  BY <1>1 DEF Watching, Leaving, Leaves, IsLogout

LEMMA LeavesMore ==
  ASSUME NEW q \in Seq(Requests), NEW m \in Requests, NEW f, Leaves(q, f)
  PROVE  Leaves(Append(q, m), f)
<1>1. PICK k \in 1 .. Len(q) : IsLogout(q[k], f)
  BY DEF Leaves
<1>2. Append(q, m)[k] = q[k] /\ k \in 1 .. Len(Append(q, m))
  BY QueueFacts
<1> QED
  BY <1>1, <1>2 DEF Leaves

LEMMA LeavesLess ==
  ASSUME NEW q \in Seq(Requests), q # << >>, NEW f, ~ IsLogout(q[1], f), Leaves(q, f)
  PROVE  Leaves(Tail(q), f)
<1>1. PICK k \in 1 .. Len(q) : IsLogout(q[k], f)
  BY DEF Leaves
<1>2. k # 1
  BY <1>1
<1>3. /\ Len(q) \in Nat /\ Len(Tail(q)) = Len(q) - 1
      /\ \A i \in 1 .. Len(q) - 1 : Tail(q)[i] = q[i + 1]
  BY QueueFacts
<1>4. PICK i \in 1 .. Len(q) - 1 : k = i + 1
  BY <1>2, <1>3
<1> QED
  BY <1>1, <1>3, <1>4 DEF Leaves

LEMMA OpenSafe ==
  ASSUME SInv, NEW f \in Fd, NEW r \in Role, Open(f, r)
  PROVE  SInv'
<1> DEFINE m == <<"login", f, r>>
<1>1. /\ owner[f] = None /\ \A g \in Fd : owner[g] # r
      /\ toGame' = Append(toGame, m) /\ owner' = [owner EXCEPT ![f] = r]
      /\ UNCHANGED <<session, away, path, place, members, wire, missed, sight, faults>>
  BY DEF Open, Request, roles, tables
<1>2. m \in Requests /\ \A g : ~ IsLogout(m, g)
  <2>1. m \in Requests /\ IsLogin(m)
    BY DEF Requests, IsLogin
  <2> HIDE DEF m
  <2> QED
    BY <2>1, RequestIs
<1>3. toGame' \in Seq(Requests)
  BY <1>1, <1>2, InvFacts, QueueFacts
<1>4. Waiting(toGame', session', owner')
  <2>1. Waiting(toGame', session, owner')
    BY <1>1, InvFacts, OpenWaits
  <2> QED
    BY <1>1, <2>1
<1>5. TypeOK' /\ wire' \in Seq(Notice) /\ Listed(place', members') /\ Placed'
  BY <1>1, InvFacts DEF SInv, TypeOK, Placed, Online
<1>6. ASSUME NEW q \in Role, Watching(q)'
      PROVE  Watching(q)
  <2>1. /\ place[q] # None /\ session[q] # None /\ session[q] \notin missed
        /\ owner'[session[q]] # None /\ ~ Leaves(toGame', session[q])
    <3>1. session'[q] = session[q]
      BY <1>1
    <3> QED
      BY <1>1, <1>3, <1>6, <3>1, LeavesThen
  <2> HIDE DEF m
  <2>2. ~ Leaving(session[q])
    <3>1. toGame \in Seq(Requests)
      BY InvFacts
    <3>2. ~ Leaves(toGame, session[q])
      BY <1>1, <1>2, <2>1, <3>1, LeavesMore
    <3> QED
      BY <3>1, <3>2, LeavesNow
  <2>3. session[q] # f
    <3>1. owner[session[q]] = q \/ \E j \in 1 .. Len(toGame) : IsLogout(toGame[j], session[q])
      BY <2>1, InvFacts DEF Waiting, Attached
    <3>2. owner[session[q]] = q
      BY <2>2, <3>1, InvFacts, LeavingIs
    <3> QED
      BY <1>1, <3>2, SightAssumption
  <2> QED
    BY <1>1, <2>1, <2>2, <2>3, InvFacts DEF Watching
<1>7. Exact'
  <2>1. \A q : There(q)' = There(q)
    BY <1>1 DEF There
  <2> QED
    BY <1>1, <1>6, <2>1 DEF Exact, SInv
<1> QED
  BY <1>3, <1>4, <1>5, <1>7 DEF SInv

LEMMA CloseSafe ==
  ASSUME SInv, NEW f \in Fd, Close(f)
  PROVE  SInv'
<1> DEFINE m == <<"logout", f>>
<1>1. /\ toGame' = Append(toGame, m) /\ owner' = [owner EXCEPT ![f] = None]
      /\ sight' = [sight EXCEPT ![f] = Nobody]
      /\ UNCHANGED <<session, away, path, place, members, wire, missed, faults>>
  BY DEF Close, Request, roles, tables
<1>2. m \in Requests
  BY DEF Requests
<1>3. toGame' \in Seq(Requests)
  BY <1>1, <1>2, InvFacts, QueueFacts
<1>4. Waiting(toGame', session', owner')
  <2>1. Waiting(toGame', session, owner')
    BY <1>1, InvFacts, CloseWaits
  <2> QED
    BY <1>1, <2>1
<1>5. TypeOK' /\ wire' \in Seq(Notice) /\ Listed(place', members') /\ Placed'
  <2>1. sight' \in [Fd -> View]
    BY <1>1, InvFacts DEF Nobody, View
  <2> QED
    BY <1>1, <2>1, InvFacts DEF SInv, TypeOK, Placed, Online, View
<1>6. ASSUME NEW q \in Role, Watching(q)'
      PROVE  Watching(q) /\ session[q] # f
  <2>1. /\ place[q] # None /\ session[q] # None /\ session[q] \notin missed
        /\ owner'[session[q]] # None /\ ~ Leaves(toGame', session[q])
    <3>1. session'[q] = session[q]
      BY <1>1
    <3> QED
      BY <1>1, <1>3, <1>6, <3>1, LeavesThen
  <2> HIDE DEF m
  <2>2. ~ Leaving(session[q])
    <3>1. toGame \in Seq(Requests)
      BY InvFacts
    <3>2. ~ Leaves(toGame, session[q])
      BY <1>1, <1>2, <2>1, <3>1, LeavesMore
    <3> QED
      BY <3>1, <3>2, LeavesNow
  <2>3. session[q] # f
    BY <1>1, <2>1, InvFacts
  <2> QED
    BY <1>1, <2>1, <2>2, <2>3, InvFacts DEF Watching
<1>7. Exact'
  <2>1. \A q : There(q)' = There(q)
    BY <1>1 DEF There
  <2>2. \A g \in Fd : g # f => sight'[g] = sight[g]
    BY <1>1, InvFacts
  <2>3. \A q \in Role : Watching(q)' => sight'[session[q]] = sight[session[q]]
    BY <1>6, <2>2, InvFacts DEF Watching
  <2> QED
    BY <1>1, <1>6, <2>1, <2>3 DEF Exact, SInv
<1> QED
  BY <1>3, <1>4, <1>5, <1>7 DEF SInv

LEMMA LoginSafe ==
  ASSUME SInv, Login
  PROVE  SInv'
<1> DEFINE m == toGame[1]
           f == m[2]
           r == m[3]
<1>1. toGame # << >> /\ Head(toGame) = m /\ m \in Requests /\ IsLogin(m)
  BY InvFacts, QueueFacts DEF Login, IsLogin
<1>2. f \in Fd /\ r \in Role /\ \A g : ~ IsLogout(m, g)
  <2> HIDE DEF m
  <2> QED
    BY <1>1, RequestIs
<1>3. /\ session' = [session EXCEPT ![r] = f] /\ toGame' = Tail(toGame)
      /\ UNCHANGED <<owner, away, path, place, members, wire, missed, sight, faults>>
  BY <1>1 DEF Login, tables
<1>4. \A q \in Role : session[q] # f /\ (q = r => session[q] = None)
  BY <1>1, InvFacts, FirstLogin
<1> HIDE DEF m, f, r
<1>5. session[r] = None /\ place[r] = None
  BY <1>2, <1>4 DEF SInv, Placed
<1>6. session'[r] = f /\ \A q \in Role : q # r => session'[q] = session[q]
  BY <1>2, <1>3, InvFacts
<1>7. session' \in [Role -> Fd \cup {None}]
  BY <1>2, <1>3, InvFacts
<1>8. \A q \in Role : session[q] # None => session'[q] # None
  BY <1>5, <1>6
<1>9. TypeOK' /\ Listed(place', members') /\ Placed'
  <2>1. members' \in [Scene -> SUBSET Online'] /\ away' \subseteq Online'
    BY <1>3, <1>8, InvFacts DEF Online
  <2>2. Placed'
    BY <1>3, <1>8 DEF SInv, Placed
  <2> QED
    BY <1>3, <1>7, <2>1, <2>2 DEF SInv, TypeOK
<1>10. toGame' \in Seq(Requests) /\ wire' \in Seq(Notice)
  BY <1>1, <1>3, InvFacts, QueueFacts
<1>11. Waiting(toGame', session', owner')
  <2>1. \A q \in Role : session'[q] # None =>
           \/ session'[q] = session[q] /\ ~ IsLogout(toGame[1], session[q])
           \/ IsLogin(toGame[1]) /\ q = toGame[1][3] /\ session'[q] = toGame[1][2]
    BY <1>1, <1>2, <1>6 DEF m, f, r
  <2>2. \A q, p \in Role : session'[q] = session'[p] /\ session'[q] # None => q = p
    BY <1>4, <1>6, InvFacts
  <2>3. Waiting(toGame', session', owner)
    BY <1>1, <1>3, <1>7, <2>1, <2>2, InvFacts, WaitsLess
  <2> QED
    BY <1>3, <2>3
<1>12. ASSUME NEW q \in Role, Watching(q)'
       PROVE  Watching(q) /\ session'[q] = session[q]
  <2>1. /\ place'[q] # None /\ session'[q] # None /\ session'[q] \notin missed'
        /\ owner'[session'[q]] # None /\ ~ Leaves(toGame', session'[q])
    BY <1>10, <1>12, LeavesThen
  <2>2. q # r /\ session'[q] = session[q]
    BY <1>3, <1>5, <1>6, <2>1
  <2>3. ~ Leaving(session[q])
    <3>1. toGame \in Seq(Requests) /\ ~ IsLogout(toGame[1], session[q])
      BY <1>2, InvFacts DEF m
    <3>2. ~ Leaves(toGame, session[q])
      BY <1>1, <1>3, <2>1, <2>2, <3>1, LeavesLess
    <3> QED
      BY <3>1, <3>2, LeavesNow
  <2> QED
    BY <1>3, <2>1, <2>2, <2>3 DEF Watching
<1>13. Exact'
  <2>1. \A q : There(q)' = There(q)
    BY <1>3 DEF There
  <2> QED
    BY <1>3, <1>12, <2>1 DEF Exact, SInv
<1> QED
  BY <1>9, <1>10, <1>11, <1>13 DEF SInv

LEMMA KillSafe ==
  ASSUME SInv, Kill
  PROVE  SInv'
<1>1. /\ toGame' = << >> /\ missed' = Fd /\ place' = place /\ members' = members
      /\ faults' \in 0 .. MaxFault
      /\ UNCHANGED <<owner, session, away, path, sight>>
      /\ \A f \in Fd : ~ Leaving(f)
      /\ \E n \in 0 .. Len(wire) : wire' = SubSeq(wire, 1, n)
  BY InvFacts, SightAssumption DEF Kill, Killed, roles
<1>2. TypeOK' /\ Listed(place', members') /\ Placed'
  BY <1>1, InvFacts DEF SInv, TypeOK, Placed, Online
<1>3. wire' \in Seq(Notice)
  <2>1. PICK n \in 0 .. Len(wire) : wire' = SubSeq(wire, 1, n)
    BY <1>1
  <2>2. Len(wire) \in Nat /\ \A i \in 1 .. n : wire[i] \in Notice
    BY InvFacts, NoticeFacts
  <2> QED
    BY <2>1, <2>2, InvFacts
<1>4. Waiting(toGame', session', owner') /\ toGame' \in Seq(Requests)
  <2>1. \A f \in Fd : \A k \in 1 .. Len(toGame) : ~ IsLogout(toGame[k], f)
    BY <1>1, InvFacts, LeavingIs
  <2>2. Waiting(<< >>, session, owner)
    BY <2>1, InvFacts, NoneWaits
  <2> QED
    BY <1>1, <2>2
<1>5. Exact'
  <2>1. session' \in [Role -> Fd \cup {None}]
    BY <1>1, InvFacts
  <2> QED
    BY <1>1, <2>1 DEF Exact, Watching
<1> QED
  BY <1>2, <1>3, <1>4, <1>5 DEF SInv

LEMMA WatchingSame ==
  ASSUME SInv, UNCHANGED <<owner, toGame, session, place>>, missed \subseteq missed',
         NEW q \in Role, Watching(q)'
  PROVE  Watching(q) /\ session[q] \notin missed' /\ session[q] \in Fd /\ owner[session[q]] # None
<1>1. /\ place'[q] # None /\ session'[q] # None /\ session'[q] \notin missed'
      /\ owner'[session'[q]] # None /\ ~ Leaves(toGame', session'[q])
  BY InvFacts, LeavesThen
<1>2. ~ Leaving(session[q])
  BY <1>1, InvFacts, LeavesNow
<1> QED
  BY <1>1, <1>2, InvFacts DEF Watching

(* What delivering the first notice to fds leaves.                         *)
LEMMA DeliveredTo ==
  ASSUME SInv, wire # << >>, NEW fds, DeliverTo(fds)
  PROVE  /\ wire' = Tail(wire) /\ wire' \in Seq(Notice) /\ sight' \in [Fd -> View]
         /\ UNCHANGED <<owner, toGame, session, away, path, place, members>>
         /\ \A f \in Fd : owner[f] # None /\ (f \in fds <=> f \in Head(wire).to)
              => sight'[f] = Sees(sight[f], f, Head(wire))
         /\ \A f \in Fd : f \notin fds => sight'[f] = sight[f]
<1> DEFINE n == Head(wire)
<1>1. n \in Notice /\ Tail(wire) \in Seq(Notice)
  BY InvFacts, NoticeFacts
<1>2. n.what \in What
  BY <1>1 DEF Notice
<1>3. /\ sight' = [f \in Fd |-> IF f \in fds /\ owner[f] # None THEN Seen(sight[f], n.what) ELSE sight[f]]
      /\ wire' = Tail(wire) /\ UNCHANGED <<owner, toGame, session, away, path, place, members>>
  BY DEF DeliverTo, clients, roles, tables
<1> HIDE DEF n
<1>4. \A f \in Fd : sight[f] \in View /\ Seen(sight[f], n.what) \in View
  BY <1>2, InvFacts, SeenType
<1>5. sight' \in [Fd -> View]
  BY <1>3, <1>4
<1>6. \A f \in Fd : owner[f] # None /\ (f \in fds <=> f \in n.to) => sight'[f] = Sees(sight[f], f, n)
  BY <1>3 DEF Sees
<1>7. \A f \in Fd : f \notin fds => sight'[f] = sight[f]
  BY <1>3
<1> QED
  BY <1>1, <1>3, <1>5, <1>6, <1>7 DEF n

LEMMA DeliverySafe ==
  ASSUME SInv, UNCHANGED <<owner, toGame, session, away, path, place, members>>,
         wire' \in Seq(Notice), sight' \in [Fd -> View], missed' \subseteq Fd, missed \subseteq missed',
         faults' \in 0 .. MaxFault,
         \A q \in Role : Watching(q) /\ session[q] \notin missed' /\ owner[session[q]] # None =>
           Ends(sight'[session[q]], session[q], wire', There(q))
  PROVE  SInv'
<1>1. TypeOK' /\ Listed(place', members') /\ Placed' /\ toGame' \in Seq(Requests)
      /\ Waiting(toGame', session', owner')
  BY InvFacts DEF SInv, TypeOK, Placed, Online, View
<1>2. \A q : There(q)' = There(q)
  BY DEF There
<1>3. \A q \in Role : Watching(q)' => Ends(sight'[session'[q]], session'[q], wire', There(q)')
  BY <1>2, WatchingSame
<1>4. Exact'
  BY <1>3 DEF Exact
<1> QED
  BY <1>1, <1>4 DEF SInv

LEMMA DeliverSafe ==
  ASSUME SInv, Deliver
  PROVE  SInv'
<1> DEFINE n == Head(wire)
<1>1. wire # << >> /\ DeliverTo(n.to) /\ UNCHANGED <<missed, faults>>
  BY DEF Deliver
<1>2. /\ wire' = Tail(wire) /\ wire' \in Seq(Notice) /\ sight' \in [Fd -> View]
      /\ UNCHANGED <<owner, toGame, session, away, path, place, members>>
      /\ \A f \in Fd : owner[f] # None => sight'[f] = Sees(sight[f], f, n)
  <2> DEFINE fds == n.to
  <2>1. DeliverTo(fds)
    BY <1>1
  <2> HIDE DEF fds
  <2>2. /\ wire' = Tail(wire) /\ wire' \in Seq(Notice) /\ sight' \in [Fd -> View]
        /\ UNCHANGED <<owner, toGame, session, away, path, place, members>>
        /\ \A f \in Fd : owner[f] # None /\ (f \in fds <=> f \in n.to)
              => sight'[f] = Sees(sight[f], f, n)
    BY <1>1, <2>1, DeliveredTo
  <2> QED
    BY <2>2 DEF fds
<1>3. ASSUME NEW q \in Role, Watching(q), owner[session[q]] # None
      PROVE  Ends(sight'[session[q]], session[q], wire', There(q))
  <2> DEFINE f == session[q]
  <2>1. f \in Fd
    BY <1>3, InvFacts DEF Watching
  <2>2. Ends(sight[f], f, wire, There(q))
    BY <1>3 DEF SInv, Exact
  <2> HIDE DEF f, n
  <2>3. Ends(Sees(sight[f], f, Head(wire)), f, Tail(wire), There(q))
    BY <1>1, <2>2, InvFacts, EndsTail
  <2>4. sight'[f] = Sees(sight[f], f, n)
    BY <1>2, <1>3, <2>1 DEF f
  <2> QED
    BY <1>2, <2>3, <2>4 DEF f, n
<1> QED
  BY <1>1, <1>2, <1>3, InvFacts, DeliverySafe

LEMMA DeliverSlowSafe ==
  ASSUME SInv, NEW slow \in Fd, DeliverSlow(slow)
  PROVE  SInv'
<1> DEFINE n == Head(wire)
           fds == n.to \ {slow}
           again == \E k \in DOMAIN wire' : slow \in wire'[k].to /\ wire'[k].what[1] = "answer"
<1>1. /\ wire # << >> /\ slow \in n.to /\ DeliverTo(fds) /\ faults' \in 0 .. MaxFault
      /\ missed' = IF again THEN missed ELSE missed \cup {slow}
  BY InvFacts, SightAssumption DEF DeliverSlow
<1> HIDE DEF again
<1>2. /\ wire' = Tail(wire) /\ wire' \in Seq(Notice) /\ sight' \in [Fd -> View]
      /\ UNCHANGED <<owner, toGame, session, away, path, place, members>>
      /\ \A f \in Fd : owner[f] # None /\ f # slow => sight'[f] = Sees(sight[f], f, n)
      /\ sight'[slow] = sight[slow]
  <2>1. fds = n.to \ {slow}
    OBVIOUS
  <2> HIDE DEF fds
  <2>2. /\ wire' = Tail(wire) /\ wire' \in Seq(Notice) /\ sight' \in [Fd -> View]
        /\ UNCHANGED <<owner, toGame, session, away, path, place, members>>
        /\ \A f \in Fd : owner[f] # None /\ (f \in fds <=> f \in n.to)
              => sight'[f] = Sees(sight[f], f, n)
        /\ \A f \in Fd : f \notin fds => sight'[f] = sight[f]
    BY <1>1, DeliveredTo
  <2> QED
    BY <2>1, <2>2
<1>3. ASSUME NEW q \in Role, Watching(q), owner[session[q]] # None, session[q] \notin missed'
      PROVE  Ends(sight'[session[q]], session[q], wire', There(q))
  <2> DEFINE f == session[q]
  <2>1. f \in Fd
    BY <1>3, InvFacts DEF Watching
  <2>2. Ends(sight[f], f, wire, There(q))
    BY <1>3 DEF SInv, Exact
  <2>0. f \notin missed' /\ owner[f] # None
    BY <1>3
  <2> HIDE DEF f, n
  <2>3. Ends(Sees(sight[f], f, Head(wire)), f, Tail(wire), There(q))
    BY <1>1, <2>2, InvFacts, EndsTail
  <2>4. CASE f # slow
    <3>1. sight'[f] = Sees(sight[f], f, n)
      BY <1>2, <2>0, <2>1, <2>4
    <3> QED
      BY <1>2, <2>3, <3>1 DEF f, n
  <2>5. CASE f = slow
    <3>1. again
      BY <1>1, <2>0, <2>5
    <3>2. PICK k \in 1 .. Len(wire') : f \in wire'[k].to /\ wire'[k].what[1] = "answer"
      BY <1>2, <2>5, <3>1, LenProperties DEF again
    <3>3. PICK g : Viewed(sight[f], f, wire', g)
      BY <1>2, <2>1, InvFacts, EndExists
    <3>4. Ends(sight[f], f, wire', g[Len(wire')])
      BY <3>3 DEF Ends
    <3>5. g[Len(wire')] = There(q)
      BY <1>2, <2>3, <3>2, <3>4, EndsAnswer
    <3> QED
      BY <1>2, <2>5, <3>4, <3>5 DEF f
  <2> QED
    BY <2>4, <2>5
<1>4. missed' \subseteq Fd /\ missed \subseteq missed'
  BY <1>1, InvFacts
<1> QED
  BY <1>1, <1>2, <1>3, <1>4, DeliverySafe

LEMMA InitSafe == Init => SInv
<1> SUFFICES ASSUME Init PROVE SInv
  OBVIOUS
<1>1. TypeOK
  <2>1. Cardinality({}) = 0
    BY FS_EmptySet
  <2>2. \A s \in Scene : Cardinality(members[s]) <= Cap
    BY <2>1, SightAssumption DEF Init
  <2>3. sight \in [Fd -> [Role -> Pos \cup {None}]]
    BY DEF Init, Nobody
  <2> QED
    BY <2>2, <2>3, SightAssumption DEF Init, TypeOK, Online
<1>2. wire \in Seq(Notice) /\ toGame \in Seq(Requests)
  BY DEF Init
<1>3. Waiting(toGame, session, owner)
  BY DEF Init, Waiting, Attached
<1>4. Listed(place, members)
  <2>1. IsFiniteSet({}) /\ Cardinality({}) = 0
    BY FS_EmptySet
  <2> QED
    BY <2>1, SightAssumption DEF Init, Listed
<1>5. Placed /\ Exact
  BY DEF Init, Placed, Exact, Watching
<1> QED
  BY <1>1, <1>2, <1>3, <1>4, <1>5 DEF SInv

(* What a role that logs out leaves: t.                                    *)
Departed(t, r) ==
  /\ t.place = place /\ t.missed = missed /\ t.wire \in Seq(Notice)
  /\ t.members \in [Scene -> SUBSET Role] /\ Listed(place, t.members)
  /\ \A s \in Scene : t.members[s] \subseteq members[s] /\ r \notin t.members[s]
  /\ \A q \in Role \ {r} :
       session'[q] # None /\ place[q] # None /\ Ends(sight[session'[q]], session'[q], wire, There(q))
         => Ends(sight[session'[q]], session'[q], t.wire, ThereIn(place, t.members, q, path))

LEMMA AfterNone ==
  ASSUME NEW r, NEW p, NEW ops
  PROVE  After(r, p, ops, 0) = Base(p)
<1> DEFINE Round(h) == [k \in 0 .. 0 |-> IF k = 0 THEN Base(p) ELSE Step(h[k - 1], r, ops[k])]
           v == CHOOSE h : h = Round(h)
           e == [k \in 0 .. 0 |-> Base(p)]
<1>1. After(r, p, ops, 0) = v[0]
  BY DEF After, Base
<1>2. e = Round(e)
  <2>1. \A k \in 0 .. 0 : k = 0
    OBVIOUS
  <2> QED
    BY <2>1
<1>3. v = Round(v)
  <2> HIDE DEF Round
  <2>1. \E h : h = Round(h)
    BY <1>2
  <2> QED
    BY <2>1, Zenon
<1> HIDE DEF v
<1>4. v[0] = Base(p)
  <2>1. 0 \in 0 .. 0
    OBVIOUS
  <2> QED
    BY <1>3, <2>1
<1> QED
  BY <1>1, <1>4

LEMMA GoDeparts ==
  ASSUME SInv, Posts, Distinct, NEW r \in Role, place[r] # None
  PROVE  Departed(After(r, place, Go, Len(Go)), r)
<1>1. Fit(Base(place), r)
  BY InvFacts, BaseFits DEF SInv
<1>2. Base(place) \in States(r)
  BY <1>1 DEF Fit
<1>3. PICK g : Steps(r, place, Go, g)
  BY <1>2, AfterIs, GoAre
<1>4. g[0] = Base(place) /\ g[1] = Step(g[0], r, <<"delete">>) /\ g[2] = Step(g[1], r, <<"gone">>)
  <2>1. g[0] = Base(place)
    BY <1>3 DEF Steps
  <2>2. 1 \in 1 .. Len(Go) /\ 2 \in 1 .. Len(Go)
    BY GoAre
  <2>3. 0 = 1 - 1 /\ 1 = 2 - 1
    OBVIOUS
  <2>4. Follows(g, 0, 1, r, <<"delete">>)
    BY <1>3, <2>2, <2>3, GoAre, StepAt, Zenon
  <2>5. Follows(g, 1, 2, r, <<"gone">>)
    BY <1>3, <2>2, <2>3, GoAre, StepAt, Zenon
  <2> QED
    BY <2>1, <2>4, <2>5 DEF Follows
<1>5. g[0].over = FALSE /\ g[0].place = place /\ g[0].missed = missed /\ g[0].members = members /\ Fit(g[0], r)
  BY <1>1, <1>4, BaseIs
<1>6. Left(g[0], g[2], r)
  BY <1>4, <1>5, GoPart
<1>7. Fit(g[2], r) /\ Free(g[2], r) /\ g[2].place = place /\ g[2].missed = missed
  BY <1>5, <1>6 DEF Left
<1>8. g[2].wire \in Seq(Notice) /\ g[2].members \in [Scene -> SUBSET Role] /\ Listed(place, g[2].members)
  BY <1>7, StateFacts DEF Fit
<1>9. \A s \in Scene : g[2].members[s] \subseteq members[s] /\ r \notin g[2].members[s]
  BY <1>7 DEF Fit, Free
<1>10. ASSUME NEW q \in Role \ {r}, session'[q] # None, place[q] # None,
              Ends(sight[session'[q]], session'[q], wire, There(q))
       PROVE  Ends(sight[session'[q]], session'[q], g[2].wire, ThereIn(place, g[2].members, q, path))
  <2>1. Views(g[0], q, ThereIn(g[0].place, g[0].members, q, path))
    BY <1>4, <1>10, BaseViews
  <2>2. Keeps(g[0], g[2], r, path)
    BY <1>6, InvFacts DEF Left
  <2>3. Views(g[2], q, ThereIn(g[2].place, g[2].members, q, path))
    BY <1>5, <1>10, <2>1, <2>2, KeepsOn
  <2> QED
    BY <1>7, <2>3 DEF Views
<1>11. Departed(g[2], r)
  BY <1>7, <1>8, <1>9, <1>10 DEF Departed
<1>12. After(r, place, Go, Len(Go)) = g[2]
  BY <1>3, GoAre DEF Steps
<1> QED
  BY <1>11, <1>12

LEMMA StayDeparts ==
  ASSUME SInv, NEW r \in Role, place[r] = None
  PROVE  Departed(Base(place), r)
<1>1. members \in [Scene -> SUBSET Role] /\ wire \in Seq(Notice) /\ Listed(place, members)
  BY InvFacts DEF SInv
<1>2. \A s \in Scene : r \notin members[s]
  BY InvFacts, SightAssumption
<1> QED
  BY <1>1, <1>2, BaseIs, ThereIs DEF Departed

(* The role of the descriptor, if any, leaves the tables as in t.          *)
LEMMA DepartSafe ==
  ASSUME SInv, toGame # << >>, NEW f, IsLogout(toGame[1], f), toGame' = Tail(toGame),
         NEW r \in Role, session[r] = f, session[r] # None,
         session' = [session EXCEPT ![r] = None], away' = away \ {r}, path' = [path EXCEPT ![r] = Enter],
         NEW t, Departed(t, r),
         place' = [place EXCEPT ![r] = None], members' = t.members, wire' = t.wire, missed' = t.missed,
         UNCHANGED <<owner, sight, faults>>
  PROVE  SInv'
<1>1. /\ session'[r] = None /\ \A q \in Role \ {r} : session'[q] = session[q]
      /\ place'[r] = None /\ \A q \in Role \ {r} : place'[q] = place[q]
      /\ path' \in [Role -> Pos] /\ \A q \in Role \ {r} : path'[q] = path[q]
      /\ session' \in [Role -> Fd \cup {None}] /\ place' \in [Role -> Scene \cup {None}]
  BY InvFacts, SightAssumption
<1>2. \A q \in Role \ {r} : session[q] # f
  BY InvFacts
<1>3. /\ members' \in [Scene -> SUBSET Role] /\ missed' = missed /\ wire' \in Seq(Notice)
      /\ \A s \in Scene : members'[s] \subseteq members[s] /\ r \notin members'[s]
      /\ \A s \in Scene : \A q \in members'[s] : place[q] = s
      /\ \A s \in Scene : IsFiniteSet(members'[s]) /\ Cardinality(members'[s]) <= Cap
  BY DEF Departed, Listed
<1>4. \A s \in Scene : \A q \in members'[s] : q # r /\ q \in Role /\ session'[q] # None /\ place'[q] = s
  BY <1>1, <1>3, InvFacts
<1>5. Listed(place', members')
  BY <1>3, <1>4 DEF Listed
<1>6. \A q \in away' : q \in Role /\ session'[q] # None /\ place'[q] # None
  BY <1>1, InvFacts DEF SInv, Placed
<1>7. TypeOK'
  <2>1. members' \in [Scene -> SUBSET Online'] /\ away' \subseteq Online'
    BY <1>3, <1>4, <1>6 DEF Online
  <2> QED
    BY <1>1, <1>3, <2>1, InvFacts DEF TypeOK, View
<1>8. Placed'
  BY <1>1, <1>6 DEF SInv, Placed
<1>9. toGame' \in Seq(Requests)
  BY InvFacts, QueueFacts
<1>10. Waiting(toGame', session', owner')
  <2>1. \A e : IsLogout(toGame[1], e) => e = f
    BY DEF IsLogout
  <2>2. \A q \in Role : session'[q] # None => session'[q] = session[q] /\ ~ IsLogout(toGame[1], session[q])
    BY <1>1, <1>2, <2>1
  <2>3. \A q, p \in Role : session'[q] = session'[p] /\ session'[q] # None => q = p
    BY <1>1, InvFacts
  <2>4. Waiting(toGame', session', owner)
    BY <1>1, <2>2, <2>3, InvFacts, WaitsLess
  <2> QED
    BY <2>4
<1>11. ASSUME NEW q \in Role, Watching(q)'
       PROVE  Ends(sight'[session'[q]], session'[q], wire', There(q)')
  <2>1. /\ place'[q] # None /\ session'[q] # None /\ session'[q] \notin missed'
        /\ owner'[session'[q]] # None /\ ~ Leaves(toGame', session'[q])
    BY <1>9, <1>11, LeavesThen
  <2>2. q # r /\ session'[q] = session[q] /\ place'[q] = place[q]
    BY <1>1, <2>1
  <2>3. ~ Leaving(session[q])
    <3>1. toGame \in Seq(Requests)
      BY InvFacts
    <3>2. ~ IsLogout(toGame[1], session[q])
      <4>1. \A e : IsLogout(toGame[1], e) => e = f
        BY DEF IsLogout
      <4> QED
        BY <1>2, <2>2, <4>1
    <3>3. ~ Leaves(toGame, session[q])
      BY <2>1, <2>2, <3>1, <3>2, LeavesLess
    <3> QED
      BY <3>1, <3>3, LeavesNow
  <2>4. Watching(q)
    BY <1>3, <2>1, <2>2, <2>3 DEF Watching
  <2>5. Ends(sight[session'[q]], session'[q], wire, There(q))
    BY <2>2, <2>4 DEF SInv, Exact
  <2>6. Ends(sight[session'[q]], session'[q], wire', ThereIn(place, members', q, path))
    BY <2>1, <2>2, <2>5 DEF Departed
  <2>7. There(q)' = ThereIn(place, members', q, path)
    <3> DEFINE R == members'[place[q]] \ {q}
    <3>1. r \notin R
      BY <1>3, <2>1, <2>2, InvFacts
    <3> HIDE DEF R
    <3>2. Shown(R, path') = Shown(R, path)
      BY <1>1, <3>1 DEF Shown
    <3> QED
      BY <2>2, <3>2 DEF There, ThereIn, R
  <2> QED
    BY <2>6, <2>7
<1>12. Exact'
  BY <1>11 DEF Exact
<1> QED
  BY <1>3, <1>5, <1>7, <1>8, <1>9, <1>10, <1>12 DEF SInv

(* Nobody has the descriptor.                                              *)
LEMMA NoDepartSafe ==
  ASSUME SInv, toGame # << >>, NEW f, IsLogout(toGame[1], f), toGame' = Tail(toGame),
         \A r \in Role : session[r] # None => session[r] # f,
         UNCHANGED <<owner, session, away, path, place, members, wire, missed, sight, faults>>
  PROVE  SInv'
<1>1. \A e : IsLogout(toGame[1], e) => e = f
  BY DEF IsLogout
<1>2. toGame' \in Seq(Requests)
  BY InvFacts, QueueFacts
<1>3. Waiting(toGame', session', owner')
  <2>1. \A q \in Role : session[q] # None => session[q] = session[q] /\ ~ IsLogout(toGame[1], session[q])
    BY <1>1
  <2>2. \A q, p \in Role : session[q] = session[p] /\ session[q] # None => q = p
    BY InvFacts
  <2>3. Waiting(toGame', session, owner)
    BY <2>1, <2>2, InvFacts, WaitsLess
  <2> QED
    BY <2>3
<1>4. TypeOK' /\ wire' \in Seq(Notice) /\ Listed(place', members') /\ Placed'
  BY InvFacts DEF SInv, TypeOK, Placed, Online
<1>5. ASSUME NEW q \in Role, Watching(q)'
      PROVE  Watching(q)
  <2>1. /\ place'[q] # None /\ session'[q] # None /\ session'[q] \notin missed'
        /\ owner'[session'[q]] # None /\ ~ Leaves(toGame', session'[q])
    BY <1>2, <1>5, LeavesThen
  <2>2. ~ Leaves(toGame, session[q])
    <3>1. toGame \in Seq(Requests) /\ ~ IsLogout(toGame[1], session[q])
      BY <1>1, <2>1, InvFacts
    <3> QED
      BY <2>1, <3>1, LeavesLess
  <2>3. ~ Leaving(session[q])
    BY <2>2, InvFacts, LeavesNow
  <2> QED
    BY <2>1, <2>3 DEF Watching
<1>6. Exact'
  <2>1. \A q : There(q)' = There(q)
    BY DEF There
  <2> QED
    BY <1>5, <2>1 DEF Exact, SInv
<1> QED
  BY <1>2, <1>3, <1>4, <1>6 DEF SInv

LEMMA LogoutSafe ==
  ASSUME SInv, Logout
  PROVE  SInv'
<1> DEFINE m == toGame[1]
           f == m[2]
           R == {r \in Online : session[r] = f}
<1>1. toGame # << >> /\ Head(toGame) = m /\ m \in Requests /\ m[1] = "logout"
  BY InvFacts, QueueFacts DEF Logout
<1>2. IsLogout(m, f)
  <2> HIDE DEF m
  <2>1. ~ IsLogin(m)
    BY <1>1 DEF IsLogin
  <2> QED
    BY <1>1, <2>1, RequestIs
<1>3. /\ session' = [r \in Role |-> IF r \in R THEN None ELSE session[r]]
      /\ away' = away \ R /\ path' = [r \in Role |-> IF r \in R THEN Enter ELSE path[r]]
      /\ \/ \E r \in R : LET t == After(r, place, Go, IF place[r] = None THEN 0 ELSE Len(Go))
                         IN  Become([t EXCEPT !.place[r] = None])
         \/ R = {} /\ UNCHANGED <<place, members, wire, missed>>
      /\ toGame' = Tail(toGame) /\ UNCHANGED <<owner, sight, faults>>
  BY <1>1 DEF Logout, tables
<1>4. \A r : r \in R <=> r \in Role /\ session[r] # None /\ session[r] = f
  BY DEF Online
<1> HIDE DEF m, f, R
<1>5. CASE R = {} /\ UNCHANGED <<place, members, wire, missed>>
  <2>1. session' = session /\ away' = away /\ path' = path
    BY <1>3, <1>5, InvFacts
  <2>2. \A r \in Role : session[r] # None => session[r] # f
    BY <1>4, <1>5
  <2> QED
    BY <1>1, <1>2, <1>3, <1>5, <2>1, <2>2, NoDepartSafe DEF m
<1>6. CASE \E r \in R : LET t == After(r, place, Go, IF place[r] = None THEN 0 ELSE Len(Go))
                         IN  Become([t EXCEPT !.place[r] = None])
  <2>1. PICK r \in R : Become([After(r, place, Go, IF place[r] = None THEN 0 ELSE Len(Go)) EXCEPT !.place[r] = None])
    BY <1>6
  <2>2. r \in Role /\ session[r] # None /\ session[r] = f /\ \A q \in Role : q \in R <=> q = r
    BY <1>4, InvFacts
  <2>3. /\ session' = [session EXCEPT ![r] = None] /\ away' = away \ {r}
        /\ path' = [path EXCEPT ![r] = Enter]
    BY <1>3, <1>4, <2>2, InvFacts
  <2>4. Posts /\ Distinct
    <3>1. session' \in [Role -> Sent] /\ path' \in [Role -> Pos]
      BY <2>3, InvFacts, SightAssumption DEF Sent
    <3>2. \A q, p \in Role : session'[q] = session'[p] /\ session'[q] # None => q = p
      BY <2>3, InvFacts
    <3> QED
      BY <3>1, <3>2 DEF Posts, Distinct
  <2> DEFINE t == After(r, place, Go, IF place[r] = None THEN 0 ELSE Len(Go))
  <2>5. Departed(t, r)
    <3>1. CASE place[r] = None
      <4>1. t = Base(place)
        BY <3>1, AfterNone
      <4> QED
        BY <2>2, <3>1, <4>1, StayDeparts
    <3>2. CASE place[r] # None
      <4>1. t = After(r, place, Go, Len(Go))
        BY <3>2
      <4> QED
        BY <2>2, <2>4, <3>2, <4>1, GoDeparts
    <3> QED
      BY <3>1, <3>2
  <2>6. /\ place' = [place EXCEPT ![r] = None] /\ members' = t.members
        /\ wire' = t.wire /\ missed' = t.missed
    <3>0. Become([t EXCEPT !.place[r] = None])
      BY <2>1
    <3> HIDE DEF t
    <3> QED
      BY <2>5, <3>0 DEF Become, Departed
  <2> HIDE DEF t
  <2> QED
    BY <1>1, <1>2, <1>3, <2>2, <2>3, <2>5, <2>6, DepartSafe DEF m
<1> QED
  BY <1>3, <1>5, <1>6

LEMMA StepSafe == SInv /\ [Next]_vars => SInv'
<1> SUFFICES ASSUME SInv, [Next]_vars PROVE SInv'
  OBVIOUS
<1>1. CASE \E f \in Fd : Close(f) \/ DeliverSlow(f) \/ \E r \in Role : Open(f, r)
  BY <1>1, CloseSafe, DeliverSlowSafe, OpenSafe
<1>2. CASE Login
  BY <1>2, LoginSafe
<1>3. CASE Logout
  BY <1>3, LogoutSafe
<1>4. CASE \E r \in Role : \E p \in Pos : Move(r, p) \/ \E s \in Scene : Load(r, s, p)
  BY <1>4, MoveSafe, LoadSafe
<1>5. CASE \E r \in Role : \E s \in Scene : Transport(r, s)
  BY <1>5, TransportSafe
<1>6. CASE \E r \in Role : EnterInstance(r) \/ LeaveInstance(r)
  BY <1>6, EnterInstanceSafe, LeaveInstanceSafe
<1>7. CASE Kill
  BY <1>7, KillSafe
<1>8. CASE Deliver
  BY <1>8, DeliverSafe
<1>9. CASE UNCHANGED vars
  <2>1. /\ UNCHANGED <<owner, toGame, session, away, path, place, members>>
        /\ wire' = wire /\ missed' = missed /\ sight' = sight /\ faults' = faults
    BY <1>9 DEF vars, clients, roles, tables
  <2>2. \A q \in Role : Watching(q) => Ends(sight'[session[q]], session[q], wire', There(q))
    BY <2>1 DEF SInv, Exact
  <2> QED
    BY <2>1, <2>2, InvFacts, DeliverySafe
<1> QED
  BY <1>1, <1>2, <1>3, <1>4, <1>5, <1>6, <1>7, <1>8, <1>9 DEF Next

LEMMA InvSight == SInv => SightExact
<1> SUFFICES ASSUME SInv PROVE SightExact
  OBVIOUS
<1>1. ASSUME NEW f \in Fd \ missed, NEW r \in Role, session[r] = f, place[r] # None, owner[f] # None, ~ Leaving(f)
      PROVE  WillSee(f) = There(r)
  <2>1. Watching(r)
    BY <1>1, SightAssumption DEF Watching
  <2>2. Ends(sight[f], f, wire, There(r))
    BY <1>1, <2>1 DEF SInv, Exact
  <2>3. Ends(sight[f], f, wire, WillSee(f))
    BY InvFacts, WillSeeIs
  <2> QED
    BY <2>2, <2>3, InvFacts, EndsOnce
<1> QED
  BY <1>1 DEF SInv, SightExact

(* Every player sees exactly who is in the scene with it, and where, once  *)
(* what is on its way has come, unless its client missed a notice since it *)
(* last changed its place.                                                 *)
THEOREM EveryoneIsSeen == Spec => []SightExact
<1>1. Spec => []SInv
  BY InitSafe, StepSafe, PTL DEF Spec
<1> QED
  BY <1>1, InvSight, PTL
=============================================================================
