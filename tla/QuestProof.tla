------------------------------ MODULE QuestProof ------------------------------
(* Proofs about Quest and the bags under it, for any roles, kinds of       *)
(* things, sizes, gifts and quests.                                        *)
EXTENDS Quest, FiniteSetTheorems, SequenceTheorems, WellFoundedInduction, TLAPS

Thing == [id : Item, num : Nat \ {0}]

(* A bag with the pool behind it.                                          *)
Pools == [bag : [Pos -> Place], taken : 0 .. PoolSize, ok : BOOLEAN]

(* An element of the pool is taken for each position that is filled.       *)
Balanced(b, c) == c.taken + Cardinality(In(b.bag)) = b.taken + Cardinality(In(c.bag))

Occupied(bags) == {at \in Role \X Pos : bags[at[1]][at[2]] # None}

-----------------------------------------------------------------------------
(* Loops: a function that is defined step by step exists.                  *)
LEMMA LeastNumber ==
  ASSUME NEW T \in SUBSET Nat, T # {}
  PROVE  \E m \in T : \A n \in T : m <= n
<1>1. PICK m \in T : \A n \in T : ~(<<n, m>> \in OpToRel(<, Nat))
  BY WFMin, NatLessThanWellFounded, Zenon
<1>2. \A n \in T : ~(n < m)
  BY <1>1, Zenon DEF OpToRel
<1> QED
  BY <1>2

Loop(g, n, X, x, R) ==
  /\ g \in [0 .. n -> X] /\ g[0] = x
  /\ \A i \in 1 .. n : g[i] = R[<<i, g[i - 1]>>]

LEMMA LoopExists ==
  ASSUME NEW n, n \in Nat, NEW X, NEW x, x \in X, NEW R, R \in [(1 .. n) \X X -> X]
  PROVE  \E g : Loop(g, n, X, x, R)
<1> DEFINE Runs(k) == \E g \in [0 .. k -> X] : g[0] = x /\ \A i \in 1 .. k : g[i] = R[<<i, g[i - 1]>>]
           T == {k \in 0 .. n : ~ Runs(k)}
<1>1. Runs(0)
  <2> DEFINE g == [i \in 0 .. 0 |-> x]
  <2>1. g \in [0 .. 0 -> X] /\ g[0] = x
    OBVIOUS
  <2>2. \A i \in 1 .. 0 : FALSE
    OBVIOUS
  <2> HIDE DEF g
  <2> QED
    BY <2>1, <2>2
<1>2. ASSUME NEW k \in 1 .. n, Runs(k - 1)
      PROVE  Runs(k)
  <2>1. PICK g \in [0 .. k - 1 -> X] : g[0] = x /\ \A i \in 1 .. k - 1 : g[i] = R[<<i, g[i - 1]>>]
    BY <1>2
  <2> DEFINE h == [i \in 0 .. k |-> IF i = k THEN R[<<k, g[k - 1]>>] ELSE g[i]]
  <2>2. k - 1 \in 0 .. k - 1 /\ g[k - 1] \in X /\ <<k, g[k - 1]>> \in (1 .. n) \X X
    BY <2>1
  <2>3. \A i \in 0 .. k : i # k => i \in 0 .. k - 1
    OBVIOUS
  <2>4. h \in [0 .. k -> X]
    BY <2>1, <2>2, <2>3
  <2>5. h[0] = x /\ h[k] = R[<<k, g[k - 1]>>] /\ h[k - 1] = g[k - 1]
    BY <2>1
  <2>6. ASSUME NEW i \in 1 .. k
        PROVE  h[i] = R[<<i, h[i - 1]>>]
    <3>1. CASE i = k
      BY <2>5, <3>1
    <3>2. CASE i # k
      <4>1. i \in 1 .. k - 1 /\ i \in 0 .. k /\ i - 1 \in 0 .. k /\ i - 1 # k
        BY <3>2
      <4>2. h[i] = g[i] /\ h[i - 1] = g[i - 1]
        BY <3>2, <4>1
      <4> QED
        BY <2>1, <4>1, <4>2
    <3> QED
      BY <3>1, <3>2
  <2> HIDE DEF h
  <2> QED
    BY <2>4, <2>5, <2>6
<1> HIDE DEF Runs
<1>3. T = {}
  <2>1. ASSUME T # {}
        PROVE  FALSE
    <3>1. T \in SUBSET Nat
      OBVIOUS
    <3>2. PICK k \in T : \A j \in T : k <= j
      BY <2>1, <3>1, LeastNumber
    <3>3. k \in 0 .. n /\ ~ Runs(k)
      OBVIOUS
    <3>4. k # 0 /\ k \in 1 .. n /\ k - 1 \in 0 .. n /\ ~ k <= k - 1
      BY <1>1, <3>3
    <3>5. Runs(k - 1)
      BY <3>2, <3>4
    <3> QED
      BY <1>2, <3>3, <3>4, <3>5
  <2> QED
    BY <2>1
<1>4. Runs(n)
  BY <1>3
<1> QED
  BY <1>4 DEF Runs, Loop

(* What holds at the start and is kept by a round holds in the end.        *)
LEMMA LoopKeeps ==
  ASSUME NEW n \in Nat, NEW Good, 0 \in Good,
         \A i \in 1 .. n : i - 1 \in Good => i \in Good
  PROVE  \A i \in 0 .. n : i \in Good
<1> DEFINE T == {k \in 0 .. n : k \notin Good}
<1>1. ASSUME T # {}
      PROVE  FALSE
  <2>1. T \in SUBSET Nat
    OBVIOUS
  <2>2. PICK k \in T : \A j \in T : k <= j
    BY <1>1, <2>1, LeastNumber
  <2>3. k \in 0 .. n /\ k \notin Good
    OBVIOUS
  <2>4. k \in 1 .. n /\ k - 1 \in 0 .. n /\ ~ k <= k - 1
    BY <2>3
  <2>5. k - 1 \in Good
    BY <2>2, <2>4
  <2> QED
    BY <2>3, <2>4, <2>5
<1> QED
  BY <1>1

-----------------------------------------------------------------------------
(* One position of one bag.                                                *)
LEMMA BagFacts ==
  /\ Size \in Nat \ {0} /\ PoolSize \in Nat
  /\ IsFiniteSet(Pos) /\ Cardinality(Pos) = Size
  /\ None \notin Thing /\ Place = {None} \cup Thing
  /\ \A b : In(b) \subseteq Pos /\ IsFiniteSet(In(b)) /\ Cardinality(In(b)) \in Nat
<1>1. Size \in Nat \ {0} /\ PoolSize \in Nat
  BY BagAssumption
<1>2. IsFiniteSet(0 .. Size - 1) /\ Cardinality(0 .. Size - 1) = Size
  <2>1. 0 \in Int /\ Size - 1 \in Int /\ ~ 0 > Size - 1 /\ (Size - 1) - 0 + 1 = Size
    BY <1>1
  <2> QED
    BY <2>1, FS_Interval
<1>3. None \notin Thing
  <2>1. None \notin [id : Item, num : Nat]
    BY BagAssumption
  <2> QED
    BY <2>1 DEF Thing
<1>4. \A b : In(b) \subseteq Pos /\ IsFiniteSet(In(b)) /\ Cardinality(In(b)) \in Nat
  <2> TAKE b
  <2>1. In(b) \subseteq Pos
    BY DEF In
  <2> QED
    BY <1>2, <2>1, FS_Subset, FS_CardinalityType DEF Pos
<1> QED
  BY <1>1, <1>2, <1>3, <1>4 DEF Pos, Place, Thing

LEMMA OneMore ==
  ASSUME NEW b \in [Pos -> Place], NEW p \in Pos, NEW e \in Thing
  PROVE  LET c == [b EXCEPT ![p] = e]
         IN  /\ c \in [Pos -> Place]
             /\ Cardinality(In(c)) = Cardinality(In(b)) + (IF b[p] = None THEN 1 ELSE 0)
<1> DEFINE c == [b EXCEPT ![p] = e]
<1>1. c \in [Pos -> Place] /\ c[p] = e /\ e # None /\ \A q \in Pos : q # p => c[q] = b[q]
  BY BagFacts
<1> HIDE DEF c
<1>2. In(c) = In(b) \cup {p}
  BY <1>1 DEF In
<1>3. /\ IsFiniteSet(In(b) \cup {p})
      /\ Cardinality(In(b) \cup {p}) = IF p \in In(b) THEN Cardinality(In(b)) ELSE Cardinality(In(b)) + 1
  BY BagFacts, FS_AddElement
<1>4. p \in In(b) <=> b[p] # None
  BY DEF In
<1>5. Cardinality(In(c)) = Cardinality(In(b)) + (IF b[p] = None THEN 1 ELSE 0)
  <2>1. Cardinality(In(b)) \in Nat
    BY BagFacts
  <2> QED
    BY <1>2, <1>3, <1>4, <2>1
<1> QED
  BY <1>1, <1>5 DEF c

LEMMA OneLess ==
  ASSUME NEW b \in [Pos -> Place], NEW p \in Pos, b[p] # None
  PROVE  LET c == [b EXCEPT ![p] = None]
         IN  /\ c \in [Pos -> Place]
             /\ Cardinality(In(c)) + 1 = Cardinality(In(b))
<1> DEFINE c == [b EXCEPT ![p] = None]
<1>1. c \in [Pos -> Place] /\ c[p] = None /\ \A q \in Pos : q # p => c[q] = b[q]
  BY BagFacts
<1> HIDE DEF c
<1>2. In(c) = In(b) \ {p} /\ p \in In(b)
  BY <1>1 DEF In
<1>3. Cardinality(In(b) \ {p}) = IF p \in In(b) THEN Cardinality(In(b)) - 1 ELSE Cardinality(In(b))
  BY BagFacts, FS_RemoveElement
<1>4. Cardinality(In(c)) + 1 = Cardinality(In(b))
  <2>1. Cardinality(In(b)) \in Nat
    BY BagFacts
  <2> QED
    BY <1>2, <1>3, <2>1
<1> QED
  BY <1>1, <1>4 DEF c

(* add_thing_bypos adds to what is there, or fails and changes nothing; at *)
(* a position that is free or holds the same it fails only when the pool   *)
(* is empty.                                                               *)
Had(b, p) == IF b[p] = None THEN 0 ELSE b[p].num

Added(b, p, e, c) ==
  /\ c \in Pools /\ Balanced(b, c) /\ b.taken <= c.taken
  /\ c.ok => /\ p \in Pos /\ (b.bag[p] # None => b.bag[p].id = e.id)
             /\ c.bag = [b.bag EXCEPT ![p] = [id |-> e.id, num |-> Had(b.bag, p) + e.num]]
  /\ ~ c.ok => c.bag = b.bag /\ c.taken = b.taken
  /\ p \in Pos /\ (b.bag[p] = None \/ b.bag[p].id = e.id) => c.ok \/ c.taken = PoolSize

LEMMA AddIs ==
  ASSUME NEW b \in Pools, NEW e \in Thing, NEW p
  PROVE  Added(b, p, e, AddByPos(b, p, e))
<1> DEFINE c == AddByPos(b, p, e)
<1>1. /\ b.bag \in [Pos -> Place] /\ b.taken \in 0 .. PoolSize /\ b.ok \in BOOLEAN
      /\ b = [bag |-> b.bag, taken |-> b.taken, ok |-> b.ok]
  BY DEF Pools
<1>2. e = [id |-> e.id, num |-> e.num] /\ e.id \in Item /\ e.num \in Nat \ {0} /\ e # None
  BY BagFacts DEF Thing
<1>3. CASE p \in Pos /\ b.bag[p] = None /\ b.taken < PoolSize
  <2> DEFINE d == [b.bag EXCEPT ![p] = e]
  <2>1. c = [bag |-> d, taken |-> b.taken + 1, ok |-> TRUE]
    BY <1>3 DEF AddByPos
  <2>2. d \in [Pos -> Place] /\ Cardinality(In(d)) = Cardinality(In(b.bag)) + 1
    BY <1>1, <1>3, OneMore
  <2>3. Cardinality(In(b.bag)) \in Nat
    BY BagFacts
  <2> HIDE DEF d, c
  <2>4. c \in Pools
    BY <1>1, <1>3, <2>1, <2>2, BagFacts DEF Pools
  <2>5. Balanced(b, c)
    BY <1>1, <2>1, <2>2, <2>3 DEF Balanced
  <2>6. d = [b.bag EXCEPT ![p] = [id |-> e.id, num |-> Had(b.bag, p) + e.num]]
    <3>1. Had(b.bag, p) + e.num = e.num
      BY <1>2, <1>3 DEF Had
    <3> QED
      BY <1>2, <3>1 DEF d
  <2> QED
    BY <1>1, <1>3, <2>1, <2>4, <2>5, <2>6 DEF c, Added
<1>4. CASE p \in Pos /\ b.bag[p] # None /\ b.bag[p].id = e.id
  <2> DEFINE x == [id |-> e.id, num |-> b.bag[p].num + e.num]
             d == [b.bag EXCEPT ![p] = x]
  <2>1. b.bag[p] \in Thing
    BY <1>1, <1>4, BagFacts
  <2>2. b.bag[p] = [id |-> e.id, num |-> b.bag[p].num] /\ b.bag[p].num \in Nat \ {0}
    BY <1>4, <2>1 DEF Thing
  <2>3. [b.bag EXCEPT ![p].num = @ + e.num] = d
    BY <1>1, <1>4, <2>2
  <2>4. c = [b EXCEPT !.bag[p].num = @ + e.num, !.ok = TRUE]
    BY <1>4 DEF AddByPos
  <2>5. c = [bag |-> d, taken |-> b.taken, ok |-> TRUE]
    BY <1>1, <2>3, <2>4
  <2>6. x \in Thing
    BY <1>2, <2>2 DEF Thing
  <2>7. d \in [Pos -> Place] /\ Cardinality(In(d)) = Cardinality(In(b.bag)) + 0
    BY <1>1, <1>4, <2>6, OneMore
  <2>8. Cardinality(In(b.bag)) \in Nat
    BY BagFacts
  <2>9. d = [b.bag EXCEPT ![p] = [id |-> e.id, num |-> Had(b.bag, p) + e.num]]
    BY <1>4 DEF Had
  <2> HIDE DEF d, c, x
  <2>10. c \in Pools
    BY <1>1, <2>5, <2>7 DEF Pools
  <2>11. Balanced(b, c)
    BY <1>1, <2>5, <2>7, <2>8 DEF Balanced
  <2> QED
    BY <1>1, <1>4, <2>5, <2>9, <2>10, <2>11 DEF c, Added
<1>5. CASE /\ ~(p \in Pos /\ b.bag[p] = None /\ b.taken < PoolSize)
           /\ ~(p \in Pos /\ b.bag[p] # None /\ b.bag[p].id = e.id)
  <2>1. c = [b EXCEPT !.ok = FALSE]
    BY <1>5 DEF AddByPos
  <2>2. c = [bag |-> b.bag, taken |-> b.taken, ok |-> FALSE]
    BY <1>1, <2>1
  <2> HIDE DEF c, Added
  <2>3. c \in Pools /\ Balanced(b, c)
    BY <1>1, <2>2 DEF Pools, Balanced
  <2>4. p \in Pos /\ (b.bag[p] = None \/ b.bag[p].id = e.id) => c.taken = PoolSize
    BY <1>1, <1>5, <2>2, BagFacts
  <2> QED
    BY <1>1, <2>2, <2>3, <2>4 DEF c, Added
<1> QED
  BY <1>3, <1>4, <1>5

(* delete_thing_bypos takes from what is there, or changes nothing.        *)
Deleted(b, p, num, c) ==
  /\ c \in Pools /\ Balanced(b, c)
  /\ c.ok => /\ p \in Pos /\ b.bag[p] # None /\ num <= b.bag[p].num
             /\ c.bag = [b.bag EXCEPT ![p] = IF b.bag[p].num = num THEN None
                           ELSE [id |-> b.bag[p].id, num |-> b.bag[p].num - num]]
  /\ ~ c.ok => c.bag = b.bag /\ c.taken = b.taken
  /\ p \in Pos /\ b.bag[p] # None /\ num <= b.bag[p].num => c.ok

LEMMA DeleteIs ==
  ASSUME NEW b \in Pools, NEW p, NEW num \in Nat, Cardinality(In(b.bag)) <= b.taken
  PROVE  Deleted(b, p, num, DeleteByPos(b, p, num))
<1> DEFINE c == DeleteByPos(b, p, num)
<1>1. /\ b.bag \in [Pos -> Place] /\ b.taken \in 0 .. PoolSize /\ b.ok \in BOOLEAN
      /\ b = [bag |-> b.bag, taken |-> b.taken, ok |-> b.ok]
  BY DEF Pools
<1>2. p \in Pos /\ b.bag[p] # None
      => /\ b.bag[p] = [id |-> b.bag[p].id, num |-> b.bag[p].num]
         /\ b.bag[p].id \in Item /\ b.bag[p].num \in Nat \ {0}
  <2> SUFFICES ASSUME p \in Pos, b.bag[p] # None
               PROVE  /\ b.bag[p] = [id |-> b.bag[p].id, num |-> b.bag[p].num]
                      /\ b.bag[p].id \in Item /\ b.bag[p].num \in Nat \ {0}
    OBVIOUS
  <2>1. b.bag[p] \in Thing
    BY <1>1, BagFacts
  <2> QED
    BY <2>1 DEF Thing
<1>3. CASE p \notin Pos \/ b.bag[p] = None \/ b.bag[p].num < num
  <2>1. c = [b EXCEPT !.ok = FALSE]
    BY <1>3 DEF DeleteByPos
  <2>2. c = [bag |-> b.bag, taken |-> b.taken, ok |-> FALSE]
    BY <1>1, <2>1
  <2> HIDE DEF c
  <2>3. c \in Pools /\ Balanced(b, c)
    BY <1>1, <2>2 DEF Pools, Balanced
  <2>4. ~ (p \in Pos /\ b.bag[p] # None /\ num <= b.bag[p].num)
    BY <1>2, <1>3
  <2> QED
    BY <2>2, <2>3, <2>4 DEF c, Deleted
<1>4. CASE p \in Pos /\ b.bag[p] # None /\ b.bag[p].num = num
  <2> DEFINE d == [b.bag EXCEPT ![p] = None]
  <2>1. c = [bag |-> d, taken |-> b.taken - 1, ok |-> TRUE]
    BY <1>2, <1>4 DEF DeleteByPos
  <2>2. d \in [Pos -> Place] /\ Cardinality(In(d)) + 1 = Cardinality(In(b.bag))
    BY <1>1, <1>4, OneLess
  <2>3. Cardinality(In(b.bag)) \in Nat /\ Cardinality(In(d)) \in Nat
    BY BagFacts
  <2> HIDE DEF d, c
  <2>4. b.taken - 1 \in 0 .. PoolSize
    BY <1>1, <2>2, <2>3, BagFacts
  <2>5. c \in Pools
    BY <2>1, <2>2, <2>4 DEF Pools
  <2>6. Balanced(b, c)
    BY <1>1, <2>1, <2>2, <2>3 DEF Balanced
  <2>7. d = [b.bag EXCEPT ![p] = IF b.bag[p].num = num THEN None
                                   ELSE [id |-> b.bag[p].id, num |-> b.bag[p].num - num]]
    BY <1>4 DEF d
  <2> QED
    BY <1>2, <1>4, <2>1, <2>5, <2>6, <2>7 DEF c, Deleted
<1>5. CASE p \in Pos /\ b.bag[p] # None /\ ~ b.bag[p].num < num /\ b.bag[p].num # num
  <2> DEFINE x == [id |-> b.bag[p].id, num |-> b.bag[p].num - num]
             d == [b.bag EXCEPT ![p] = x]
  <2>1. num <= b.bag[p].num /\ b.bag[p].num - num \in Nat \ {0}
    BY <1>2, <1>5
  <2>2. [b.bag EXCEPT ![p].num = @ - num] = d
    BY <1>1, <1>2, <1>5
  <2>3. c = [b EXCEPT !.bag[p].num = @ - num, !.ok = TRUE]
    BY <1>5 DEF DeleteByPos
  <2>4. c = [bag |-> d, taken |-> b.taken, ok |-> TRUE]
    BY <1>1, <2>2, <2>3
  <2>5. x \in Thing
    BY <1>2, <1>5, <2>1 DEF Thing
  <2>6. d \in [Pos -> Place] /\ Cardinality(In(d)) = Cardinality(In(b.bag)) + 0
    BY <1>1, <1>5, <2>5, OneMore
  <2>7. Cardinality(In(b.bag)) \in Nat
    BY BagFacts
  <2>8. d = [b.bag EXCEPT ![p] = IF b.bag[p].num = num THEN None
                                   ELSE [id |-> b.bag[p].id, num |-> b.bag[p].num - num]]
    BY <1>5
  <2> HIDE DEF d, c, x
  <2>9. c \in Pools
    BY <1>1, <2>4, <2>6 DEF Pools
  <2>10. Balanced(b, c)
    BY <1>1, <2>4, <2>6, <2>7 DEF Balanced
  <2> QED
    BY <1>5, <2>1, <2>4, <2>8, <2>9, <2>10 DEF c, Deleted
<1> QED
  BY <1>2, <1>3, <1>4, <1>5

(* The second loop of add_thing_list, round by round.                      *)
Rounds(b, pos, list, g) ==
  /\ g \in [0 .. Len(list) -> Pools]
  /\ g[0] = b /\ g[Len(list)] = Put(b, pos, list)
  /\ \A i \in 1 .. Len(list) :
       g[i] = IF g[i - 1].ok THEN AddByPos(g[i - 1], pos[i], list[i]) ELSE g[i - 1]

LEMMA PutSteps ==
  ASSUME NEW b \in Pools, NEW pos, NEW list \in Seq(Thing)
  PROVE  \E g : Rounds(b, pos, list, g)
<1> DEFINE n == Len(list)
           R == [ix \in (1 .. n) \X Pools |->
                   IF ix[2].ok THEN AddByPos(ix[2], pos[ix[1]], list[ix[1]]) ELSE ix[2]]
           Step(g) == [i \in 0 .. n |->
                         IF i = 0 THEN b
                         ELSE IF g[i - 1].ok THEN AddByPos(g[i - 1], pos[i], list[i]) ELSE g[i - 1]]
           step == CHOOSE g : g = Step(g)
<1>1. n \in Nat /\ \A i \in 1 .. n : list[i] \in Thing
  OBVIOUS
<1> HIDE DEF n
<1>2. R \in [(1 .. n) \X Pools -> Pools]
  <2>1. ASSUME NEW ix \in (1 .. n) \X Pools
        PROVE  (IF ix[2].ok THEN AddByPos(ix[2], pos[ix[1]], list[ix[1]]) ELSE ix[2]) \in Pools
    BY <1>1, AddIs DEF Added
  <2> QED
    BY <2>1
<1>3. \A i \in 1 .. n : \A x \in Pools :
        R[<<i, x>>] = IF x.ok THEN AddByPos(x, pos[i], list[i]) ELSE x
  OBVIOUS
<1> HIDE DEF R
<1>4. PICK h : Loop(h, n, Pools, b, R)
  BY <1>1, <1>2, LoopExists, Zenon
<1>5. \A i \in 0 .. n : i # 0 => i \in 1 .. n /\ i - 1 \in 0 .. n
  BY <1>1
<1>6. \A i \in 1 .. n : i \in 0 .. n /\ i # 0 /\ i - 1 \in 0 .. n
  BY <1>1
<1>7. \A i \in 1 .. n : h[i] = IF h[i - 1].ok THEN AddByPos(h[i - 1], pos[i], list[i]) ELSE h[i - 1]
  BY <1>3, <1>4, <1>6 DEF Loop
<1>8. h = Step(h)
  <2>1. \A i \in 0 .. n : h[i] = IF i = 0 THEN b ELSE IF h[i - 1].ok
                                   THEN AddByPos(h[i - 1], pos[i], list[i]) ELSE h[i - 1]
    BY <1>4, <1>5, <1>7 DEF Loop
  <2>2. h = [i \in 0 .. n |-> h[i]]
    BY <1>4 DEF Loop
  <2> QED
    BY <2>1, <2>2
<1>9. step = Step(step)
  <2> HIDE DEF Step
  <2>1. \E g : g = Step(g)
    BY <1>8
  <2> QED
    BY <2>1, Zenon
<1>10. step[n] = Put(b, pos, list)
  BY DEF Put, n
<1> HIDE DEF step
<1>11. /\ step[0] = b
       /\ \A i \in 1 .. n :
            step[i] = IF step[i - 1].ok THEN AddByPos(step[i - 1], pos[i], list[i]) ELSE step[i - 1]
  <2>1. 0 \in 0 .. n
    BY <1>1
  <2> QED
    BY <1>6, <1>9, <2>1
<1>12. \A i \in 0 .. n : step[i] = h[i]
  <2> DEFINE Good == {i \in 0 .. n : step[i] = h[i]}
  <2>1. 0 \in Good
    BY <1>1, <1>4, <1>11 DEF Loop
  <2>2. \A i \in 1 .. n : i - 1 \in Good => i \in Good
    BY <1>6, <1>7, <1>11
  <2> HIDE DEF Good
  <2>3. \A i \in 0 .. n : i \in Good
    BY <1>1, <2>1, <2>2, LoopKeeps
  <2> QED
    BY <2>3 DEF Good
<1>13. h[n] = Put(b, pos, list)
  BY <1>1, <1>10, <1>12
<1> QED
  BY <1>4, <1>7, <1>13 DEF n, Loop, Rounds

-----------------------------------------------------------------------------
(* Sums over finite sets, as MapThenSumSet forms them.                     *)
First(s) == CHOOSE x \in s : TRUE

Iterated(g, f, S) ==
  \A s \in SUBSET S : g[s] = IF s = {} THEN 0 ELSE f[First(s)] + g[s \ {First(s)}]

Summed(g, f, S) == g \in [SUBSET S -> Nat] /\ Iterated(g, f, S)

SumOf(f, S) == MapThenSumSet(LAMBDA x : f[x], S)

LEMMA FirstIn == \A s : s # {} => First(s) \in s
BY DEF First

LEMMA SmallerSet ==
  ASSUME NEW S, IsFiniteSet(S), NEW s \in SUBSET S
  PROVE  /\ IsFiniteSet(s) /\ Cardinality(s) \in 0 .. Cardinality(S)
         /\ Cardinality(s) = 0 <=> s = {}
         /\ \A x \in s : /\ s \ {x} \in SUBSET S
                         /\ Cardinality(s) # 0 /\ Cardinality(s \ {x}) = Cardinality(s) - 1
<1>1. IsFiniteSet(s) /\ Cardinality(s) <= Cardinality(S)
  BY FS_Subset
<1>2. Cardinality(s) \in Nat /\ Cardinality(S) \in Nat
  BY <1>1, FS_CardinalityType
<1>3. Cardinality(s) = 0 <=> s = {}
  BY <1>1, FS_EmptySet
<1>4. ASSUME NEW x \in s
      PROVE  /\ s \ {x} \in SUBSET S
             /\ Cardinality(s) # 0 /\ Cardinality(s \ {x}) = Cardinality(s) - 1
  <2>1. Cardinality(s \ {x}) = IF x \in s THEN Cardinality(s) - 1 ELSE Cardinality(s)
    BY <1>1, FS_RemoveElement
  <2> QED
    BY <1>3, <2>1
<1> QED
  BY <1>1, <1>2, <1>3, <1>4

LEMMA SummedExists ==
  ASSUME NEW S, IsFiniteSet(S), NEW f, \A x \in S : f[x] \in Nat
  PROVE  \E g : Summed(g, f, S)
<1> DEFINE n == Cardinality(S)
           Upto(k) == {s \in SUBSET S : Cardinality(s) <= k}
           Known(k) == \E g \in [SUBSET S -> Nat] :
                         \A s \in Upto(k) : g[s] = IF s = {} THEN 0 ELSE f[First(s)] + g[s \ {First(s)}]
           Good == {k \in 0 .. n : Known(k)}
<1>1. n \in Nat
  BY FS_CardinalityType
<1>2. 0 \in Good
  <2> DEFINE g == [s \in SUBSET S |-> 0]
  <2>1. g \in [SUBSET S -> Nat]
    OBVIOUS
  <2>2. \A s \in Upto(0) : s = {} /\ g[s] = 0
    BY SmallerSet
  <2> HIDE DEF g
  <2> QED
    BY <1>1, <2>1, <2>2
<1>3. ASSUME NEW k \in 1 .. n, k - 1 \in Good
      PROVE  k \in Good
  <2>1. PICK g \in [SUBSET S -> Nat] :
               \A s \in Upto(k - 1) : g[s] = IF s = {} THEN 0 ELSE f[First(s)] + g[s \ {First(s)}]
    BY <1>3
  <2> DEFINE h == [s \in SUBSET S |->
                     IF Cardinality(s) = k THEN f[First(s)] + g[s \ {First(s)}] ELSE g[s]]
  <2>2. h \in [SUBSET S -> Nat]
    <3>1. ASSUME NEW s \in SUBSET S, Cardinality(s) = k
          PROVE  f[First(s)] + g[s \ {First(s)}] \in Nat
      <4>1. s # {}
        BY <3>1, SmallerSet
      <4>2. First(s) \in s
        BY <4>1, FirstIn
      <4>3. f[First(s)] \in Nat /\ g[s \ {First(s)}] \in Nat
        BY <2>1, <4>2
      <4> QED
        BY <4>3
    <3> QED
      BY <2>1, <3>1
  <2>3. ASSUME NEW s \in Upto(k)
        PROVE  h[s] = IF s = {} THEN 0 ELSE f[First(s)] + h[s \ {First(s)}]
    <3>1. CASE s = {}
      <4>1. Cardinality(s) = 0 /\ Cardinality(s) # k /\ s \in Upto(k - 1)
        BY <3>1, SmallerSet
      <4> QED
        BY <2>1, <3>1, <4>1
    <3>2. CASE s # {}
      <4>1. First(s) \in s
        BY <3>2, FirstIn
      <4>2. /\ s \ {First(s)} \in SUBSET S /\ Cardinality(s) \in Nat
            /\ Cardinality(s \ {First(s)}) = Cardinality(s) - 1
        BY <4>1, SmallerSet
      <4>3. Cardinality(s) <= k
        OBVIOUS
      <4>4. Cardinality(s \ {First(s)}) # k
        BY <4>2, <4>3
      <4>5. h[s \ {First(s)}] = g[s \ {First(s)}]
        BY <4>2, <4>4
      <4>6. Cardinality(s) # k => s \in Upto(k - 1)
        BY <4>2, <4>3
      <4>7. h[s] = f[First(s)] + g[s \ {First(s)}]
        BY <2>1, <3>2, <4>6
      <4> QED
        BY <3>2, <4>5, <4>7
    <3> QED
      BY <3>1, <3>2
  <2>4. Known(k)
    <3> HIDE DEF h, Upto
    <3> QED
      BY <2>2, <2>3
  <2> HIDE DEF Known
  <2> QED
    BY <1>1, <2>4
<1>4. n \in Good
  <2> HIDE DEF Good
  <2>1. \A k \in 0 .. n : k \in Good
    BY <1>1, <1>2, <1>3, LoopKeeps
  <2> QED
    BY <1>1, <2>1
<1>5. Upto(n) = SUBSET S
  <2>1. ASSUME NEW s \in SUBSET S
        PROVE  Cardinality(s) <= n
    BY <1>1, SmallerSet
  <2> QED
    BY <2>1
<1> QED
  BY <1>4, <1>5 DEF Summed, Iterated

LEMMA IterationIs ==
  ASSUME NEW S, IsFiniteSet(S), NEW f, NEW h, Summed(h, f, S),
         NEW iter, Iterated(iter, f, S)
  PROVE  iter[S] = h[S]
<1> DEFINE n == Cardinality(S)
           Good == {k \in 0 .. n : \A s \in SUBSET S : Cardinality(s) = k => iter[s] = h[s]}
<1>1. n \in Nat
  BY FS_CardinalityType
<1>2. \A s \in SUBSET S : h[s] = IF s = {} THEN 0 ELSE f[First(s)] + h[s \ {First(s)}]
  BY DEF Summed, Iterated
<1>3. 0 \in Good
  <2>1. \A s \in SUBSET S : Cardinality(s) = 0 => s = {}
    BY SmallerSet
  <2> QED
    BY <1>1, <1>2, <2>1 DEF Iterated
<1>4. ASSUME NEW k \in 1 .. n, k - 1 \in Good
      PROVE  k \in Good
  <2>1. ASSUME NEW s \in SUBSET S, Cardinality(s) = k
        PROVE  iter[s] = h[s]
    <3>1. s # {}
      BY <2>1, SmallerSet
    <3>2. First(s) \in s
      BY <3>1, FirstIn
    <3>3. s \ {First(s)} \in SUBSET S /\ Cardinality(s \ {First(s)}) = k - 1
      BY <2>1, <3>2, SmallerSet
    <3>4. iter[s \ {First(s)}] = h[s \ {First(s)}]
      BY <1>4, <3>3
    <3> QED
      BY <1>2, <3>1, <3>4 DEF Iterated
  <2> QED
    BY <1>1, <2>1
<1>5. n \in Good
  <2> HIDE DEF Good
  <2>1. \A k \in 0 .. n : k \in Good
    BY <1>1, <1>3, <1>4, LoopKeeps
  <2> QED
    BY <1>1, <2>1
<1> QED
  BY <1>5

LEMMA SumIs ==
  ASSUME NEW S, IsFiniteSet(S), NEW f, \A x \in S : f[x] \in Nat
  PROVE  \E g : Summed(g, f, S) /\ SumOf(f, S) = g[S]
<1> DEFINE Step(g) == [s \in SUBSET S |->
                         IF s = {} THEN 0
                         ELSE LET x == CHOOSE y \in s : TRUE IN f[x] + g[s \ {x}]]
           iter == CHOOSE g : g = Step(g)
<1>1. PICK h : Summed(h, f, S)
  BY SummedExists
<1>2. h = Step(h)
  <2>1. \A s \in SUBSET S : h[s] = IF s = {} THEN 0 ELSE f[First(s)] + h[s \ {First(s)}]
    BY <1>1 DEF Summed, Iterated
  <2>2. h = [s \in SUBSET S |-> h[s]]
    BY <1>1 DEF Summed, Iterated
  <2> QED
    BY <2>1, <2>2 DEF First
<1>3. iter = Step(iter)
  <2> HIDE DEF Step
  <2>1. \E g : g = Step(g)
    BY <1>2
  <2> QED
    BY <2>1, Zenon
<1>4. SumOf(f, S) = iter[S]
  BY DEF SumOf, MapThenSumSet, MapThenFoldSet
<1> HIDE DEF iter
<1>5. Iterated(iter, f, S)
  BY <1>3 DEF First, Iterated
<1>6. iter[S] = h[S]
  BY <1>1, <1>5, IterationIs
<1> QED
  BY <1>1, <1>4, <1>6

(* The order does not matter.                                              *)
LEMMA SummedStep ==
  ASSUME NEW S, IsFiniteSet(S), NEW f, \A x \in S : f[x] \in Nat, NEW g, Summed(g, f, S)
  PROVE  \A s \in SUBSET S : \A x \in s : g[s] = f[x] + g[s \ {x}]
<1> DEFINE n == Cardinality(S)
           Any(s) == \A x \in s : g[s] = f[x] + g[s \ {x}]
           Good == {k \in 0 .. n : \A s \in SUBSET S : Cardinality(s) = k => Any(s)}
<1>1. n \in Nat
  BY FS_CardinalityType
<1>2. 0 \in Good
  <2>1. \A s \in SUBSET S : Cardinality(s) = 0 => s = {}
    BY SmallerSet
  <2> QED
    BY <1>1, <2>1
<1>3. ASSUME NEW k \in 1 .. n, k - 1 \in Good
      PROVE  k \in Good
  <2>1. ASSUME NEW s \in SUBSET S, Cardinality(s) = k, NEW x \in s
        PROVE  g[s] = f[x] + g[s \ {x}]
    <3> DEFINE c == First(s)
    <3>1. c \in s /\ g[s] = f[c] + g[s \ {c}]
      BY <2>1, FirstIn DEF Summed, Iterated
    <3>2. CASE x = c
      BY <3>1, <3>2
    <3>3. CASE x # c
      <4>1. /\ s \ {c} \in SUBSET S /\ Cardinality(s \ {c}) = k - 1 /\ x \in s \ {c}
            /\ s \ {x} \in SUBSET S /\ Cardinality(s \ {x}) = k - 1 /\ c \in s \ {x}
        BY <2>1, <3>1, <3>3, SmallerSet
      <4>2. Any(s \ {c}) /\ Any(s \ {x})
        BY <1>3, <4>1
      <4>3. g[s \ {c}] = f[x] + g[(s \ {c}) \ {x}]
        BY <4>1, <4>2
      <4>4. g[s \ {x}] = f[c] + g[(s \ {x}) \ {c}]
        BY <4>1, <4>2
      <4>5. (s \ {c}) \ {x} = (s \ {x}) \ {c} /\ (s \ {c}) \ {x} \in SUBSET S
        OBVIOUS
      <4>6. f[x] \in Nat /\ f[c] \in Nat /\ g[(s \ {c}) \ {x}] \in Nat
        BY <3>1, <4>5 DEF Summed, Iterated
      <4> DEFINE rest == g[(s \ {c}) \ {x}]
      <4>7. g[s] = f[c] + (f[x] + rest) /\ g[s \ {x}] = f[c] + rest
        BY <3>1, <4>3, <4>4, <4>5
      <4> HIDE DEF c, rest
      <4>8. f[c] + (f[x] + rest) = f[x] + (f[c] + rest)
        <5>1. f[x] \in Nat /\ f[c] \in Nat /\ rest \in Nat
          BY <4>6 DEF rest
        <5> QED
          BY <5>1
      <4> QED
        BY <4>7, <4>8
    <3> QED
      BY <3>2, <3>3
  <2> QED
    BY <1>1, <2>1
<1> HIDE DEF Good
<1>4. \A k \in 0 .. n : k \in Good
  BY <1>1, <1>2, <1>3, LoopKeeps
<1>5. ASSUME NEW s \in SUBSET S
      PROVE  Any(s)
  <2>1. Cardinality(s) \in 0 .. n
    BY SmallerSet
  <2> QED
    BY <1>4, <2>1 DEF Good
<1> QED
  BY <1>5

(* Sums agree where their terms do.                                        *)
LEMMA SummedAgree ==
  ASSUME NEW S, IsFiniteSet(S), NEW f, \A x \in S : f[x] \in Nat, NEW g, Summed(g, f, S),
         NEW T, IsFiniteSet(T), NEW e, \A x \in T : e[x] \in Nat, NEW h, Summed(h, e, T)
  PROVE  \A s \in SUBSET (S \cap T) : (\A x \in s : f[x] = e[x]) => g[s] = h[s]
<1> DEFINE n == Cardinality(S)
           Good == {k \in 0 .. n : \A s \in SUBSET (S \cap T) :
                      Cardinality(s) = k /\ (\A x \in s : f[x] = e[x]) => g[s] = h[s]}
<1>1. n \in Nat
  BY FS_CardinalityType
<1>2. 0 \in Good
  <2>1. \A s \in SUBSET (S \cap T) : Cardinality(s) = 0 => s = {}
    BY SmallerSet
  <2>2. g[{}] = 0 /\ h[{}] = 0
    BY DEF Summed, Iterated
  <2> QED
    BY <1>1, <2>1, <2>2
<1>3. ASSUME NEW k \in 1 .. n, k - 1 \in Good
      PROVE  k \in Good
  <2>1. ASSUME NEW s \in SUBSET (S \cap T), Cardinality(s) = k, \A x \in s : f[x] = e[x]
        PROVE  g[s] = h[s]
    <3> DEFINE c == First(s)
    <3>1. s # {} /\ s \in SUBSET S /\ s \in SUBSET T
      BY <2>1, SmallerSet
    <3>2. c \in s /\ g[s] = f[c] + g[s \ {c}] /\ h[s] = e[c] + h[s \ {c}]
      BY <3>1, FirstIn DEF Summed, Iterated
    <3>3. s \ {c} \in SUBSET (S \cap T) /\ Cardinality(s \ {c}) = k - 1 /\ \A x \in s \ {c} : f[x] = e[x]
      BY <2>1, <3>1, <3>2, SmallerSet
    <3>4. g[s \ {c}] = h[s \ {c}]
      BY <1>3, <3>3
    <3> QED
      BY <2>1, <3>2, <3>4
  <2> QED
    BY <1>1, <2>1
<1> HIDE DEF Good
<1>4. \A k \in 0 .. n : k \in Good
  BY <1>1, <1>2, <1>3, LoopKeeps
<1>5. ASSUME NEW s \in SUBSET (S \cap T), \A x \in s : f[x] = e[x]
      PROVE  g[s] = h[s]
  <2>1. Cardinality(s) \in 0 .. n
    BY SmallerSet
  <2> QED
    BY <1>4, <1>5, <2>1 DEF Good
<1> QED
  BY <1>5

LEMMA SumFacts ==
  ASSUME NEW S, IsFiniteSet(S), NEW f, \A x \in S : f[x] \in Nat
  PROVE  /\ SumOf(f, S) \in Nat
         /\ S = {} => SumOf(f, S) = 0
         /\ \A x \in S : SumOf(f, S) = f[x] + SumOf(f, S \ {x})
<1>1. PICK g : Summed(g, f, S) /\ SumOf(f, S) = g[S]
  BY SumIs
<1>2. SumOf(f, S) \in Nat /\ (S = {} => SumOf(f, S) = 0)
  BY <1>1 DEF Summed, Iterated
<1>3. ASSUME NEW x \in S
      PROVE  SumOf(f, S) = f[x] + SumOf(f, S \ {x})
  <2> DEFINE T == S \ {x}
  <2>1. IsFiniteSet(T) /\ \A y \in T : f[y] \in Nat
    BY FS_Subset
  <2> HIDE DEF T
  <2>2. PICK h : Summed(h, f, T) /\ SumOf(f, T) = h[T]
    BY <2>1, SumIs
  <2>3. T \in SUBSET (S \cap T)
    BY DEF T
  <2>4. g[T] = h[T]
    BY <1>1, <2>1, <2>2, <2>3, SummedAgree
  <2>5. g[S] = f[x] + g[S \ {x}]
    BY <1>1, SummedStep
  <2> QED
    BY <1>1, <2>2, <2>4, <2>5 DEF T
<1> QED
  BY <1>2, <1>3

LEMMA SumAgrees ==
  ASSUME NEW S, IsFiniteSet(S), NEW f, NEW e,
         \A x \in S : f[x] \in Nat /\ e[x] = f[x]
  PROVE  SumOf(e, S) = SumOf(f, S)
<1>1. \A x \in S : f[x] \in Nat
  OBVIOUS
<1>2. \A x \in S : e[x] \in Nat
  OBVIOUS
<1>3. PICK g : Summed(g, f, S) /\ SumOf(f, S) = g[S]
  BY <1>1, SumIs
<1>4. PICK h : Summed(h, e, S) /\ SumOf(e, S) = h[S]
  BY <1>2, SumIs
<1>5. S \in SUBSET (S \cap S) /\ \A x \in S : f[x] = e[x]
  OBVIOUS
<1>6. g[S] = h[S]
  BY <1>1, <1>2, <1>3, <1>4, <1>5, SummedAgree
<1> QED
  BY <1>3, <1>4, <1>6

(* One term changes.                                                       *)
LEMMA SumChanges ==
  ASSUME NEW S, IsFiniteSet(S), NEW f, NEW e, NEW p \in S,
         \A x \in S : f[x] \in Nat /\ e[x] \in Nat /\ (x # p => e[x] = f[x])
  PROVE  SumOf(e, S) + f[p] = SumOf(f, S) + e[p]
<1> DEFINE T == S \ {p}
<1>1. IsFiniteSet(T) /\ \A x \in T : f[x] \in Nat /\ e[x] = f[x]
  BY FS_Subset
<1>2. (\A x \in S : f[x] \in Nat) /\ (\A x \in S : e[x] \in Nat)
  OBVIOUS
<1>3. SumOf(f, S) = f[p] + SumOf(f, T)
  BY <1>2, SumFacts
<1>4. SumOf(e, S) = e[p] + SumOf(e, T)
  BY <1>2, SumFacts
<1> HIDE DEF T
<1>5. SumOf(e, T) = SumOf(f, T) /\ SumOf(f, T) \in Nat
  BY <1>1, SumAgrees, SumFacts
<1>6. f[p] \in Nat /\ e[p] \in Nat
  OBVIOUS
<1> QED
  BY <1>3, <1>4, <1>5, <1>6

(* Every term is at most as large.                                         *)
LEMMA SumGrows ==
  ASSUME NEW S, IsFiniteSet(S), NEW f, NEW e,
         \A x \in S : f[x] \in Nat /\ e[x] \in Nat /\ f[x] <= e[x]
  PROVE  SumOf(f, S) <= SumOf(e, S)
<1> DEFINE n == Cardinality(S)
           Good == {k \in 0 .. n : \A s \in SUBSET S : Cardinality(s) = k => SumOf(f, s) <= SumOf(e, s)}
<1>1. n \in Nat /\ n = Cardinality(S)
  BY FS_CardinalityType
<1>2. \A s \in SUBSET S : /\ IsFiniteSet(s)
                          /\ (\A x \in s : f[x] \in Nat) /\ (\A x \in s : e[x] \in Nat)
  BY FS_Subset
<1>3. 0 \in Good
  <2>1. ASSUME NEW s \in SUBSET S, Cardinality(s) = 0
        PROVE  SumOf(f, s) <= SumOf(e, s)
    <3>1. s = {}
      BY <2>1, SmallerSet
    <3>2. SumOf(f, s) = 0 /\ SumOf(e, s) = 0
      BY <1>2, <3>1, SumFacts
    <3> QED
      BY <3>2
  <2> QED
    BY <1>1, <2>1
<1>4. ASSUME NEW k \in 1 .. n, k - 1 \in Good
      PROVE  k \in Good
  <2>1. ASSUME NEW s \in SUBSET S, Cardinality(s) = k
        PROVE  SumOf(f, s) <= SumOf(e, s)
    <3>1. s # {}
      BY <2>1, SmallerSet
    <3>2. PICK x \in s : TRUE
      BY <3>1
    <3>3. s \ {x} \in SUBSET S /\ Cardinality(s \ {x}) = k - 1
      BY <2>1, <3>2, SmallerSet
    <3>4. SumOf(f, s \ {x}) <= SumOf(e, s \ {x})
      BY <1>4, <3>3
    <3>5. SumOf(f, s) = f[x] + SumOf(f, s \ {x})
      BY <1>2, SumFacts
    <3>6. SumOf(e, s) = e[x] + SumOf(e, s \ {x})
      BY <1>2, SumFacts
    <3>7. SumOf(f, s \ {x}) \in Nat /\ SumOf(e, s \ {x}) \in Nat
      BY <1>2, <3>3, SumFacts
    <3>8. f[x] \in Nat /\ e[x] \in Nat /\ f[x] <= e[x]
      OBVIOUS
    <3> QED
      BY <3>4, <3>5, <3>6, <3>7, <3>8
  <2> QED
    BY <1>1, <2>1
<1> HIDE DEF Good, n
<1>5. \A k \in 0 .. n : k \in Good
  BY <1>1, <1>3, <1>4, LoopKeeps
<1>6. n \in 0 .. n
  BY <1>1
<1>7. n \in Good
  BY <1>5, <1>6
<1> QED
  BY <1>1, <1>7 DEF Good

(* Terms that are 0 do not count.                                          *)
LEMMA SumDrops ==
  ASSUME NEW T, IsFiniteSet(T), NEW S \in SUBSET T, NEW f, NEW e,
         \A x \in S : f[x] \in Nat,
         \A x \in T : e[x] = IF x \in S THEN f[x] ELSE 0
  PROVE  SumOf(e, T) = SumOf(f, S)
<1> DEFINE n == Cardinality(T)
           Good == {k \in 0 .. n : \A s \in SUBSET T : Cardinality(s) = k => SumOf(e, s) = SumOf(f, s \cap S)}
<1>1. n \in Nat /\ n = Cardinality(T)
  BY FS_CardinalityType
<1>2. \A s \in SUBSET T : /\ IsFiniteSet(s) /\ IsFiniteSet(s \cap S)
                          /\ (\A x \in s : e[x] \in Nat) /\ (\A x \in s \cap S : f[x] \in Nat)
  BY FS_Subset
<1>3. 0 \in Good
  <2>1. ASSUME NEW s \in SUBSET T, Cardinality(s) = 0
        PROVE  SumOf(e, s) = SumOf(f, s \cap S)
    <3>1. s = {} /\ s \cap S = {}
      BY <2>1, SmallerSet
    <3>2. SumOf(e, s) = 0 /\ SumOf(f, s \cap S) = 0
      BY <1>2, <3>1, SumFacts
    <3> QED
      BY <3>2
  <2> QED
    BY <1>1, <2>1
<1>4. ASSUME NEW k \in 1 .. n, k - 1 \in Good
      PROVE  k \in Good
  <2>1. ASSUME NEW s \in SUBSET T, Cardinality(s) = k
        PROVE  SumOf(e, s) = SumOf(f, s \cap S)
    <3>1. s # {}
      BY <2>1, SmallerSet
    <3>2. PICK x \in s : TRUE
      BY <3>1
    <3>3. s \ {x} \in SUBSET T /\ Cardinality(s \ {x}) = k - 1
      BY <2>1, <3>2, SmallerSet
    <3>4. SumOf(e, s \ {x}) = SumOf(f, (s \ {x}) \cap S)
      BY <1>4, <3>3
    <3>5. SumOf(e, s) = e[x] + SumOf(e, s \ {x}) /\ SumOf(e, s \ {x}) \in Nat
      BY <1>2, <3>3, SumFacts
    <3>6. CASE x \in S
      <4>1. x \in s \cap S /\ (s \ {x}) \cap S = (s \cap S) \ {x} /\ e[x] = f[x]
        BY <3>6
      <4>2. SumOf(f, s \cap S) = f[x] + SumOf(f, (s \cap S) \ {x})
        BY <1>2, <4>1, SumFacts
      <4> QED
        BY <3>4, <3>5, <4>1, <4>2
    <3>7. CASE x \notin S
      <4>1. (s \ {x}) \cap S = s \cap S /\ e[x] = 0
        BY <3>7
      <4> QED
        BY <3>4, <3>5, <4>1
    <3> QED
      BY <3>6, <3>7
  <2> QED
    BY <1>1, <2>1
<1> HIDE DEF Good, n
<1>5. \A k \in 0 .. n : k \in Good
  BY <1>1, <1>3, <1>4, LoopKeeps
<1>6. n \in 0 .. n
  BY <1>1
<1>7. n \in Good
  BY <1>5, <1>6
<1>8. T \cap S = S
  OBVIOUS
<1> QED
  BY <1>1, <1>7, <1>8 DEF Good

(* The numbers of some of the things at places, as a sum over all places.  *)
Counted(b, S) == MapThenSumSet(LAMBDA p : b[p].num, S)

Weights(e, b, S, D) ==
  (\A p \in S : b[p].num \in Nat) /\ \A p \in D : e[p] = IF p \in S THEN b[p].num ELSE 0

LEMMA CountedIs ==
  ASSUME NEW D, IsFiniteSet(D), NEW S \in SUBSET D, NEW b, NEW e, Weights(e, b, S, D)
  PROVE  Counted(b, S) = SumOf(e, D)
<1> DEFINE f == [p \in S |-> b[p].num]
           Step(g) == [s \in SUBSET S |->
                         IF s = {} THEN 0
                         ELSE LET x == CHOOSE y \in s : TRUE IN b[x].num + g[s \ {x}]]
           iter == CHOOSE g : g = Step(g)
<1>1. IsFiniteSet(S)
  BY FS_Subset
<1>2. \A p \in S : f[p] \in Nat /\ f[p] = b[p].num
  BY DEF Weights
<1>3. Counted(b, S) = iter[S]
  BY DEF Counted, MapThenSumSet, MapThenFoldSet
<1> HIDE DEF f
<1>4. PICK h : Summed(h, f, S) /\ SumOf(f, S) = h[S]
  BY <1>1, <1>2, SumIs
<1>5. \A s \in SUBSET S : s # {} => f[First(s)] = b[First(s)].num
  BY <1>2, FirstIn
<1>6. h = Step(h)
  <2>1. \A s \in SUBSET S : h[s] = IF s = {} THEN 0 ELSE b[First(s)].num + h[s \ {First(s)}]
    BY <1>4, <1>5 DEF Summed, Iterated
  <2>2. h = [s \in SUBSET S |-> h[s]]
    BY <1>4 DEF Summed, Iterated
  <2> QED
    BY <2>1, <2>2 DEF First
<1>7. iter = Step(iter)
  <2> HIDE DEF Step
  <2>1. \E g : g = Step(g)
    BY <1>6
  <2> QED
    BY <2>1, Zenon
<1> HIDE DEF iter
<1>8. Iterated(iter, f, S)
  <2>1. \A s \in SUBSET S : iter[s] = IF s = {} THEN 0 ELSE b[First(s)].num + iter[s \ {First(s)}]
    BY <1>7 DEF First
  <2> QED
    BY <1>5, <2>1 DEF Iterated
<1>9. iter[S] = h[S]
  BY <1>1, <1>4, <1>8, IterationIs
<1>10. SumOf(e, D) = SumOf(f, S)
  <2>1. \A p \in D : e[p] = IF p \in S THEN f[p] ELSE 0
    BY <1>2 DEF Weights
  <2> QED
    BY <1>2, <2>1, SumDrops
<1> QED
  BY <1>3, <1>4, <1>9, <1>10

(* What a bag has of an item, as a sum over its positions.                 *)
Num(b, id) == [p \in Pos |-> IF b[p] # None /\ b[p].id = id THEN b[p].num ELSE 0]

LEMMA HasIs ==
  ASSUME NEW b \in [Pos -> Place], NEW id
  PROVE  /\ Has(b, id) = SumOf(Num(b, id), Pos) /\ Has(b, id) \in Nat
         /\ Num(b, id) \in [Pos -> Nat]
<1> DEFINE S == {p \in In(b) : b[p].id = id}
<1>1. S \in SUBSET Pos /\ IsFiniteSet(Pos)
  BY BagFacts DEF In
<1>2. \A p \in Pos : b[p] # None => b[p].num \in Nat
  BY BagFacts DEF Thing
<1>3. \A p \in Pos : p \in S <=> b[p] # None /\ b[p].id = id
  BY DEF In
<1>4. Has(b, id) = Counted(b, S)
  BY DEF Has, Counted
<1> HIDE DEF S
<1>5. \A p \in S : b[p].num \in Nat
  BY <1>1, <1>2, <1>3
<1>6. Num(b, id) \in [Pos -> Nat] /\ \A p \in Pos : Num(b, id)[p] = IF p \in S THEN b[p].num ELSE 0
  BY <1>2, <1>3 DEF Num
<1>7. Has(b, id) = SumOf(Num(b, id), Pos)
  <2>1. Weights(Num(b, id), b, S, Pos)
    BY <1>5, <1>6 DEF Weights
  <2> QED
    BY <1>1, <1>4, <2>1, CountedIs
<1>8. SumOf(Num(b, id), Pos) \in Nat
  BY <1>1, <1>6, SumFacts
<1> QED
  BY <1>6, <1>7, <1>8

(* What the first entries of a list have of an item.                       *)
Adds(e, id) == IF e.id = id THEN e.num ELSE 0
FirstOf(list, n, id) == Amount(SubSeq(list, 1, n), id)

LEMMA AmountIs ==
  ASSUME NEW list \in Seq(Thing), NEW id
  PROVE  /\ FirstOf(list, 0, id) = 0 /\ FirstOf(list, Len(list), id) = Amount(list, id)
         /\ \A n \in 0 .. Len(list) : FirstOf(list, n, id) \in Nat
         /\ \A n \in 1 .. Len(list) : FirstOf(list, n, id) = FirstOf(list, n - 1, id) + Adds(list[n], id)
<1> DEFINE e == [i \in 1 .. Len(list) |-> Adds(list[i], id)]
<1>1. Len(list) \in Nat /\ \A i \in 1 .. Len(list) : list[i] \in Thing
  OBVIOUS
<1>2. \A i \in 1 .. Len(list) : e[i] = Adds(list[i], id) /\ e[i] \in Nat /\ list[i].num \in Nat
  BY <1>1 DEF Adds, Thing
<1> HIDE DEF e
<1>3. ASSUME NEW n \in 0 .. Len(list)
      PROVE  FirstOf(list, n, id) = SumOf(e, 1 .. n) /\ IsFiniteSet(1 .. n) /\ \A i \in 1 .. n : e[i] \in Nat
  <2> DEFINE first == SubSeq(list, 1, n)
             S == {i \in DOMAIN first : first[i].id = id}
  <2>1. /\ DOMAIN first = 1 .. n /\ \A i \in 1 .. n : first[i] = list[i] /\ i \in 1 .. Len(list)
    BY <1>1
  <2>2. IsFiniteSet(1 .. n)
    BY <1>1, FS_Interval
  <2>3. FirstOf(list, n, id) = Counted(first, S)
    BY DEF FirstOf, Amount, Counted
  <2>4. S \in SUBSET (1 .. n) /\ Weights(e, first, S, 1 .. n)
    BY <1>2, <2>1 DEF Adds, Weights
  <2> HIDE DEF first, S
  <2>5. Counted(first, S) = SumOf(e, 1 .. n)
    BY <2>2, <2>4, CountedIs, Zenon
  <2> QED
    BY <1>2, <2>1, <2>2, <2>3, <2>5
<1>4. FirstOf(list, 0, id) = 0
  <2>1. 0 \in 0 .. Len(list) /\ 1 .. 0 = {}
    BY <1>1
  <2>2. FirstOf(list, 0, id) = SumOf(e, 1 .. 0) /\ IsFiniteSet(1 .. 0) /\ \A i \in 1 .. 0 : e[i] \in Nat
    BY <1>3, <2>1
  <2> QED
    BY <2>1, <2>2, SumFacts
<1>5. FirstOf(list, Len(list), id) = Amount(list, id)
  <2>1. SubSeq(list, 1, Len(list)) = list
    BY <1>1
  <2> QED
    BY <2>1, Zenon DEF FirstOf
<1>6. \A n \in 0 .. Len(list) : FirstOf(list, n, id) \in Nat
  BY <1>3, SumFacts
<1>7. ASSUME NEW n \in 1 .. Len(list)
      PROVE  FirstOf(list, n, id) = FirstOf(list, n - 1, id) + Adds(list[n], id)
  <2>1. n \in 0 .. Len(list) /\ n - 1 \in 0 .. Len(list) /\ n \in 1 .. n /\ (1 .. n) \ {n} = 1 .. n - 1
    BY <1>1
  <2>2. FirstOf(list, n, id) = SumOf(e, 1 .. n) /\ IsFiniteSet(1 .. n) /\ \A i \in 1 .. n : e[i] \in Nat
    BY <1>3, <2>1
  <2>3. SumOf(e, 1 .. n) = e[n] + SumOf(e, (1 .. n) \ {n})
    BY <2>1, <2>2, SumFacts
  <2>4. FirstOf(list, n - 1, id) = SumOf(e, 1 .. n - 1) /\ FirstOf(list, n - 1, id) \in Nat
    BY <1>3, <1>6, <2>1
  <2>5. e[n] = Adds(list[n], id) /\ e[n] \in Nat
    BY <1>2
  <2>6. SumOf(e, (1 .. n) \ {n}) = SumOf(e, 1 .. n - 1)
    BY <2>1, Zenon
  <2> QED
    BY <2>2, <2>3, <2>4, <2>5, <2>6
<1> QED
  BY <1>4, <1>5, <1>6, <1>7

(* A change at one position.                                               *)
LEMMA HasChanges ==
  ASSUME NEW b \in [Pos -> Place], NEW c \in [Pos -> Place], NEW p \in Pos,
         \A x \in Pos : x # p => c[x] = b[x], NEW id
  PROVE  /\ Has(c, id) + Num(b, id)[p] = Has(b, id) + Num(c, id)[p]
         /\ Num(b, id)[p] \in Nat /\ Num(c, id)[p] \in Nat
<1>1. IsFiniteSet(Pos) /\ Num(b, id) \in [Pos -> Nat] /\ Num(c, id) \in [Pos -> Nat]
  BY BagFacts, HasIs
<1>2. \A x \in Pos : x # p => Num(c, id)[x] = Num(b, id)[x]
  BY DEF Num
<1>3. SumOf(Num(c, id), Pos) + Num(b, id)[p] = SumOf(Num(b, id), Pos) + Num(c, id)[p]
  <2>1. \A x \in Pos : /\ Num(b, id)[x] \in Nat /\ Num(c, id)[x] \in Nat
                       /\ (x # p => Num(c, id)[x] = Num(b, id)[x])
    BY <1>1, <1>2
  <2> QED
    BY <1>1, <2>1, SumChanges
<1>4. Has(c, id) = SumOf(Num(c, id), Pos) /\ Has(b, id) = SumOf(Num(b, id), Pos)
  BY HasIs
<1> QED
  BY <1>1, <1>3, <1>4

Gains(b, e, c, id) == Has(c.bag, id) = Has(b.bag, id) + (IF c.ok THEN Adds(e, id) ELSE 0)

LEMMA HasAdded ==
  ASSUME NEW b \in Pools, NEW p, NEW e \in Thing, NEW c, Added(b, p, e, c), NEW id
  PROVE  Gains(b, e, c, id)
<1>1. b.bag \in [Pos -> Place] /\ c.bag \in [Pos -> Place] /\ Has(b.bag, id) \in Nat /\ Has(c.bag, id) \in Nat
  BY HasIs DEF Added, Pools
<1>2. CASE ~ c.ok
  BY <1>1, <1>2 DEF Added, Gains
<1>3. CASE c.ok
  <2> DEFINE x == [id |-> e.id, num |-> Had(b.bag, p) + e.num]
  <2>1. p \in Pos /\ (b.bag[p] # None => b.bag[p].id = e.id) /\ c.bag = [b.bag EXCEPT ![p] = x]
    BY <1>3 DEF Added
  <2>2. c.bag[p] = x /\ \A y \in Pos : y # p => c.bag[y] = b.bag[y]
    BY <1>1, <2>1
  <2>3. Has(c.bag, id) + Num(b.bag, id)[p] = Has(b.bag, id) + Num(c.bag, id)[p]
    BY <1>1, <2>1, <2>2, HasChanges
  <2>4. c.bag[p] # None /\ c.bag[p].id = e.id /\ c.bag[p].num = Had(b.bag, p) + e.num
    <3>1. e.id \in Item /\ e.num \in Nat \ {0} /\ Had(b.bag, p) \in Nat
      BY <1>1, <2>1, BagFacts DEF Thing, Had
    <3>2. x \in Thing
      BY <3>1 DEF Thing
    <3> QED
      BY <2>2, <3>2, BagFacts
  <2>5. Had(b.bag, p) \in Nat /\ e.num \in Nat
    BY <1>1, <2>1, BagFacts DEF Thing, Had
  <2>6. Num(c.bag, id)[p] = Num(b.bag, id)[p] + Adds(e, id) /\ Num(b.bag, id)[p] \in Nat /\ Adds(e, id) \in Nat
    BY <2>1, <2>4, <2>5 DEF Num, Adds, Had
  <2> QED
    BY <1>1, <1>3, <2>3, <2>6 DEF Gains
<1> QED
  BY <1>2, <1>3

-----------------------------------------------------------------------------
(* The loops keep the pool exact.                                          *)
LEMMA BalancedOn ==
  ASSUME NEW b \in Pools, NEW c \in Pools, NEW d \in Pools, Balanced(b, c), Balanced(c, d)
  PROVE  Balanced(b, d)
<1>1. /\ b.taken \in Nat /\ c.taken \in Nat /\ d.taken \in Nat
      /\ Cardinality(In(b.bag)) \in Nat /\ Cardinality(In(c.bag)) \in Nat
      /\ Cardinality(In(d.bag)) \in Nat
  BY BagFacts DEF Pools
<1> QED
  BY <1>1 DEF Balanced

LEMMA PutKeeps ==
  ASSUME NEW b \in Pools, NEW pos, NEW list \in Seq(Thing)
  PROVE  Put(b, pos, list) \in Pools /\ Balanced(b, Put(b, pos, list))
<1> DEFINE n == Len(list)
<1>1. n \in Nat /\ \A i \in 1 .. n : list[i] \in Thing
  OBVIOUS
<1>2. PICK g \in [0 .. n -> Pools] :
             /\ g[0] = b /\ g[n] = Put(b, pos, list)
             /\ \A i \in 1 .. n :
                  g[i] = IF g[i - 1].ok THEN AddByPos(g[i - 1], pos[i], list[i]) ELSE g[i - 1]
  BY PutSteps DEF Rounds
<1> DEFINE Good == {i \in 0 .. n : Balanced(b, g[i])}
<1>3. 0 \in Good
  BY <1>1, <1>2 DEF Balanced
<1>4. ASSUME NEW i \in 1 .. n, i - 1 \in Good
      PROVE  i \in Good
  <2>1. i \in 0 .. n /\ i - 1 \in 0 .. n /\ g[i - 1] \in Pools /\ g[i] \in Pools /\ Balanced(b, g[i - 1])
    BY <1>1, <1>2, <1>4
  <2>2. g[i] = g[i - 1] \/ Added(g[i - 1], pos[i], list[i], g[i])
    BY <1>1, <1>2, <2>1, AddIs
  <2>3. Balanced(b, g[i])
    BY <2>1, <2>2, BalancedOn DEF Added
  <2> QED
    BY <2>1, <2>3
<1> HIDE DEF Good, n
<1>5. \A i \in 0 .. n : i \in Good
  BY <1>1, <1>3, <1>4, LoopKeeps
<1>6. n \in 0 .. n
  BY <1>1
<1> QED
  BY <1>2, <1>5, <1>6 DEF Good

(* init_role_data_from_db, position by position.                           *)
LEMMA FillSteps ==
  ASSUME NEW b \in Pools, NEW things \in [Pos -> Place]
  PROVE  \E g \in [0 .. Size -> Pools] :
           /\ g[0] = b /\ g[Size] = Fill(b, things)
           /\ \A i \in 1 .. Size :
                g[i] = IF things[i - 1] = None THEN g[i - 1]
                       ELSE AddByPos(g[i - 1], i - 1, things[i - 1])
<1> DEFINE R == [ix \in (1 .. Size) \X Pools |->
                   IF things[ix[1] - 1] = None THEN ix[2]
                   ELSE AddByPos(ix[2], ix[1] - 1, things[ix[1] - 1])]
           Step(g) == [i \in 0 .. Size |->
                         IF i = 0 THEN b
                         ELSE IF things[i - 1] = None THEN g[i - 1]
                         ELSE AddByPos(g[i - 1], i - 1, things[i - 1])]
           step == CHOOSE g : g = Step(g)
<1>1. Size \in Nat /\ \A i \in 1 .. Size : i - 1 \in Pos
  BY BagFacts DEF Pos
<1>2. R \in [(1 .. Size) \X Pools -> Pools]
  <2>1. ASSUME NEW ix \in (1 .. Size) \X Pools
        PROVE  (IF things[ix[1] - 1] = None THEN ix[2]
                ELSE AddByPos(ix[2], ix[1] - 1, things[ix[1] - 1])) \in Pools
    <3>1. ix[2] \in Pools /\ ix[1] - 1 \in Pos /\ things[ix[1] - 1] \in Place
      BY <1>1
    <3>2. things[ix[1] - 1] # None => things[ix[1] - 1] \in Thing
      BY <3>1, BagFacts
    <3> QED
      BY <3>1, <3>2, AddIs DEF Added
  <2> QED
    BY <2>1
<1>3. \A i \in 1 .. Size : \A x \in Pools :
        R[<<i, x>>] = IF things[i - 1] = None THEN x ELSE AddByPos(x, i - 1, things[i - 1])
  OBVIOUS
<1> HIDE DEF R
<1>4. PICK h : Loop(h, Size, Pools, b, R)
  BY <1>1, <1>2, LoopExists, Zenon
<1>5. \A i \in 0 .. Size : i # 0 => i \in 1 .. Size /\ i - 1 \in 0 .. Size
  BY <1>1
<1>6. \A i \in 1 .. Size : i \in 0 .. Size /\ i # 0 /\ i - 1 \in 0 .. Size
  BY <1>1
<1>7. \A i \in 1 .. Size :
        h[i] = IF things[i - 1] = None THEN h[i - 1] ELSE AddByPos(h[i - 1], i - 1, things[i - 1])
  BY <1>3, <1>4, <1>6 DEF Loop
<1>8. h = Step(h)
  <2>1. \A i \in 0 .. Size : h[i] = IF i = 0 THEN b ELSE IF things[i - 1] = None THEN h[i - 1]
                                      ELSE AddByPos(h[i - 1], i - 1, things[i - 1])
    BY <1>4, <1>5, <1>7 DEF Loop
  <2>2. h = [i \in 0 .. Size |-> h[i]]
    BY <1>4 DEF Loop
  <2> QED
    BY <2>1, <2>2
<1>9. step = Step(step)
  <2> HIDE DEF Step
  <2>1. \E g : g = Step(g)
    BY <1>8
  <2> QED
    BY <2>1, Zenon
<1>10. step[Size] = Fill(b, things)
  BY DEF Fill
<1> HIDE DEF step
<1>11. /\ step[0] = b
       /\ \A i \in 1 .. Size :
            step[i] = IF things[i - 1] = None THEN step[i - 1]
                      ELSE AddByPos(step[i - 1], i - 1, things[i - 1])
  <2>1. 0 \in 0 .. Size
    BY <1>1
  <2> QED
    BY <1>6, <1>9, <2>1
<1>12. \A i \in 0 .. Size : step[i] = h[i]
  <2> DEFINE Good == {i \in 0 .. Size : step[i] = h[i]}
  <2>1. 0 \in Good
    BY <1>1, <1>4, <1>11 DEF Loop
  <2>2. \A i \in 1 .. Size : i - 1 \in Good => i \in Good
    BY <1>6, <1>7, <1>11
  <2> HIDE DEF Good
  <2>3. \A i \in 0 .. Size : i \in Good
    BY <1>1, <2>1, <2>2, LoopKeeps
  <2> QED
    BY <2>3 DEF Good
<1>13. h[Size] = Fill(b, things)
  BY <1>1, <1>10, <1>12
<1> QED
  BY <1>4, <1>7, <1>13 DEF Loop

LEMMA FillKeeps ==
  ASSUME NEW b \in Pools, NEW things \in [Pos -> Place]
  PROVE  Fill(b, things) \in Pools /\ Balanced(b, Fill(b, things))
<1>1. Size \in Nat /\ \A i \in 1 .. Size : i - 1 \in Pos
  BY BagFacts DEF Pos
<1>2. PICK g \in [0 .. Size -> Pools] :
             /\ g[0] = b /\ g[Size] = Fill(b, things)
             /\ \A i \in 1 .. Size :
                  g[i] = IF things[i - 1] = None THEN g[i - 1]
                         ELSE AddByPos(g[i - 1], i - 1, things[i - 1])
  BY FillSteps
<1> DEFINE Good == {i \in 0 .. Size : Balanced(b, g[i])}
<1>3. 0 \in Good
  BY <1>1, <1>2 DEF Balanced
<1>4. ASSUME NEW i \in 1 .. Size, i - 1 \in Good
      PROVE  i \in Good
  <2>1. i \in 0 .. Size /\ i - 1 \in 0 .. Size /\ g[i - 1] \in Pools /\ g[i] \in Pools /\ Balanced(b, g[i - 1])
    BY <1>1, <1>2, <1>4
  <2>2. things[i - 1] # None => things[i - 1] \in Thing
    BY <1>1, BagFacts
  <2>3. g[i] = g[i - 1] \/ Added(g[i - 1], i - 1, things[i - 1], g[i])
    BY <1>1, <1>2, <2>1, <2>2, AddIs
  <2>4. Balanced(b, g[i])
    BY <2>1, <2>3, BalancedOn DEF Added
  <2> QED
    BY <2>1, <2>4
<1> HIDE DEF Good
<1>5. \A i \in 0 .. Size : i \in Good
  BY <1>1, <1>3, <1>4, LoopKeeps
<1>6. Size \in 0 .. Size
  BY <1>1
<1> QED
  BY <1>2, <1>5, <1>6 DEF Good

(* Two positions change places.                                            *)
LEMMA SwapKeeps ==
  ASSUME NEW b \in [Pos -> Place], NEW p \in Pos, NEW q \in Pos,
         NEW c, c = [b EXCEPT ![p] = b[q], ![q] = b[p]]
  PROVE  c \in [Pos -> Place] /\ Cardinality(In(c)) = Cardinality(In(b))
<1>1. c \in [Pos -> Place] /\ \A x \in Pos : c[x] = IF x = q THEN b[p] ELSE IF x = p THEN b[q] ELSE b[x]
  OBVIOUS
<1>2. Cardinality(In(b)) \in Nat /\ IsFiniteSet(In(b))
  BY BagFacts
<1>3. CASE b[p] = None <=> b[q] = None
  <2>1. In(c) = In(b)
    BY <1>1, <1>3 DEF In
  <2> QED
    BY <1>1, <2>1
<1>4. ASSUME NEW x \in Pos, NEW y \in Pos, b[x] # None, b[y] = None, In(c) = (In(b) \ {x}) \cup {y}
      PROVE  Cardinality(In(c)) = Cardinality(In(b))
  <2> DEFINE s == In(b) \ {x}
  <2>1. x \in In(b) /\ y \notin s
    BY <1>4 DEF In
  <2>2. IsFiniteSet(s) /\ Cardinality(s) = Cardinality(In(b)) - 1
    BY <1>2, <2>1, FS_RemoveElement
  <2> HIDE DEF s
  <2>3. Cardinality(s \cup {y}) = Cardinality(s) + 1
    BY <2>1, <2>2, FS_AddElement
  <2>4. In(c) = s \cup {y}
    BY <1>4 DEF s
  <2>5. Cardinality(In(c)) = Cardinality(s) + 1
    BY <2>3, <2>4, Zenon
  <2> QED
    BY <1>2, <2>2, <2>5
<1>5. CASE b[p] # None /\ b[q] = None
  <2>1. In(c) = (In(b) \ {p}) \cup {q}
    BY <1>1, <1>5 DEF In
  <2> QED
    BY <1>1, <1>4, <1>5, <2>1
<1>6. CASE b[p] = None /\ b[q] # None
  <2>1. In(c) = (In(b) \ {q}) \cup {p}
    BY <1>1, <1>6 DEF In
  <2> QED
    BY <1>1, <1>4, <1>6, <2>1
<1> QED
  BY <1>3, <1>5, <1>6

(* The positions of all bags together, when one bag becomes another.       *)
OneOther(B, r, c, C) ==
  /\ C \in [Role -> [Pos -> Place]]
  /\ Cardinality(Occupied(C)) + Cardinality(In(B[r])) = Cardinality(Occupied(B)) + Cardinality(In(c))
  /\ Cardinality(Occupied(C)) \in Nat /\ Cardinality(Occupied(B)) \in Nat
  /\ Cardinality(In(B[r])) <= Cardinality(Occupied(B))

LEMMA OneBag ==
  ASSUME NEW B \in [Role -> [Pos -> Place]], NEW r \in Role, NEW c \in [Pos -> Place],
         NEW C, C = [B EXCEPT ![r] = c]
  PROVE  OneOther(B, r, c, C)
<1> DEFINE Others == {at \in Role \X Pos : at[1] # r /\ B[at[1]][at[2]] # None}
<1>1. C \in [Role -> [Pos -> Place]] /\ C[r] = c /\ \A x \in Role : x # r => C[x] = B[x]
  OBVIOUS
<1>2. IsFiniteSet(Role \X Pos) /\ IsFiniteSet({r}) /\ Cardinality({r}) = 1
  BY BagFacts, BagAssumption, FS_Product, FS_Singleton
<1>3. IsFiniteSet(Others) /\ Cardinality(Others) \in Nat
  <2>1. Others \subseteq Role \X Pos
    OBVIOUS
  <2> QED
    BY <1>2, <2>1, FS_Subset, FS_CardinalityType
<1>4. ASSUME NEW D \in [Role -> [Pos -> Place]], \A x \in Role : x # r => D[x] = B[x]
      PROVE  Cardinality(Occupied(D)) = Cardinality(Others) + Cardinality(In(D[r]))
  <2> DEFINE mine == {r} \X In(D[r])
  <2>1. IsFiniteSet(In(D[r])) /\ Cardinality(In(D[r])) \in Nat
    BY BagFacts
  <2>2. IsFiniteSet({r} \X In(D[r])) /\ Cardinality({r} \X In(D[r])) = 1 * Cardinality(In(D[r]))
    BY <1>2, <2>1, FS_Product
  <2>3. IsFiniteSet(mine) /\ Cardinality(mine) = Cardinality(In(D[r]))
    BY <2>1, <2>2
  <2>4. Occupied(D) = Others \cup mine
    BY <1>4 DEF Occupied, In
  <2>5. Others \cap mine = {}
    OBVIOUS
  <2> HIDE DEF mine, Others
  <2>6. Cardinality(Others \cup mine) = Cardinality(Others) + Cardinality(mine) - Cardinality(Others \cap mine)
    BY <1>3, <2>3, FS_Union
  <2>7. Cardinality(Others \cap mine) = 0
    BY <2>5, FS_EmptySet
  <2>8. Cardinality(Occupied(D)) = Cardinality(Others \cup mine)
    BY <2>4
  <2> QED
    BY <1>3, <2>1, <2>3, <2>6, <2>7, <2>8
<1> HIDE DEF Others
<1>5. Cardinality(Occupied(B)) = Cardinality(Others) + Cardinality(In(B[r]))
  BY <1>4
<1>6. Cardinality(Occupied(C)) = Cardinality(Others) + Cardinality(In(c))
  BY <1>1, <1>4
<1>7. Cardinality(In(B[r])) \in Nat /\ Cardinality(In(c)) \in Nat
  BY BagFacts
<1> QED
  BY <1>1, <1>3, <1>5, <1>6, <1>7 DEF OneOther

-----------------------------------------------------------------------------
(* The operations of the bag.                                              *)
LEMMA Parts ==
  ASSUME PoolExact, NEW r \in Role
  PROVE  /\ bag \in [Role -> [Pos -> Place]] /\ bag[r] \in [Pos -> Place]
         /\ worn \in [Role -> Wearable \cup {None}] /\ Wearable \subseteq Item
         /\ row \in [Role -> [Pos -> Place] \cup {None}]
         /\ Of(r) \in Pools /\ Of(r).bag = bag[r] /\ Of(r).taken = taken
         /\ taken = Cardinality(Occupied(bag)) /\ Cardinality(In(bag[r])) <= taken
         /\ ~ Playing(r) => bag[r] = Nothing
<1>1. TypeOK /\ taken = Cardinality(Occupied(bag)) /\ (~ Playing(r) => bag[r] = Nothing)
  BY DEF PoolExact, Occupied
<1>2. bag \in [Role -> [Pos -> Place]] /\ bag[r] \in [Pos -> Place] /\ taken \in 0 .. PoolSize
  BY <1>1 DEF TypeOK
<1>3. Cardinality(In(bag[r])) <= Cardinality(Occupied(bag))
  <2>1. bag = [bag EXCEPT ![r] = bag[r]]
    BY <1>2
  <2> QED
    BY <1>2, <2>1, OneBag DEF OneOther
<1>4. Of(r) \in Pools /\ Of(r).bag = bag[r] /\ Of(r).taken = taken
  BY <1>2 DEF Of, Pools
<1> QED
  BY <1>1, <1>2, <1>3, <1>4, BagAssumption DEF TypeOK

LEMMA BecomeKeeps ==
  ASSUME PoolExact, NEW r \in Role, NEW c \in Pools, Balanced(Of(r), c), Become(r, c)
  PROVE  /\ bag' \in [Role -> [Pos -> Place]] /\ taken' \in 0 .. PoolSize
         /\ taken' = Cardinality(Occupied(bag'))
         /\ bag'[r] = c.bag /\ \A q \in Role : q # r => bag'[q] = bag[q]
<1>1. /\ bag \in [Role -> [Pos -> Place]] /\ taken = Cardinality(Occupied(bag))
      /\ Of(r).bag = bag[r] /\ Of(r).taken = taken
  BY Parts
<1>2. bag' = [bag EXCEPT ![r] = c.bag] /\ taken' = c.taken
  BY DEF Become
<1>3. c.bag \in [Pos -> Place] /\ c.taken \in 0 .. PoolSize
  BY DEF Pools
<1>4. /\ bag' \in [Role -> [Pos -> Place]]
      /\ Cardinality(Occupied(bag')) + Cardinality(In(bag[r])) = Cardinality(Occupied(bag)) + Cardinality(In(c.bag))
      /\ Cardinality(Occupied(bag')) \in Nat /\ Cardinality(Occupied(bag)) \in Nat
  <2>1. bag' = [bag EXCEPT ![r] = c.bag] /\ bag \in [Role -> [Pos -> Place]] /\ c.bag \in [Pos -> Place]
    BY <1>1, <1>2, <1>3
  <2>2. OneOther(bag, r, c.bag, bag')
    BY <2>1, OneBag, Zenon
  <2> QED
    BY <2>2 DEF OneOther
<1>5. c.taken + Cardinality(In(bag[r])) = taken + Cardinality(In(c.bag))
  BY <1>1 DEF Balanced
<1>6. Cardinality(In(bag[r])) \in Nat /\ Cardinality(In(c.bag)) \in Nat
  BY BagFacts
<1>7. taken' = Cardinality(Occupied(bag'))
  BY <1>1, <1>2, <1>3, <1>4, <1>5, <1>6
<1> QED
  BY <1>1, <1>2, <1>3, <1>4, <1>7

LEMMA PlayerBecomes ==
  ASSUME PoolExact, NEW r \in Role, NEW c \in Pools, Balanced(Of(r), c), Become(r, c),
         Playing(r), row' = row, worn' \in [Role -> Wearable \cup {None}]
  PROVE  PoolExact'
<1>1. /\ bag' \in [Role -> [Pos -> Place]] /\ taken' \in 0 .. PoolSize
      /\ taken' = Cardinality(Occupied(bag'))
      /\ \A q \in Role : q # r => bag'[q] = bag[q]
  BY BecomeKeeps
<1>2. TypeOK'
  BY <1>1 DEF PoolExact, TypeOK
<1>3. ASSUME NEW q \in Role, ~ Playing(q)'
      PROVE  bag'[q] = Nothing
  <2>1. ~ Playing(q) /\ q # r
    BY <1>3 DEF Playing
  <2> QED
    BY <1>1, <2>1 DEF PoolExact
<1> QED
  BY <1>1, <1>2, <1>3 DEF PoolExact, Occupied

LEMMA GiveListKeeps ==
  ASSUME PoolExact, NEW r \in Role, NEW list \in Seq(Thing), GiveList(r, list)
  PROVE  PoolExact'
<1>1. /\ Playing(r) /\ UNCHANGED <<worn, row>>
      /\ Become(r, Put(Of(r), Plan(bag[r], list), list))
  BY DEF GiveList
<1>2. /\ Put(Of(r), Plan(bag[r], list), list) \in Pools
      /\ Balanced(Of(r), Put(Of(r), Plan(bag[r], list), list))
  BY Parts, PutKeeps
<1> QED
  BY <1>1, <1>2, Parts, PlayerBecomes

LEMMA DropKeeps ==
  ASSUME PoolExact, NEW r \in Role, NEW p, NEW num \in Nat, Drop(r, p, num)
  PROVE  PoolExact'
<1>1. /\ Playing(r) /\ UNCHANGED <<worn, row>> /\ Become(r, DeleteByPos(Of(r), p, num))
  BY DEF Drop
<1>2. DeleteByPos(Of(r), p, num) \in Pools /\ Balanced(Of(r), DeleteByPos(Of(r), p, num))
  <2>1. Of(r) \in Pools /\ Cardinality(In(Of(r).bag)) <= Of(r).taken
    BY Parts
  <2> QED
    BY <2>1, DeleteIs DEF Deleted
<1> QED
  BY <1>1, <1>2, Parts, PlayerBecomes

LEMMA SwapExact ==
  ASSUME PoolExact, NEW r \in Role, NEW p \in Pos, NEW q \in Pos, Swap(r, p, q)
  PROVE  PoolExact'
<1> DEFINE c == [bag |-> [bag[r] EXCEPT ![p] = bag[r][q], ![q] = bag[r][p]], taken |-> taken, ok |-> TRUE]
<1>1. /\ Playing(r) /\ UNCHANGED <<taken, worn, row>>
      /\ bag' = [bag EXCEPT ![r][p] = bag[r][q], ![r][q] = bag[r][p]]
  BY DEF Swap
<1>2. bag' = [bag EXCEPT ![r] = c.bag]
  BY <1>1, Parts
<1>3. c.bag \in [Pos -> Place] /\ Cardinality(In(c.bag)) = Cardinality(In(bag[r]))
  <2>1. bag[r] \in [Pos -> Place] /\ c.bag = [bag[r] EXCEPT ![p] = bag[r][q], ![q] = bag[r][p]]
    BY Parts
  <2> HIDE DEF c
  <2> QED
    BY <2>1, SwapKeeps
<1>4. c \in Pools
  BY <1>3, Parts DEF Pools
<1>5. Balanced(Of(r), c)
  BY <1>3, Parts DEF Balanced
<1>6. Become(r, c)
  BY <1>1, <1>2 DEF Become
<1> HIDE DEF c
<1> QED
  BY <1>1, <1>4, <1>5, <1>6, Parts, PlayerBecomes

(* handle_equip_change_request, as one of four.                            *)
LEMMA EquipIs ==
  ASSUME PoolExact, NEW r \in Role, NEW p, Equip(r, p)
  PROVE  LET item == [id |-> worn[r], num |-> 1]
         IN  /\ Playing(r) /\ row' = row
             /\ \/ /\ p \in Pos /\ bag[r][p] \in Thing /\ bag[r][p].num = 1
                   /\ bag[r][p].id \in Wearable /\ worn' = [worn EXCEPT ![r] = bag[r][p].id]
                   /\ \/ /\ worn[r] # None /\ item \in Thing
                         /\ Become(r, [bag |-> [bag[r] EXCEPT ![p] = item], taken |-> taken, ok |-> TRUE])
                      \/ worn[r] = None /\ Become(r, DeleteByPos(Of(r), p, 1))
                \/ /\ p \in Pos => bag[r][p] = None
                   /\ worn' = [worn EXCEPT ![r] = None]
                   /\ \/ worn[r] # None /\ item \in Thing /\ Become(r, AddByPos(Of(r), p, item))
                      \/ worn[r] = None /\ Become(r, Of(r))
<1> DEFINE item == [id |-> worn[r], num |-> 1]
           thing == IF p \in Pos THEN bag[r][p] ELSE None
<1>1. Playing(r) /\ row' = row
  BY DEF Equip
<1>2. \/ /\ thing # None
         /\ thing.num <= 1 /\ thing.id \in Wearable
         /\ Become(r, IF worn[r] # None THEN [Of(r) EXCEPT !.bag[p].id = worn[r]] ELSE DeleteByPos(Of(r), p, 1))
         /\ worn' = [worn EXCEPT ![r] = thing.id]
      \/ /\ thing = None
         /\ Become(r, IF worn[r] # None THEN AddByPos(Of(r), p, item) ELSE Of(r))
         /\ worn' = [worn EXCEPT ![r] = None]
  BY DEF Equip
<1>3. worn[r] # None => item \in Thing
  <2>1. worn[r] # None => worn[r] \in Item
    BY Parts
  <2> QED
    BY <2>1 DEF Thing
<1>4. CASE thing # None
  <2>1. p \in Pos /\ thing = bag[r][p] /\ thing \in Thing
    BY <1>4, Parts, BagFacts
  <2>2. thing = [id |-> thing.id, num |-> thing.num] /\ thing.num \in Nat \ {0}
    BY <2>1 DEF Thing
  <2>3. /\ thing.num <= 1 /\ thing.id \in Wearable
        /\ Become(r, IF worn[r] # None THEN [Of(r) EXCEPT !.bag[p].id = worn[r]] ELSE DeleteByPos(Of(r), p, 1))
        /\ worn' = [worn EXCEPT ![r] = thing.id]
    BY <1>2, <1>4
  <2>4. thing.num = 1
    BY <2>2, <2>3
  <2>5. [bag[r] EXCEPT ![p].id = worn[r]] = [bag[r] EXCEPT ![p] = item]
    <3>1. bag[r][p] = [id |-> bag[r][p].id, num |-> 1]
      BY <2>1, <2>2, <2>4
    <3>2. [bag[r][p] EXCEPT !.id = worn[r]] = item
      BY <3>1
    <3> HIDE DEF item
    <3>3. [bag[r] EXCEPT ![p] = [bag[r][p] EXCEPT !.id = worn[r]]] = [bag[r] EXCEPT ![p] = item]
      BY <3>2
    <3> QED
      BY <3>3
  <2>6. [Of(r) EXCEPT !.bag[p].id = worn[r]] = [bag |-> [bag[r] EXCEPT ![p] = item], taken |-> taken, ok |-> TRUE]
    <3>1. /\ Of(r) \in Pools /\ Of(r).bag = bag[r]
          /\ Of(r) = [bag |-> Of(r).bag, taken |-> Of(r).taken, ok |-> Of(r).ok]
          /\ Of(r).taken = taken /\ Of(r).ok = TRUE
      BY Parts DEF Of
    <3>2. [Of(r) EXCEPT !.bag[p].id = worn[r]]
          = [bag |-> [Of(r).bag EXCEPT ![p].id = worn[r]], taken |-> Of(r).taken, ok |-> Of(r).ok]
      BY <3>1
    <3> HIDE DEF item
    <3> QED
      BY <2>5, <3>1, <3>2
  <2> HIDE DEF thing
  <2> QED
    BY <1>1, <1>3, <2>1, <2>3, <2>4, <2>6
<1>5. CASE thing = None
  <2>1. p \in Pos => bag[r][p] = None
    BY <1>5
  <2> QED
    BY <1>1, <1>2, <1>3, <1>5, <2>1
<1> QED
  BY <1>4, <1>5

LEMMA EquipKeeps ==
  ASSUME PoolExact, NEW r \in Role, NEW p, Equip(r, p)
  PROVE  PoolExact'
<1> DEFINE item == [id |-> worn[r], num |-> 1]
           swapped == [bag |-> [bag[r] EXCEPT ![p] = item], taken |-> taken, ok |-> TRUE]
<1>1. Playing(r) /\ row' = row
  BY EquipIs
<1>2. worn' \in [Role -> Wearable \cup {None}]
  <2>1. worn' = [worn EXCEPT ![r] = None] \/ (bag[r][p].id \in Wearable /\ worn' = [worn EXCEPT ![r] = bag[r][p].id])
    BY EquipIs
  <2> QED
    BY <2>1, Parts
<1>3. \E c \in Pools : Balanced(Of(r), c) /\ Become(r, c)
  <2>1. CASE p \in Pos /\ bag[r][p] \in Thing /\ item \in Thing /\ Become(r, swapped)
    <3>1. swapped.bag \in [Pos -> Place] /\ Cardinality(In(swapped.bag)) = Cardinality(In(bag[r])) + 0
      <4>1. bag[r] \in [Pos -> Place] /\ bag[r][p] # None /\ swapped.bag = [bag[r] EXCEPT ![p] = item]
        BY <2>1, Parts, BagFacts
      <4> HIDE DEF swapped
      <4> QED
        BY <2>1, <4>1, OneMore
    <3>2. swapped \in Pools
      BY <3>1, Parts DEF Pools
    <3>3. Cardinality(In(bag[r])) \in Nat
      BY BagFacts
    <3>4. Balanced(Of(r), swapped)
      BY <3>1, <3>3, Parts DEF Balanced
    <3> HIDE DEF swapped
    <3> QED
      BY <2>1, <3>2, <3>4
  <2>2. CASE Become(r, DeleteByPos(Of(r), p, 1))
    <3>1. Of(r) \in Pools /\ Cardinality(In(Of(r).bag)) <= Of(r).taken /\ 1 \in Nat
      BY Parts
    <3> QED
      BY <2>2, <3>1, DeleteIs DEF Deleted
  <2>3. CASE item \in Thing /\ Become(r, AddByPos(Of(r), p, item))
    BY <2>3, Parts, AddIs DEF Added
  <2>4. CASE Become(r, Of(r))
    BY <2>4, Parts DEF Balanced
  <2> QED
    BY <2>1, <2>2, <2>3, <2>4, EquipIs
<1> QED
  BY <1>1, <1>2, <1>3, PlayerBecomes

LEMMA LeaveKeeps ==
  ASSUME PoolExact, NEW r \in Role, Leave(r)
  PROVE  PoolExact'
<1> DEFINE c == [bag |-> Nothing, taken |-> taken - Cardinality(In(bag[r])), ok |-> TRUE]
<1>1. /\ row' = [row EXCEPT ![r] = bag[r]] /\ bag' = [bag EXCEPT ![r] = Nothing]
      /\ taken' = taken - Cardinality(In(bag[r])) /\ worn' = worn
  BY DEF Leave
<1>2. Cardinality(In(bag[r])) \in Nat /\ In(Nothing) = {} /\ Cardinality(In(Nothing)) = 0
  <2>1. In(Nothing) = {}
    BY DEF In, Nothing
  <2> QED
    BY <2>1, BagFacts, FS_EmptySet
<1>3. Nothing \in [Pos -> Place]
  BY BagFacts DEF Nothing
<1>4. c \in Pools
  <2>1. taken \in 0 .. PoolSize /\ taken - Cardinality(In(bag[r])) \in 0 .. PoolSize
    BY <1>2, Parts, BagFacts DEF PoolExact, TypeOK
  <2> QED
    BY <1>3, <2>1 DEF Pools
<1>5. Balanced(Of(r), c)
  <2>1. taken \in Nat
    BY BagFacts DEF PoolExact, TypeOK
  <2>2. Of(r).bag = bag[r] /\ Of(r).taken = taken
    BY Parts
  <2>3. c.bag = Nothing /\ c.taken = taken - Cardinality(In(bag[r]))
    OBVIOUS
  <2> HIDE DEF c
  <2> QED
    <3>1. Cardinality(In(Of(r).bag)) = Cardinality(In(bag[r])) /\ Cardinality(In(c.bag)) = 0
      BY <1>2, <2>2, <2>3, Zenon
    <3> QED
      BY <1>2, <2>1, <2>2, <2>3, <3>1 DEF Balanced
<1>6. Become(r, c)
  BY <1>1 DEF Become
<1>7. c.bag = Nothing
  OBVIOUS
<1> HIDE DEF c
<1>8. /\ bag' \in [Role -> [Pos -> Place]] /\ taken' \in 0 .. PoolSize
      /\ taken' = Cardinality(Occupied(bag'))
      /\ bag'[r] = Nothing /\ \A q \in Role : q # r => bag'[q] = bag[q]
  BY <1>4, <1>5, <1>6, <1>7, BecomeKeeps
<1>9. row' \in [Role -> [Pos -> Place] \cup {None}] /\ \A q \in Role : q # r => row'[q] = row[q]
  BY <1>1, Parts
<1>10. TypeOK'
  BY <1>1, <1>8, <1>9 DEF PoolExact, TypeOK
<1>11. \A q \in Role : ~ Playing(q)' => bag'[q] = Nothing
  BY <1>8, <1>9 DEF PoolExact, Playing
<1> QED
  BY <1>8, <1>10, <1>11 DEF PoolExact, Occupied

LEMMA LoadKeeps ==
  ASSUME PoolExact, NEW r \in Role, Load(r)
  PROVE  PoolExact'
<1> DEFINE c == Fill(Of(r), row[r])
<1>1. ~ Playing(r) /\ row' = [row EXCEPT ![r] = None] /\ worn' = worn
  BY DEF Load
<1>2. bag[r] = Nothing /\ row[r] \in [Pos -> Place]
  BY <1>1, Parts DEF Playing
<1>3. Become(r, c)
  BY <1>2 DEF Load, Of
<1>4. c \in Pools /\ Balanced(Of(r), c)
  BY <1>2, Parts, FillKeeps
<1> HIDE DEF c
<1>5. /\ bag' \in [Role -> [Pos -> Place]] /\ taken' \in 0 .. PoolSize
      /\ taken' = Cardinality(Occupied(bag'))
      /\ \A q \in Role : q # r => bag'[q] = bag[q]
  BY <1>3, <1>4, BecomeKeeps
<1>6. row' \in [Role -> [Pos -> Place] \cup {None}] /\ row'[r] = None /\ \A q \in Role : q # r => row'[q] = row[q]
  BY <1>1, Parts
<1>7. TypeOK'
  BY <1>1, <1>5, <1>6 DEF PoolExact, TypeOK
<1>8. \A q \in Role : ~ Playing(q)' => bag'[q] = Nothing
  BY <1>5, <1>6 DEF PoolExact, Playing
<1> QED
  BY <1>5, <1>7, <1>8 DEF PoolExact, Occupied

LEMMA AwardsAreLists ==
  /\ \A list \in Gift : list \in Seq(Thing)
  /\ \A q \in QuestId : Award[q] \in Seq(Thing)
<1>1. Gift \subseteq Seq(Thing)
  BY BagAssumption DEF Thing
<1>2. << >> \in Seq(Thing)
  OBVIOUS
<1>3. \A q \in QuestId : Award[q] \in Gift \cup {<< >>}
  BY QuestAssumption
<1> QED
  BY <1>1, <1>2, <1>3

(* An element of the pool of things is in use exactly when it is at a      *)
(* position of a bag: neither a login, a logout, a reward that fails half  *)
(* way nor a change of equipment without room loses one.                   *)
THEOREM PoolIsExact == QuestSpec => []PoolExact
<1>1. QuestInit => PoolExact
  <2> SUFFICES ASSUME QuestInit
               PROVE  PoolExact
    OBVIOUS
  <2>1. /\ taken = 0 /\ bag = [r \in Role |-> Nothing] /\ worn = [r \in Role |-> None]
        /\ row = [r \in Role |-> Nothing]
    BY DEF QuestInit, Init
  <2>2. Nothing \in [Pos -> Place] /\ \A p \in Pos : Nothing[p] = None
    BY BagFacts DEF Nothing
  <2>3. TypeOK
    BY <2>1, <2>2, BagFacts DEF TypeOK
  <2>4. {at \in Role \X Pos : bag[at[1]][at[2]] # None} = {}
    BY <2>1, <2>2
  <2> QED
    BY <2>1, <2>3, <2>4, FS_EmptySet DEF PoolExact
<1>2. PoolExact /\ [QuestNext]_qvars => PoolExact'
  <2> SUFFICES ASSUME PoolExact, [QuestNext]_qvars
               PROVE  PoolExact'
    OBVIOUS
  <2>1. CASE UNCHANGED vars
    <3>1. TypeOK'
      BY <2>1 DEF PoolExact, TypeOK, vars
    <3>2. \A r \in Role : Playing(r)' <=> Playing(r)
      BY <2>1 DEF Playing, vars
    <3>3. bag' = bag /\ taken' = taken
      BY <2>1 DEF vars
    <3> QED
      BY <3>1, <3>2, <3>3 DEF PoolExact
  <2>2. ASSUME NEW r \in Role, NEW q \in QuestId, Accept(r, q) \/ Cancel(r, q)
        PROVE  PoolExact'
    BY <2>1, <2>2 DEF Accept, Cancel
  <2>3. ASSUME NEW r \in Role, NEW q \in QuestId, Complete(r, q)
        PROVE  PoolExact'
    <3>1. /\ Playing(r) /\ UNCHANGED <<worn, row>>
          /\ Become(r, Put(Of(r), Plan(bag[r], Award[q]), Award[q]))
      BY <2>3 DEF Complete
    <3>2. /\ Put(Of(r), Plan(bag[r], Award[q]), Award[q]) \in Pools
          /\ Balanced(Of(r), Put(Of(r), Plan(bag[r], Award[q]), Award[q]))
      BY Parts, AwardsAreLists, PutKeeps
    <3> QED
      BY <3>1, <3>2, Parts, PlayerBecomes
  <2>4. ASSUME NEW r \in Role, NEW npc \in Monster, Kill(r, npc)
        PROVE  PoolExact'
    BY <2>1, <2>4 DEF Kill
  <2>5. ASSUME NEW r \in Role, NEW list \in Gift, Receive(r, list)
        PROVE  PoolExact'
    BY <2>5, AwardsAreLists, GiveListKeeps DEF Receive
  <2>6. ASSUME NEW r \in Role, NEW p \in Pos \cup {Size}, NEW num \in 0 .. 2, Discard(r, p, num)
        PROVE  PoolExact'
    <3>1. num \in Nat /\ Drop(r, p, num)
      BY <2>6 DEF Discard
    <3> QED
      BY <3>1, DropKeeps
  <2>7. ASSUME NEW r \in Role, Rearrange(r)
        PROVE  PoolExact'
    BY <2>7, SwapExact, EquipKeeps, LeaveKeeps, LoadKeeps DEF Rearrange
  <2>8. CASE UNCHANGED qvars
    BY <2>1, <2>8 DEF qvars
  <2> QED
    BY <2>2, <2>3, <2>4, <2>5, <2>6, <2>7, <2>8 DEF QuestNext
<1> QED
  BY <1>1, <1>2, PTL DEF QuestSpec

-----------------------------------------------------------------------------
(* What the quests up to one of them pay.                                  *)
DueOf(m) == LET due[q \in 0 .. Last] == IF q = 0 THEN 0 ELSE due[q - 1] + Money[q]
            IN  due[m]

LEMMA DueIs ==
  /\ DueOf(0) = 0
  /\ \A q \in 0 .. Last : DueOf(q) \in Nat
  /\ \A q \in QuestId : DueOf(q) = DueOf(q - 1) + Money[q]
<1> DEFINE R == [ix \in (1 .. Last) \X Nat |-> ix[2] + Money[ix[1]]]
           Step(g) == [q \in 0 .. Last |-> IF q = 0 THEN 0 ELSE g[q - 1] + Money[q]]
           due == CHOOSE g : g = Step(g)
<1>1. Last \in Nat /\ Money \in [1 .. Last -> Nat]
  BY QuestAssumption DEF QuestId
<1>2. R \in [(1 .. Last) \X Nat -> Nat]
  BY <1>1
<1>3. \A q \in 1 .. Last : \A x \in Nat : R[<<q, x>>] = x + Money[q]
  OBVIOUS
<1> HIDE DEF R
<1>4. PICK h : Loop(h, Last, Nat, 0, R)
  <2>1. 0 \in Nat
    OBVIOUS
  <2> QED
    BY <1>1, <1>2, <2>1, LoopExists, Zenon
<1>5. \A q \in 0 .. Last : q # 0 => q \in 1 .. Last /\ q - 1 \in 0 .. Last
  BY <1>1
<1>6. \A q \in 1 .. Last : q \in 0 .. Last /\ q # 0 /\ q - 1 \in 0 .. Last
  BY <1>1
<1>7. \A q \in 1 .. Last : h[q] = h[q - 1] + Money[q]
  BY <1>3, <1>4, <1>6 DEF Loop
<1>8. h = Step(h)
  <2>1. \A q \in 0 .. Last : h[q] = IF q = 0 THEN 0 ELSE h[q - 1] + Money[q]
    BY <1>4, <1>5, <1>7 DEF Loop
  <2>2. h = [q \in 0 .. Last |-> h[q]]
    BY <1>4 DEF Loop
  <2> QED
    BY <2>1, <2>2
<1>9. due = Step(due)
  <2> HIDE DEF Step
  <2>1. \E g : g = Step(g)
    BY <1>8
  <2> QED
    BY <2>1, Zenon
<1>10. \A q : due[q] = DueOf(q)
  BY DEF DueOf
<1> HIDE DEF due
<1>11. due[0] = 0 /\ \A q \in 1 .. Last : due[q] = due[q - 1] + Money[q]
  <2>1. 0 \in 0 .. Last
    BY <1>1
  <2> QED
    BY <1>6, <1>9, <2>1
<1>12. \A q \in 0 .. Last : due[q] = h[q]
  <2> DEFINE Good == {q \in 0 .. Last : due[q] = h[q]}
  <2>1. 0 \in Good
    BY <1>1, <1>4, <1>11 DEF Loop
  <2>2. \A q \in 1 .. Last : q - 1 \in Good => q \in Good
    BY <1>6, <1>7, <1>11
  <2> HIDE DEF Good
  <2>3. \A q \in 0 .. Last : q \in Good
    BY <1>1, <2>1, <2>2, LoopKeeps
  <2> QED
    BY <2>3 DEF Good
<1>13. \A q \in 0 .. Last : due[q] \in Nat
  BY <1>4, <1>12 DEF Loop
<1> QED
  BY <1>10, <1>11, <1>13 DEF QuestId

-----------------------------------------------------------------------------
(* The accepted quests of a role, and what is true of each of them: once   *)
(* its counters are written it is finished exactly when they say so, and   *)
(* when there is a monster to kill it is never finished without a kill.    *)
Logs == UNION {[S -> Entry] : S \in SUBSET QuestId}

Sound(q, e) ==
  /\ e \in Entry
  /\ ~ e.raw => (e.done <=> Fulfilled(q, e))
  /\ KillNpc[q] # None /\ e.done => e.kill > 0

Booked(l, m) ==
  /\ l \in Logs /\ DOMAIN l \subseteq QuestId \cap {m + 1}
  /\ \A q \in DOMAIN l : Sound(q, l[q])

Books ==
  /\ main \in [Role -> 0 .. Last] /\ money \in [Role -> Nat] /\ log \in [Role -> Logs]
  /\ \A r \in Role : money[r] = DueOf(main[r]) /\ Booked(log[r], main[r])

LEMMA Updating ==
  ASSUME NEW q \in QuestId, NEW e, NEW d \in BOOLEAN, NEW kill \in 0 .. MaxKill, NEW collect \in Nat,
         NEW raw \in BOOLEAN, e = [done |-> d, kill |-> kill, collect |-> collect, raw |-> raw]
  PROVE  Sound(q, Updated(q, e))
<1> DEFINE u == Updated(q, e)
<1>1. Fulfilled(q, e) \in BOOLEAN
  BY DEF Fulfilled
<1>2. u = [done |-> Fulfilled(q, e), kill |-> kill, collect |-> collect, raw |-> raw]
  BY DEF Updated
<1> HIDE DEF u
<1>3. u \in Entry
  BY <1>1, <1>2 DEF Entry
<1>4. Fulfilled(q, u) <=> Fulfilled(q, e)
  BY <1>2 DEF Fulfilled
<1>5. u.done <=> Fulfilled(q, u)
  BY <1>2, <1>4
<1>6. KillNpc[q] # None /\ u.done => u.kill > 0
  BY <1>5 DEF Fulfilled
<1>7. Sound(q, u)
  BY <1>3, <1>5, <1>6 DEF Sound
<1> QED
  BY <1>7 DEF u

Entries(D, K, C, W) == [done : D, kill : K, collect : C, raw : W]

LEMMA OfEntries ==
  ASSUME NEW D \in SUBSET BOOLEAN, NEW K \in SUBSET (0 .. MaxKill), NEW C \in SUBSET Nat,
         NEW W \in SUBSET BOOLEAN, NEW e \in Entries(D, K, C, W)
  PROVE  e \in Entry /\ e.done \in D /\ e.kill \in K /\ e.collect \in C /\ e.raw \in W
<1>1. e.done \in D /\ e.kill \in K /\ e.collect \in C /\ e.raw \in W
  BY DEF Entries
<1>2. e = [done |-> e.done, kill |-> e.kill, collect |-> e.collect, raw |-> e.raw]
  BY DEF Entries
<1>3. e.done \in BOOLEAN /\ e.kill \in 0 .. MaxKill /\ e.collect \in Nat /\ e.raw \in BOOLEAN
  BY <1>1, Zenon
<1>4. e \in Entry
  BY <1>2, <1>3 DEF Entry
<1> QED
  BY <1>1, <1>4

LEMMA CheckedIsSound ==
  ASSUME NEW r \in Role, NEW q \in QuestId, NEW e \in Checked(r, q)
  PROVE  Sound(q, e)
<1>1. MaxNum \in Nat /\ MaxKill \in Nat
  BY BagAssumption, QuestAssumption
<1>2. /\ {TRUE} \in SUBSET BOOLEAN /\ {FALSE} \in SUBSET BOOLEAN /\ {Collect[q] # None} \in SUBSET BOOLEAN
      /\ BOOLEAN \in SUBSET BOOLEAN
  BY Zenon
<1>3. /\ {0} \in SUBSET (0 .. MaxKill) /\ {0} \in SUBSET Nat
      /\ (IF Collect[q] = None THEN {0} ELSE {0, MaxNum}) \in SUBSET Nat
      /\ {IF Collect[q] = None THEN 0 ELSE 1} \in SUBSET Nat
  BY <1>1
<1>4. CASE KillNpc[q] # None
  <2>1. e \in Entries({FALSE}, {0}, IF Collect[q] = None THEN {0} ELSE {0, MaxNum}, {Collect[q] # None})
    BY <1>4, Zenon DEF Checked, Entries
  <2>2. e \in Entry /\ e.done \in {FALSE} /\ e.kill \in {0}
    BY <1>2, <1>3, <2>1, OfEntries, Zenon
  <2>3. ~ e.done /\ e.kill = 0
    BY <2>2, Zenon
  <2> QED
    BY <1>4, <2>2, <2>3 DEF Sound, Fulfilled
<1>5. CASE KillNpc[q] = None /\ (Collect[q] = None \/ Has(bag[r], Collect[q]) > 0)
  <2>1. e \in Entries({TRUE}, {0}, {IF Collect[q] = None THEN 0 ELSE 1}, {FALSE})
    BY <1>5, Zenon DEF Checked, Entries
  <2>2. e \in Entry /\ e.done \in {TRUE} /\ e.collect \in {IF Collect[q] = None THEN 0 ELSE 1}
    BY <1>2, <1>3, <2>1, OfEntries, Zenon
  <2>3. e.done
    BY <2>2, Zenon
  <2>4. Collect[q] # None => e.collect = 1
    BY <2>2
  <2>5. Fulfilled(q, e)
    BY <1>5, <2>4 DEF Fulfilled
  <2> QED
    BY <1>5, <2>2, <2>3, <2>5, Zenon DEF Sound
<1>6. CASE KillNpc[q] = None /\ ~(Collect[q] = None \/ Has(bag[r], Collect[q]) > 0)
  <2>1. e \in Entries(BOOLEAN, {0}, {0}, {TRUE})
    BY <1>6, Zenon DEF Checked, Entries
  <2>2. e \in Entry /\ e.raw \in {TRUE}
    BY <1>2, <1>3, <2>1, OfEntries, Zenon
  <2>3. e.raw
    BY <2>2, Zenon
  <2> QED
    BY <1>6, <2>2, <2>3, Zenon DEF Sound
<1> QED
  BY <1>4, <1>5, <1>6, Zenon

LEMMA BookOf ==
  ASSUME NEW S \in SUBSET QuestId, NEW l, l = [i \in S |-> l[i]], NEW m, S \subseteq {m + 1},
         \A i \in S : Sound(i, l[i])
  PROVE  Booked(l, m)
<1>1. DOMAIN l = S
  OBVIOUS
<1>2. \A i \in S : l[i] \in Entry
  BY DEF Sound
<1>3. l \in [S -> Entry]
  BY <1>2
<1>4. l \in Logs
  BY <1>3 DEF Logs
<1> QED
  BY <1>1, <1>4 DEF Booked

LEMMA LogFacts ==
  ASSUME Books, NEW r \in Role
  PROVE  /\ main[r] \in 0 .. Last /\ money[r] \in Nat /\ money[r] = DueOf(main[r])
         /\ DOMAIN log[r] \subseteq QuestId \cap {main[r] + 1}
         /\ log[r] = [i \in DOMAIN log[r] |-> log[r][i]]
         /\ \A i \in DOMAIN log[r] : Sound(i, log[r][i])
<1>1. main[r] \in 0 .. Last /\ money[r] \in Nat /\ money[r] = DueOf(main[r]) /\ Booked(log[r], main[r])
  BY DEF Books
<1>2. PICK S \in SUBSET QuestId : log[r] \in [S -> Entry]
  BY <1>1 DEF Booked, Logs
<1>3. log[r] = [i \in DOMAIN log[r] |-> log[r][i]]
  BY <1>2
<1> QED
  BY <1>1, <1>3 DEF Booked

LEMMA RoleBooks ==
  ASSUME Books, NEW r \in Role, NEW l, NEW m \in 0 .. Last, NEW g \in Nat, Booked(l, m), g = DueOf(m),
         log' = [log EXCEPT ![r] = l], main' = [main EXCEPT ![r] = m], money' = [money EXCEPT ![r] = g]
  PROVE  Books'
<1>1. l \in Logs
  BY DEF Booked
<1>2. main' \in [Role -> 0 .. Last] /\ money' \in [Role -> Nat] /\ log' \in [Role -> Logs]
  BY <1>1 DEF Books
<1>3. ASSUME NEW q \in Role
      PROVE  money'[q] = DueOf(main'[q]) /\ Booked(log'[q], main'[q])
  <2>1. CASE q = r
    <3>1. log'[q] = l /\ main'[q] = m /\ money'[q] = g
      BY <2>1 DEF Books
    <3> QED
      BY <3>1
  <2>2. CASE q # r
    <3>1. log'[q] = log[q] /\ main'[q] = main[q] /\ money'[q] = money[q]
      BY <2>2 DEF Books
    <3>2. money[q] = DueOf(main[q]) /\ Booked(log[q], main[q])
      BY DEF Books
    <3> QED
      BY <3>1, <3>2
  <2> QED
    BY <2>1, <2>2
<1> QED
  BY <1>2, <1>3 DEF Books

LEMMA LogBooks ==
  ASSUME Books, NEW r \in Role, NEW l, Booked(l, main[r]),
         log' = [log EXCEPT ![r] = l], main' = main, money' = money
  PROVE  Books'
<1>1. main[r] \in 0 .. Last /\ money[r] \in Nat /\ money[r] = DueOf(main[r])
  BY LogFacts
<1>2. main' = [main EXCEPT ![r] = main[r]] /\ money' = [money EXCEPT ![r] = money[r]]
  BY DEF Books
<1> QED
  BY <1>1, <1>2, RoleBooks

LEMMA SameBooks ==
  ASSUME Books, log' = log, main' = main, money' = money
  PROVE  Books'
BY DEF Books

LEMMA WithoutKeeps ==
  ASSUME Books, NEW r \in Role, NEW q
  PROVE  \E l : /\ Booked(l, main[r]) /\ WithoutQuest(r, q) = [log EXCEPT ![r] = l]
                /\ DOMAIN l = DOMAIN log[r] \ {q}
<1> DEFINE l == [i \in DOMAIN log[r] \ {q} |-> log[r][i]]
<1>1. /\ DOMAIN log[r] \subseteq QuestId \cap {main[r] + 1}
      /\ \A i \in DOMAIN log[r] : Sound(i, log[r][i])
  BY LogFacts
<1>2. l = [i \in DOMAIN log[r] \ {q} |-> l[i]] /\ \A i \in DOMAIN log[r] \ {q} : Sound(i, l[i])
  BY <1>1
<1>3. WithoutQuest(r, q) = [log EXCEPT ![r] = l]
  BY DEF WithoutQuest, Books
<1>4. DOMAIN l = DOMAIN log[r] \ {q}
  OBVIOUS
<1> HIDE DEF l
<1>5. Booked(l, main[r])
  <2>1. DOMAIN log[r] \ {q} \in SUBSET QuestId /\ DOMAIN log[r] \ {q} \subseteq {main[r] + 1}
    BY <1>1
  <2> QED
    BY <1>2, <2>1, BookOf
<1> QED
  BY <1>3, <1>4, <1>5

LEMMA UpdateKeeps ==
  ASSUME Books, NEW r \in Role, NEW q \in DOMAIN log[r], NEW e, Sound(q, e),
         log' = [log EXCEPT ![r][q] = e], main' = main, money' = money
  PROVE  Books'
<1> DEFINE l == [log[r] EXCEPT ![q] = e]
<1>1. /\ DOMAIN log[r] \subseteq QuestId \cap {main[r] + 1}
      /\ log[r] = [i \in DOMAIN log[r] |-> log[r][i]]
      /\ \A i \in DOMAIN log[r] : Sound(i, log[r][i])
  BY LogFacts
<1>2. l = [i \in DOMAIN log[r] |-> l[i]] /\ \A i \in DOMAIN log[r] : Sound(i, l[i])
  BY <1>1
<1>3. log' = [log EXCEPT ![r] = l]
  BY DEF Books
<1> HIDE DEF l
<1>4. Booked(l, main[r])
  <2>1. DOMAIN log[r] \in SUBSET QuestId /\ DOMAIN log[r] \subseteq {main[r] + 1}
    BY <1>1
  <2> QED
    BY <1>2, <2>1, BookOf
<1> QED
  BY <1>3, <1>4, LogBooks

LEMMA EntryParts ==
  ASSUME NEW e \in Entry
  PROVE  /\ e = [done |-> e.done, kill |-> e.kill, collect |-> e.collect, raw |-> e.raw]
         /\ e.done \in BOOLEAN /\ e.kill \in 0 .. MaxKill /\ e.collect \in Nat /\ e.raw \in BOOLEAN
BY DEF Entry

LEMMA BagChangedKeeps ==
  ASSUME Books, NEW r \in Role, NEW b \in [Pos -> Place],
         log' = BagChanged(r, b), main' = main, money' = money
  PROVE  Books'
<1> DEFINE q == main[r] + 1
           e == log[r][q]
           f == [e EXCEPT !.collect = Has(b, Collect[q]), !.raw = FALSE]
<1>1. CASE q \notin DOMAIN log[r]
  BY <1>1, SameBooks DEF BagChanged
<1>2. CASE q \in DOMAIN log[r]
  <2>1. log' = [log EXCEPT ![r][q] = Updated(q, f)]
    BY <1>2 DEF BagChanged
  <2>2. q \in QuestId /\ e \in Entry
    BY <1>2, LogFacts DEF Sound
  <2>3. Has(b, Collect[q]) \in Nat
    BY HasIs
  <2>4. /\ e = [done |-> e.done, kill |-> e.kill, collect |-> e.collect, raw |-> e.raw]
        /\ e.done \in BOOLEAN /\ e.kill \in 0 .. MaxKill /\ e.collect \in Nat /\ e.raw \in BOOLEAN
    BY <2>2, EntryParts
  <2>5. f = [done |-> e.done, kill |-> e.kill, collect |-> Has(b, Collect[q]), raw |-> FALSE]
    <3>1. f \in Entry
      BY <2>2, <2>3 DEF Entry
    <3>2. f.kill = e.kill /\ f.collect = Has(b, Collect[q])
      BY <2>2 DEF Entry
    <3>3. f.done = e.done
      BY <2>4, Zenon
    <3>4. f.raw = FALSE
      BY <2>4, Zenon
    <3> HIDE DEF e, f, q
    <3> QED
      BY <3>1, <3>2, <3>3, <3>4, EntryParts, Zenon
  <2> HIDE DEF e, f, q
  <2>6. Sound(q, Updated(q, f))
    BY <2>2, <2>3, <2>4, <2>5, Updating
  <2> QED
    BY <1>2, <2>1, <2>6, UpdateKeeps
<1> QED
  BY <1>1, <1>2

LEMMA AcceptKeeps ==
  ASSUME Books, NEW r \in Role, NEW q \in QuestId, Accept(r, q)
  PROVE  Books'
<1>1. main[r] = q - 1 /\ main' = main /\ money' = money
  BY DEF Accept
<1>2. PICK e \in Checked(r, q) : log' = WithQuest(r, q, e)
  BY DEF Accept
<1>3. CASE q \in DOMAIN log[r] \/ Cardinality(DOMAIN log[r]) >= MaxQuest
  BY <1>1, <1>2, <1>3, SameBooks DEF WithQuest
<1>4. CASE ~(q \in DOMAIN log[r] \/ Cardinality(DOMAIN log[r]) >= MaxQuest)
  <2> DEFINE S == DOMAIN log[r] \cup {q}
             l == [i \in S |-> IF i = q THEN e ELSE log[r][i]]
  <2>1. log' = [log EXCEPT ![r] = l]
    BY <1>2, <1>4 DEF WithQuest, Books
  <2>2. Sound(q, e)
    BY CheckedIsSound
  <2>3. /\ DOMAIN log[r] \subseteq QuestId \cap {main[r] + 1}
        /\ \A i \in DOMAIN log[r] : Sound(i, log[r][i])
    BY LogFacts
  <2>4. l = [i \in S |-> l[i]] /\ \A i \in S : Sound(i, l[i])
    BY <2>2, <2>3
  <2>5. S \in SUBSET QuestId /\ S \subseteq {main[r] + 1}
    BY <1>1, <2>3 DEF QuestId
  <2> HIDE DEF l, S
  <2>6. Booked(l, main[r])
    BY <2>4, <2>5, BookOf
  <2> QED
    BY <1>1, <2>1, <2>6, LogBooks
<1> QED
  BY <1>3, <1>4

LEMMA KillKeeps ==
  ASSUME Books, NEW r \in Role, NEW npc, Kill(r, npc)
  PROVE  Books'
<1> DEFINE q == main[r] + 1
           e == log[r][q]
           f == [e EXCEPT !.kill = @ + 1]
<1>1. q \in DOMAIN log[r] /\ e.kill < MaxKill /\ main' = main /\ money' = money
  BY DEF Kill
<1>2. log' = [log EXCEPT ![r][q] = Updated(q, f)]
  BY DEF Kill
<1>3. q \in QuestId /\ e \in Entry
  BY <1>1, LogFacts DEF Sound
<1>4. /\ e.done \in BOOLEAN /\ e.kill \in 0 .. MaxKill /\ e.collect \in Nat /\ e.raw \in BOOLEAN
  BY <1>3, EntryParts
<1>5. MaxKill \in Nat /\ e.kill + 1 \in 0 .. MaxKill
  BY <1>1, <1>4, QuestAssumption
<1>6. f \in Entry
  BY <1>3, <1>5 DEF Entry
<1>7. /\ f = [done |-> f.done, kill |-> f.kill, collect |-> f.collect, raw |-> f.raw]
      /\ f.done \in BOOLEAN /\ f.kill \in 0 .. MaxKill /\ f.collect \in Nat /\ f.raw \in BOOLEAN
  BY <1>6, EntryParts
<1> HIDE DEF e, f, q
<1>8. Sound(q, Updated(q, f))
  BY <1>3, <1>7, Updating
<1> QED
  BY <1>1, <1>2, <1>8, UpdateKeeps

(* What is completed is the next quest, and it was finished.               *)
LEMMA CompleteIs ==
  ASSUME Books, NEW r \in Role, NEW q \in QuestId, Complete(r, q)
  PROVE  /\ q = main[r] + 1 /\ q \in DOMAIN log[r] /\ log[r][q].done
         /\ \/ log' = log /\ main' = main /\ money' = money
            \/ /\ log' = WithoutQuest(r, q) /\ main' = [main EXCEPT ![r] = q]
               /\ money' = [money EXCEPT ![r] = money[r] + Money[q]]
<1>1. q \in DOMAIN log[r] /\ log[r][q].done
  BY DEF Complete
<1>2. q = main[r] + 1
  BY <1>1, LogFacts
<1>3. \/ UNCHANGED own
      \/ /\ log' = WithoutQuest(r, q) /\ main' = [main EXCEPT ![r] = q]
         /\ money' = [money EXCEPT ![r] = @ + Money[q]]
  BY DEF Complete
<1> QED
  BY <1>1, <1>2, <1>3 DEF own

LEMMA CompleteKeeps ==
  ASSUME Books, NEW r \in Role, NEW q \in QuestId, Complete(r, q)
  PROVE  Books'
<1>1. CASE log' = log /\ main' = main /\ money' = money
  BY <1>1, SameBooks
<1>2. CASE /\ log' = WithoutQuest(r, q) /\ main' = [main EXCEPT ![r] = q]
           /\ money' = [money EXCEPT ![r] = money[r] + Money[q]]
  <2>1. q = main[r] + 1
    BY CompleteIs
  <2>2. PICK l : /\ Booked(l, main[r]) /\ WithoutQuest(r, q) = [log EXCEPT ![r] = l]
                 /\ DOMAIN l = DOMAIN log[r] \ {q}
    BY WithoutKeeps
  <2>3. DOMAIN l = {}
    BY <2>1, <2>2, LogFacts
  <2>4. Booked(l, q)
    BY <2>2, <2>3 DEF Booked
  <2>5. q \in 0 .. Last /\ money[r] + Money[q] \in Nat
    <3>1. money[r] \in Nat
      BY LogFacts
    <3>2. Money[q] \in Nat /\ q \in 0 .. Last
      BY QuestAssumption DEF QuestId
    <3> QED
      BY <3>1, <3>2
  <2>6. money[r] + Money[q] = DueOf(q)
    <3>1. DueOf(q) = DueOf(q - 1) + Money[q]
      BY DueIs
    <3>2. q - 1 = main[r]
      <4>1. main[r] \in 0 .. Last
        BY LogFacts
      <4> QED
        BY <2>1, <4>1
    <3>3. money[r] = DueOf(main[r])
      BY LogFacts
    <3> QED
      BY <3>1, <3>2, <3>3, Zenon
  <2> QED
    BY <1>2, <2>2, <2>4, <2>5, <2>6, RoleBooks
<1> QED
  BY <1>1, <1>2, CompleteIs

LEMMA BooksAreKept ==
  ASSUME PoolExact', Books, [QuestNext]_qvars
  PROVE  Books'
<1>1. ASSUME NEW r \in Role, NEW q \in QuestId, Cancel(r, q)
      PROVE  Books'
  <2>1. log' = WithoutQuest(r, q) /\ main' = main /\ money' = money
    BY <1>1 DEF Cancel
  <2>2. PICK l : Booked(l, main[r]) /\ WithoutQuest(r, q) = [log EXCEPT ![r] = l]
    BY WithoutKeeps
  <2> QED
    BY <2>1, <2>2, LogBooks
<1>2. \A r \in Role : bag'[r] \in [Pos -> Place]
  BY DEF PoolExact, TypeOK
<1>3. ASSUME NEW r \in Role, NEW list \in Gift, Receive(r, list)
      PROVE  Books'
  <2>1. (log' = BagChanged(r, bag'[r]) \/ log' = log) /\ main' = main /\ money' = money
    BY <1>3 DEF Receive
  <2> QED
    BY <1>2, <2>1, BagChangedKeeps, SameBooks
<1>4. ASSUME NEW r \in Role, NEW p, NEW num, Discard(r, p, num)
      PROVE  Books'
  BY <1>2, <1>4, BagChangedKeeps DEF Discard
<1>5. ASSUME NEW r \in Role, Rearrange(r)
      PROVE  Books'
  BY <1>5, SameBooks DEF Rearrange, own
<1>6. CASE UNCHANGED qvars
  BY <1>6, SameBooks DEF qvars, own
<1> QED
  BY <1>1, <1>3, <1>4, <1>5, <1>6, AcceptKeeps, CompleteKeeps, KillKeeps DEF QuestNext

LEMMA BooksHold == QuestSpec => []Books
<1>1. QuestInit => Books
  <2> SUFFICES ASSUME QuestInit
               PROVE  Books
    OBVIOUS
  <2>1. /\ log = [r \in Role |-> << >>] /\ main = [r \in Role |-> 0] /\ money = [r \in Role |-> 0]
    BY DEF QuestInit
  <2>2. Booked(<< >>, 0)
    <3>1. << >> = [i \in {} |-> << >>[i]]
      OBVIOUS
    <3> QED
      BY <3>1, BookOf
  <2>3. << >> \in Logs /\ 0 \in 0 .. Last /\ 0 \in Nat
    BY <2>2, QuestAssumption DEF Booked
  <2>4. log \in [Role -> Logs] /\ main \in [Role -> 0 .. Last] /\ money \in [Role -> Nat]
    BY <2>1, <2>3
  <2>5. \A r \in Role : log[r] = << >> /\ main[r] = 0 /\ money[r] = 0
    BY <2>1
  <2>6. \A r \in Role : money[r] = DueOf(main[r]) /\ Booked(log[r], main[r])
    BY <2>2, <2>5, DueIs
  <2> QED
    BY <2>4, <2>6 DEF Books
<1>2. PoolExact' /\ Books /\ [QuestNext]_qvars => Books'
  BY BooksAreKept
<1>3. QuestSpec => []PoolExact
  BY PoolIsExact
<1> QED
  BY <1>1, <1>2, <1>3, PTL DEF QuestSpec

(* Over cancelling, accepting again, logging out and rewards that fail     *)
(* half way, a role has been paid for each quest up to its index exactly   *)
(* once, the only quest it can have is the next one, and that one is       *)
(* finished exactly when its counters, once written, say so.               *)
THEOREM RolesArePaidOnce == QuestSpec => []PaidOnce
<1>1. Books => PaidOnce
  <2> SUFFICES ASSUME Books, NEW r \in Role
               PROVE  /\ main[r] \in 0 .. Last /\ money[r] = Due(r)
                      /\ DOMAIN log[r] \subseteq QuestId \cap {main[r] + 1}
                      /\ \A q \in DOMAIN log[r] :
                           /\ log[r][q] \in Entry
                           /\ ~log[r][q].raw => (log[r][q].done <=> Fulfilled(q, log[r][q]))
    BY DEF PaidOnce
  <2>1. Due(r) = DueOf(main[r])
    BY DEF Due, DueOf
  <2> QED
    BY <2>1, LogFacts DEF Sound
<1> QED
  BY <1>1, BooksHold, PTL

(* A quest with a monster to kill is not completed without a kill since it *)
(* was accepted, whatever the stack held when it was.                      *)
THEOREM KillsAreNeeded == QuestSpec => NoKillNoReward
<1> DEFINE Step == \A r \in Role : \A q \in QuestId :
                     (main'[r] = q /\ main[r] # q /\ KillNpc[q] # None) => log[r][q].kill > 0
<1>1. Books /\ [QuestNext]_qvars => [Step]_qvars
  <2> SUFFICES ASSUME Books, QuestNext, NEW r \in Role, NEW q \in QuestId,
                      main'[r] = q, main[r] # q, KillNpc[q] # None
               PROVE  log[r][q].kill > 0
    OBVIOUS
  <2>1. main' # main
    OBVIOUS
  <2>2. PICK s \in Role, t \in QuestId : Complete(s, t)
    BY <2>1 DEF QuestNext, Accept, Cancel, Kill, Receive, Discard, Rearrange, own
  <2>3. main' = [main EXCEPT ![s] = t] /\ t \in DOMAIN log[s] /\ log[s][t].done
    BY <2>1, <2>2, CompleteIs
  <2>4. s = r /\ t = q
    BY <2>3 DEF Books
  <2> QED
    BY <2>3, <2>4, LogFacts DEF Sound
<1> QED
  BY <1>1, BooksHold, PTL DEF QuestSpec, NoKillNoReward

-----------------------------------------------------------------------------
(* The first loop of add_thing_list plans positions that hold the same or  *)
(* are free, and a free one for one entry only.                            *)
Planned(b, e, i, had) ==
  CASE Len(had.pos) < i - 1 -> had
    [] Len(had.pos) = i - 1 /\ StackPos(b, e) # {} ->
         [had EXCEPT !.pos = Append(@, Min(StackPos(b, e)))]
    [] Len(had.pos) = i - 1 /\ StackPos(b, e) = {} /\ EmptyPos(b, had.begin) # {} ->
         [pos |-> Append(had.pos, Min(EmptyPos(b, had.begin))), begin |-> Min(EmptyPos(b, had.begin)) + 1]
    [] OTHER -> had

Fits(b, list, had) ==
  \A k \in 1 .. Len(had.pos) :
    LET p == had.pos[k]
    IN  /\ p \in Pos
        /\ b[p] # None => b[p].id = list[k].id
        /\ b[p] = None => p < had.begin /\ \A j \in 1 .. k - 1 : had.pos[j] # p

Plans == [pos : Seq(Pos), begin : Nat]

LEMMA LeastPos ==
  ASSUME NEW s \in SUBSET Pos, s # {}
  PROVE  Min(s) \in s
<1>1. s \in SUBSET Nat
  BY BagFacts DEF Pos
<1>2. \E m \in s : \A n \in s : m <= n
  BY <1>1, LeastNumber
<1> QED
  BY <1>2 DEF Min

(* What one round makes of the plan.                                       *)
Continued(b, list, i, had, c) ==
  /\ c \in Plans
  /\ \/ c = had
     \/ /\ Len(had.pos) = i - 1
        /\ \E m \in Pos :
             /\ c.pos = Append(had.pos, m)
             /\ \/ b[m] # None /\ b[m].id = list[i].id /\ c.begin = had.begin
                \/ b[m] = None /\ had.begin <= m /\ c.begin = m + 1

LEMMA PlannedIs ==
  ASSUME NEW b \in [Pos -> Place], NEW list \in Seq(Thing), NEW i \in 1 .. Len(list), NEW had \in Plans
  PROVE  Continued(b, list, i, had, Planned(b, list[i], i, had))
<1> DEFINE e == list[i]
           c == Planned(b, e, i, had)
           stack == StackPos(b, e)
           empty == EmptyPos(b, had.begin)
<1>1. /\ had.pos \in Seq(Pos) /\ had.begin \in Nat /\ Len(had.pos) \in Nat
      /\ had = [pos |-> had.pos, begin |-> had.begin]
  BY DEF Plans
<1>2. /\ stack \in SUBSET Pos /\ \A p \in stack : b[p] # None /\ b[p].id = e.id
      /\ empty \in SUBSET Pos /\ \A p \in empty : b[p] = None /\ had.begin <= p
  BY BagFacts, <1>1 DEF StackPos, EmptyPos, Pos
<1>3. CASE Len(had.pos) = i - 1 /\ stack # {}
  <2> DEFINE m == Min(stack)
  <2>1. m \in stack
    BY <1>2, <1>3, LeastPos
  <2>2. c = [had EXCEPT !.pos = Append(had.pos, m)]
    BY <1>3, <1>1 DEF Planned
  <2>3. m \in Pos /\ b[m] # None /\ b[m].id = list[i].id
    BY <1>2, <2>1
  <2> HIDE DEF m, c, stack, empty
  <2>4. c = [pos |-> Append(had.pos, m), begin |-> had.begin]
    BY <1>1, <2>2 DEF Plans
  <2>5. c.pos = Append(had.pos, m) /\ c.begin = had.begin /\ c \in Plans
    BY <1>1, <2>3, <2>4 DEF Plans
  <2> QED
    BY <1>3, <2>3, <2>5 DEF Continued, c
<1>4. CASE Len(had.pos) = i - 1 /\ stack = {} /\ empty # {}
  <2> DEFINE m == Min(empty)
  <2>1. m \in empty
    BY <1>2, <1>4, LeastPos
  <2>2. c = [pos |-> Append(had.pos, m), begin |-> m + 1]
    BY <1>4, <1>1 DEF Planned
  <2>3. m \in Pos /\ m \in Nat /\ b[m] = None /\ had.begin <= m
    BY <1>2, <2>1, BagFacts DEF Pos
  <2> HIDE DEF m, c, stack, empty
  <2>4. c.pos = Append(had.pos, m) /\ c.begin = m + 1 /\ c \in Plans
    BY <1>1, <2>2, <2>3 DEF Plans
  <2> QED
    BY <1>4, <2>3, <2>4 DEF Continued, c
<1>5. CASE ~(Len(had.pos) = i - 1 /\ stack # {}) /\ ~(Len(had.pos) = i - 1 /\ stack = {} /\ empty # {})
  <2>1. c = had
    BY <1>5 DEF Planned
  <2> QED
    BY <2>1 DEF Continued
<1> QED
  BY <1>3, <1>4, <1>5

LEMMA FitsOn ==
  ASSUME NEW b \in [Pos -> Place], NEW list \in Seq(Thing), NEW i \in 1 .. Len(list), NEW had \in Plans,
         Fits(b, list, had), NEW c, Continued(b, list, i, had, c)
  PROVE  Fits(b, list, c)
<1>1. CASE c = had
  BY <1>1
<1>2. ASSUME NEW m \in Pos, Len(had.pos) = i - 1, c.pos = Append(had.pos, m),
             \/ b[m] # None /\ b[m].id = list[i].id /\ c.begin = had.begin
             \/ b[m] = None /\ had.begin <= m /\ c.begin = m + 1
      PROVE  Fits(b, list, c)
  <2>1. had.pos \in Seq(Pos) /\ had.begin \in Nat /\ i \in Nat /\ m \in Nat /\ c.begin \in Nat
    BY <1>2, BagFacts DEF Plans, Pos
  <2>2. /\ Len(c.pos) = i /\ c.pos[i] = m
        /\ \A k \in 1 .. i - 1 : c.pos[k] = had.pos[k] /\ had.pos[k] \in Pos /\ had.pos[k] \in Nat
    BY <1>2, <2>1, BagFacts DEF Pos
  <2>3. had.begin <= c.begin
    BY <1>2, <2>1
  <2>4. ASSUME NEW k \in 1 .. i - 1
        PROVE  /\ c.pos[k] \in Pos
               /\ b[c.pos[k]] # None => b[c.pos[k]].id = list[k].id
               /\ b[c.pos[k]] = None => c.pos[k] < c.begin /\ \A j \in 1 .. k - 1 : c.pos[j] # c.pos[k]
    <3>1. /\ c.pos[k] \in Pos
          /\ b[c.pos[k]] # None => b[c.pos[k]].id = list[k].id
          /\ b[c.pos[k]] = None => c.pos[k] < had.begin /\ \A j \in 1 .. k - 1 : had.pos[j] # c.pos[k]
      BY <1>2, <2>2 DEF Fits
    <3>2. \A j \in 1 .. k - 1 : j \in 1 .. i - 1
      BY <2>1
    <3>3. c.pos[k] \in Nat
      BY <2>2
    <3> QED
      BY <2>1, <2>2, <2>3, <3>1, <3>2, <3>3
  <2>5. ASSUME b[m] = None
        PROVE  m < c.begin /\ \A j \in 1 .. i - 1 : c.pos[j] # m
    <3>1. had.begin <= m /\ c.begin = m + 1
      BY <1>2, <2>5
    <3>2. ASSUME NEW j \in 1 .. i - 1
          PROVE  c.pos[j] # m
      <4>1. b[c.pos[j]] = None => c.pos[j] < had.begin
        BY <1>2, <2>2 DEF Fits
      <4> QED
        BY <2>1, <2>2, <2>5, <3>1, <4>1
    <3> QED
      BY <2>1, <3>1, <3>2
  <2>6. b[m] # None => b[m].id = list[i].id
    BY <1>2
  <2>7. \A k \in 1 .. i : k = i \/ k \in 1 .. i - 1
    BY <2>1
  <2> QED
    BY <2>2, <2>4, <2>5, <2>6, <2>7 DEF Fits
<1> QED
  BY <1>1, <1>2 DEF Continued

LEMMA PlanSteps ==
  ASSUME NEW b \in [Pos -> Place], NEW list \in Seq(Thing)
  PROVE  \E g \in [0 .. Len(list) -> Plans] :
           /\ g[0] = [pos |-> << >>, begin |-> 0] /\ g[Len(list)].pos = Plan(b, list)
           /\ \A i \in 1 .. Len(list) : g[i] = Planned(b, list[i], i, g[i - 1])
<1> DEFINE n == Len(list)
           none == [pos |-> << >>, begin |-> 0]
           R == [ix \in (1 .. n) \X Plans |-> Planned(b, list[ix[1]], ix[1], ix[2])]
           Step(g) == [i \in 0 .. n |-> IF i = 0 THEN none ELSE Planned(b, list[i], i, g[i - 1])]
           step == CHOOSE g : g = Step(g)
<1>1. n \in Nat /\ none \in Plans
  BY DEF Plans
<1>2. R \in [(1 .. n) \X Plans -> Plans]
  <2>1. ASSUME NEW ix \in (1 .. n) \X Plans
        PROVE  Planned(b, list[ix[1]], ix[1], ix[2]) \in Plans
    BY PlannedIs DEF Continued
  <2> QED
    BY <2>1
<1>3. \A i \in 1 .. n : \A x \in Plans : R[<<i, x>>] = Planned(b, list[i], i, x)
  OBVIOUS
<1>4. step[n].pos = Plan(b, list)
  BY DEF Plan, Planned
<1> HIDE DEF R, none
<1>5. PICK h : Loop(h, n, Plans, none, R)
  BY <1>1, <1>2, LoopExists, Zenon
<1>6. \A i \in 0 .. n : i # 0 => i \in 1 .. n /\ i - 1 \in 0 .. n
  BY <1>1
<1>7. \A i \in 1 .. n : i \in 0 .. n /\ i # 0 /\ i - 1 \in 0 .. n
  BY <1>1
<1>8. \A i \in 1 .. n : h[i] = Planned(b, list[i], i, h[i - 1])
  BY <1>3, <1>5, <1>7 DEF Loop
<1>9. h = Step(h)
  <2>1. \A i \in 0 .. n : h[i] = IF i = 0 THEN none ELSE Planned(b, list[i], i, h[i - 1])
    BY <1>5, <1>6, <1>8 DEF Loop
  <2>2. h = [i \in 0 .. n |-> h[i]]
    BY <1>5 DEF Loop
  <2> QED
    BY <2>1, <2>2
<1>10. step = Step(step)
  <2> HIDE DEF Step
  <2>1. \E g : g = Step(g)
    BY <1>9
  <2> QED
    BY <2>1, Zenon
<1> HIDE DEF step
<1>11. step[0] = none /\ \A i \in 1 .. n : step[i] = Planned(b, list[i], i, step[i - 1])
  <2>1. 0 \in 0 .. n
    BY <1>1
  <2> QED
    BY <1>7, <1>10, <2>1
<1>12. \A i \in 0 .. n : step[i] = h[i]
  <2> DEFINE Good == {i \in 0 .. n : step[i] = h[i]}
  <2>1. 0 \in Good
    BY <1>1, <1>5, <1>11 DEF Loop
  <2>2. \A i \in 1 .. n : i - 1 \in Good => i \in Good
    BY <1>7, <1>8, <1>11
  <2> HIDE DEF Good
  <2>3. \A i \in 0 .. n : i \in Good
    BY <1>1, <2>1, <2>2, LoopKeeps
  <2> QED
    BY <2>3 DEF Good
<1>13. h[n].pos = Plan(b, list)
  BY <1>1, <1>4, <1>12
<1> QED
  BY <1>5, <1>8, <1>13 DEF Loop, none

LEMMA PlanIs ==
  ASSUME NEW b \in [Pos -> Place], NEW list \in Seq(Thing)
  PROVE  \E begin \in Nat : Fits(b, list, [pos |-> Plan(b, list), begin |-> begin])
<1> DEFINE n == Len(list)
<1>1. n \in Nat
  OBVIOUS
<1>2. PICK g \in [0 .. n -> Plans] :
             /\ g[0] = [pos |-> << >>, begin |-> 0] /\ g[n].pos = Plan(b, list)
             /\ \A i \in 1 .. n : g[i] = Planned(b, list[i], i, g[i - 1])
  BY PlanSteps
<1> DEFINE Good == {i \in 0 .. n : Fits(b, list, g[i])}
<1>3. 0 \in Good
  BY <1>1, <1>2 DEF Fits
<1>4. ASSUME NEW i \in 1 .. n, i - 1 \in Good
      PROVE  i \in Good
  <2>1. i \in 0 .. n /\ i - 1 \in 0 .. n /\ g[i - 1] \in Plans /\ Fits(b, list, g[i - 1])
    BY <1>1, <1>4
  <2>2. Continued(b, list, i, g[i - 1], g[i])
    BY <1>2, <2>1, PlannedIs
  <2>3. Fits(b, list, g[i])
    BY <2>1, <2>2, FitsOn
  <2> QED
    BY <2>1, <2>3
<1> HIDE DEF Good, n
<1>5. n \in Good
  <2>1. \A i \in 0 .. n : i \in Good
    BY <1>1, <1>3, <1>4, LoopKeeps
  <2> QED
    BY <1>1, <2>1
<1>6. Fits(b, list, g[n]) /\ g[n] \in Plans
  BY <1>1, <1>2, <1>5 DEF Good
<1>7. g[n] = [pos |-> Plan(b, list), begin |-> g[n].begin] /\ g[n].begin \in Nat
  BY <1>2, <1>6 DEF Plans
<1> QED
  BY <1>6, <1>7

-----------------------------------------------------------------------------
(* The second loop, for a plan: so many entries are in the bag as a whole, *)
(* all of them unless the pool is empty.                                   *)
Filled(b, list, pos, i, c) ==
  /\ \E n \in 0 .. i :
       /\ n = i => c.ok
       /\ n < i => ~ c.ok /\ c.taken = PoolSize
       /\ \A id \in Item : Has(c.bag, id) = Has(b.bag, id) + FirstOf(list, n, id)
  /\ \A p \in Pos : b.bag[p] # None => c.bag[p] # None /\ c.bag[p].id = b.bag[p].id
  /\ \A p \in Pos : (\A j \in 1 .. i : pos[j] # p) => c.bag[p] = b.bag[p]

LEMMA FilledOn ==
  ASSUME NEW b \in Pools, NEW list \in Seq(Thing), NEW had, Fits(b.bag, list, had), Len(had.pos) = Len(list),
         NEW i \in 1 .. Len(list), NEW c \in Pools, Filled(b, list, had.pos, i - 1, c),
         NEW d \in Pools, c.ok => Added(c, had.pos[i], list[i], d), ~ c.ok => d = c
  PROVE  Filled(b, list, had.pos, i, d)
<1> DEFINE q == had.pos[i]
           e == list[i]
<1>1. PICK n \in 0 .. i - 1 :
             /\ n = i - 1 => c.ok
             /\ n < i - 1 => ~ c.ok /\ c.taken = PoolSize
             /\ \A id \in Item : Has(c.bag, id) = Has(b.bag, id) + FirstOf(list, n, id)
  BY DEF Filled
<1>2. /\ \A p \in Pos : b.bag[p] # None => c.bag[p] # None /\ c.bag[p].id = b.bag[p].id
      /\ \A p \in Pos : (\A j \in 1 .. i - 1 : had.pos[j] # p) => c.bag[p] = b.bag[p]
  BY DEF Filled
<1>3. Len(list) \in Nat /\ i \in Nat /\ n \in 0 .. i /\ \A j \in 1 .. i - 1 : j \in 1 .. i
  OBVIOUS
<1>4. CASE ~ c.ok
  <2>1. d = c /\ n < i - 1 /\ n < i /\ n # i
    BY <1>1, <1>4
  <2>2. ~ d.ok /\ d.taken = PoolSize
    BY <1>1, <2>1
  <2> QED
    BY <1>1, <1>2, <1>3, <2>1, <2>2 DEF Filled
<1>5. CASE c.ok
  <2>1. n = i - 1 /\ Added(c, q, e, d) /\ e \in Thing
    BY <1>1, <1>3, <1>5
  <2>2. /\ q \in Pos /\ (b.bag[q] # None => b.bag[q].id = e.id)
        /\ b.bag[q] = None => \A j \in 1 .. i - 1 : had.pos[j] # q
    BY DEF Fits
  <2>3. c.bag[q] = None \/ c.bag[q].id = e.id
    BY <1>2, <2>2
  <2>4. d.ok \/ d.taken = PoolSize
    BY <2>1, <2>2, <2>3 DEF Added
  <2>5. \A id \in Item : Has(d.bag, id) = Has(c.bag, id) + (IF d.ok THEN Adds(e, id) ELSE 0)
    <3> HIDE DEF q, e
    <3>1. ASSUME NEW id
          PROVE  Gains(c, e, d, id)
      BY <2>1, HasAdded, Zenon
    <3> QED
      BY <3>1 DEF Gains
  <2>6. CASE ~ d.ok
    <3>1. d.bag = c.bag /\ d.taken = PoolSize /\ n < i /\ n # i
      BY <1>3, <2>1, <2>4, <2>6 DEF Added
    <3> QED
      BY <1>1, <1>2, <1>3, <2>6, <3>1 DEF Filled
  <2>7. CASE d.ok
    <3> DEFINE x == [id |-> e.id, num |-> Had(c.bag, q) + e.num]
    <3>1. d.bag = [c.bag EXCEPT ![q] = x] /\ (c.bag[q] # None => c.bag[q].id = e.id)
      BY <2>1, <2>7 DEF Added
    <3>2. c.bag \in [Pos -> Place] /\ d.bag \in [Pos -> Place]
      BY DEF Pools
    <3>3. x \in Thing /\ x # None /\ x.id = e.id
      <4>1. e.id \in Item /\ e.num \in Nat \ {0} /\ Had(c.bag, q) \in Nat
        BY <2>1, <2>2, <3>2, BagFacts DEF Thing, Had
      <4>2. x \in Thing
        BY <4>1 DEF Thing
      <4> QED
        BY <4>2, BagFacts
    <3>4. d.bag[q] = x /\ \A p \in Pos : p # q => d.bag[p] = c.bag[p]
      BY <2>2, <3>1, <3>2
    <3> HIDE DEF x
    <3>5. \A p \in Pos : b.bag[p] # None => d.bag[p] # None /\ d.bag[p].id = b.bag[p].id
      BY <1>2, <2>2, <3>3, <3>4
    <3>6. \A p \in Pos : (\A j \in 1 .. i : had.pos[j] # p) => d.bag[p] = b.bag[p]
      <4>1. i \in 1 .. i
        BY <1>3
      <4> QED
        BY <1>2, <1>3, <3>4, <4>1
    <3>7. ASSUME NEW id \in Item
          PROVE  Has(d.bag, id) = Has(b.bag, id) + FirstOf(list, i, id)
      <4>1. Has(d.bag, id) = Has(c.bag, id) + Adds(e, id)
        BY <2>5, <2>7
      <4>2. Has(c.bag, id) = Has(b.bag, id) + FirstOf(list, i - 1, id)
        BY <1>1, <2>1
      <4>3. FirstOf(list, i, id) = FirstOf(list, i - 1, id) + Adds(e, id) /\ FirstOf(list, i - 1, id) \in Nat
        <5>1. i - 1 \in 0 .. Len(list)
          BY <1>3
        <5> QED
          BY <5>1, AmountIs
      <4>4. Has(b.bag, id) \in Nat /\ Adds(e, id) \in Nat
        BY <2>1, HasIs DEF Adds, Thing, Pools
      <4> QED
        BY <4>1, <4>2, <4>3, <4>4
    <3>8. \E k \in 0 .. i :
             /\ k = i => d.ok
             /\ k < i => ~ d.ok /\ d.taken = PoolSize
             /\ \A id \in Item : Has(d.bag, id) = Has(b.bag, id) + FirstOf(list, k, id)
      <4>1. i \in 0 .. i /\ ~ i < i
        BY <1>3
      <4> QED
        BY <2>7, <3>7, <4>1
    <3> QED
      BY <3>5, <3>6, <3>8 DEF Filled
  <2> QED
    BY <2>6, <2>7
<1> QED
  BY <1>4, <1>5

LEMMA PutFills ==
  ASSUME NEW b \in Pools, b.ok, NEW list \in Seq(Thing), Len(Plan(b.bag, list)) = Len(list)
  PROVE  Filled(b, list, Plan(b.bag, list), Len(list), Put(b, Plan(b.bag, list), list))
<1> DEFINE n == Len(list)
           pos == Plan(b.bag, list)
<1>1. n \in Nat /\ (\A i \in 1 .. n : list[i] \in Thing) /\ b.bag \in [Pos -> Place]
  BY DEF Pools
<1>2. PICK begin \in Nat : Fits(b.bag, list, [pos |-> pos, begin |-> begin])
  BY <1>1, PlanIs
<1>3. PICK had : had = [pos |-> pos, begin |-> begin]
  OBVIOUS
<1>4. had.pos = pos /\ Fits(b.bag, list, had) /\ Len(had.pos) = n
  BY <1>2, <1>3
<1>5. PICK g : Rounds(b, pos, list, g)
  <2> HIDE DEF pos
  <2> QED
    BY PutSteps, Zenon
<1> HIDE DEF pos
<1> DEFINE Good == {i \in 0 .. n : Filled(b, list, had.pos, i, g[i])}
<1>6. 0 \in Good
  <2>1. ASSUME NEW id \in Item
        PROVE  Has(b.bag, id) = Has(b.bag, id) + FirstOf(list, 0, id)
    <3>1. Has(b.bag, id) \in Nat /\ FirstOf(list, 0, id) = 0
      BY <1>1, HasIs, AmountIs
    <3> QED
      BY <3>1
  <2>2. \E k \in 0 .. 0 :
          /\ k = 0 => b.ok
          /\ k < 0 => ~ b.ok /\ b.taken = PoolSize
          /\ \A id \in Item : Has(b.bag, id) = Has(b.bag, id) + FirstOf(list, k, id)
    <3>1. 0 \in 0 .. 0 /\ ~ 0 < 0
      OBVIOUS
    <3> QED
      BY <2>1, <3>1
  <2>3. Filled(b, list, had.pos, 0, b)
    BY <2>2 DEF Filled
  <2> QED
    BY <1>1, <1>5, <2>3 DEF Rounds
<1>7. ASSUME NEW i \in 1 .. n, i - 1 \in Good
      PROVE  i \in Good
  <2>1. /\ i \in 0 .. n /\ i - 1 \in 0 .. n /\ g[i - 1] \in Pools /\ g[i] \in Pools
        /\ Filled(b, list, had.pos, i - 1, g[i - 1]) /\ list[i] \in Thing
    BY <1>1, <1>5, <1>7 DEF Rounds
  <2>2. g[i - 1].ok => Added(g[i - 1], had.pos[i], list[i], g[i])
    BY <1>4, <1>5, <2>1, AddIs DEF Rounds
  <2>3. ~ g[i - 1].ok => g[i] = g[i - 1]
    BY <1>5 DEF Rounds
  <2>4. Filled(b, list, had.pos, i, g[i])
    BY <1>4, <2>1, <2>2, <2>3, FilledOn
  <2> QED
    BY <2>1, <2>4
<1> HIDE DEF Good, n
<1>8. n \in Good
  <2>1. \A i \in 0 .. n : i \in Good
    BY <1>1, <1>6, <1>7, LoopKeeps
  <2> QED
    BY <1>1, <2>1
<1> QED
  BY <1>4, <1>5, <1>8 DEF Good, n, pos, Rounds

-----------------------------------------------------------------------------
(* What the other operations leave of an item.                             *)
Loses(b, p, num, c, id) ==
  /\ ~ c.ok => Has(c.bag, id) = Has(b.bag, id)
  /\ c.ok => Has(c.bag, id) + (IF b.bag[p].id = id THEN num ELSE 0) = Has(b.bag, id)

LEMMA HasDeleted ==
  ASSUME NEW b \in Pools, NEW p, NEW num \in Nat, NEW c, Deleted(b, p, num, c), NEW id
  PROVE  Loses(b, p, num, c, id)
<1>1. b.bag \in [Pos -> Place] /\ c.bag \in [Pos -> Place] /\ Has(b.bag, id) \in Nat /\ Has(c.bag, id) \in Nat
  BY HasIs DEF Deleted, Pools
<1>2. CASE ~ c.ok
  BY <1>1, <1>2 DEF Deleted, Loses
<1>3. CASE c.ok
  <2> DEFINE x == IF b.bag[p].num = num THEN None ELSE [id |-> b.bag[p].id, num |-> b.bag[p].num - num]
  <2>1. p \in Pos /\ b.bag[p] # None /\ num <= b.bag[p].num /\ c.bag = [b.bag EXCEPT ![p] = x]
    BY <1>3 DEF Deleted
  <2>2. c.bag[p] = x /\ \A y \in Pos : y # p => c.bag[y] = b.bag[y]
    BY <1>1, <2>1
  <2>3. b.bag[p].id \in Item /\ b.bag[p].num \in Nat
    BY <1>1, <2>1, BagFacts DEF Thing
  <2>4. Has(c.bag, id) + Num(b.bag, id)[p] = Has(b.bag, id) + Num(c.bag, id)[p]
    BY <1>1, <2>1, <2>2, HasChanges
  <2>5. Num(b.bag, id)[p] = IF b.bag[p].id = id THEN b.bag[p].num ELSE 0
    BY <2>1 DEF Num
  <2>6. Num(c.bag, id)[p] = IF b.bag[p].id = id THEN b.bag[p].num - num ELSE 0
    <3>1. CASE b.bag[p].num = num
      <4>1. c.bag[p] = None
        BY <2>2, <3>1
      <4> QED
        BY <2>1, <2>3, <3>1, <4>1 DEF Num
    <3>2. CASE b.bag[p].num # num
      <4>1. x = [id |-> b.bag[p].id, num |-> b.bag[p].num - num]
        BY <3>2
      <4>2. b.bag[p].num - num \in Nat \ {0}
        BY <2>1, <2>3, <3>2
      <4>3. x \in Thing
        BY <2>3, <4>1, <4>2 DEF Thing
      <4>4. c.bag[p] # None /\ c.bag[p].id = b.bag[p].id /\ c.bag[p].num = b.bag[p].num - num
        BY <2>2, <4>1, <4>3, BagFacts
      <4> QED
        BY <2>1, <4>4 DEF Num
    <3> QED
      BY <3>1, <3>2
  <2> QED
    BY <1>1, <1>3, <2>1, <2>3, <2>4, <2>5, <2>6 DEF Loses
<1> QED
  BY <1>2, <1>3

LEMMA HasSwapped ==
  ASSUME NEW b \in [Pos -> Place], NEW p \in Pos, NEW q \in Pos, NEW c \in [Pos -> Place],
         \A x \in Pos : c[x] = IF x = q THEN b[p] ELSE IF x = p THEN b[q] ELSE b[x], NEW id
  PROVE  Has(c, id) = Has(b, id)
<1>2. CASE p = q
  <2>1. c = b
    BY <1>2
  <2> QED
    BY <2>1
<1>3. CASE p # q
  <2>1. PICK d : d = [b EXCEPT ![p] = b[q]]
    OBVIOUS
  <2>2. /\ d \in [Pos -> Place] /\ d[p] = b[q] /\ \A x \in Pos : x # p => d[x] = b[x]
    BY <2>1
  <2>3. c[q] = b[p] /\ \A x \in Pos : x # q => c[x] = d[x]
    BY <1>3, <2>2
  <2>4. /\ Has(d, id) + Num(b, id)[p] = Has(b, id) + Num(d, id)[p]
        /\ Num(b, id)[p] \in Nat /\ Num(d, id)[p] \in Nat
    BY <2>2, HasChanges
  <2>5. Has(c, id) + Num(d, id)[q] = Has(d, id) + Num(c, id)[q]
    BY <2>2, <2>3, HasChanges
  <2>6. Num(d, id)[p] = Num(b, id)[q] /\ Num(d, id)[q] = Num(b, id)[q] /\ Num(c, id)[q] = Num(b, id)[p]
    BY <1>3, <2>2, <2>3 DEF Num
  <2>7. Has(b, id) \in Nat /\ Has(c, id) \in Nat /\ Has(d, id) \in Nat
    BY <2>2, HasIs
  <2> QED
    BY <2>4, <2>5, <2>6, <2>7
<1> QED
  BY <1>2, <1>3

(* A bag that lacks some of the things has no more.                        *)
LEMMA HasLess ==
  ASSUME NEW b \in [Pos -> Place], NEW c \in [Pos -> Place], \A p \in Pos : c[p] = b[p] \/ c[p] = None, NEW id
  PROVE  Has(c, id) <= Has(b, id)
<1>1. IsFiniteSet(Pos) /\ Num(b, id) \in [Pos -> Nat] /\ Num(c, id) \in [Pos -> Nat]
  BY BagFacts, HasIs
<1>2. ASSUME NEW p \in Pos
      PROVE  Num(c, id)[p] \in Nat /\ Num(b, id)[p] \in Nat /\ Num(c, id)[p] <= Num(b, id)[p]
  <2>1. Num(c, id)[p] \in Nat /\ Num(b, id)[p] \in Nat
    BY <1>1
  <2>2. Num(c, id)[p] = Num(b, id)[p] \/ Num(c, id)[p] = 0
    BY DEF Num
  <2> QED
    BY <2>1, <2>2
<1>3. SumOf(Num(c, id), Pos) <= SumOf(Num(b, id), Pos)
  BY <1>1, <1>2, SumGrows
<1> QED
  BY <1>3, HasIs

(* init_role_data_from_db: a thing that is not in the bag found the pool   *)
(* empty.                                                                  *)
Restored(things, i, c) ==
  \A p \in Pos : IF p < i THEN c.bag[p] = things[p] \/ (c.bag[p] = None /\ c.taken = PoolSize)
                 ELSE c.bag[p] = None

LEMMA FillRestores ==
  ASSUME NEW b \in Pools, b.bag = Nothing, NEW things \in [Pos -> Place]
  PROVE  Restored(things, Size, Fill(b, things))
<1>1. Size \in Nat /\ PoolSize \in Nat /\ (\A i \in 1 .. Size : i - 1 \in Pos) /\ \A p \in Pos : p \in Nat /\ p < Size
  BY BagFacts DEF Pos
<1>2. PICK g \in [0 .. Size -> Pools] :
             /\ g[0] = b /\ g[Size] = Fill(b, things)
             /\ \A i \in 1 .. Size :
                  g[i] = IF things[i - 1] = None THEN g[i - 1]
                         ELSE AddByPos(g[i - 1], i - 1, things[i - 1])
  BY FillSteps
<1> DEFINE Good == {i \in 0 .. Size : Restored(things, i, g[i])}
<1>3. 0 \in Good
  BY <1>1, <1>2 DEF Restored, Nothing
<1>4. ASSUME NEW i \in 1 .. Size, i - 1 \in Good
      PROVE  i \in Good
  <2> DEFINE c == g[i - 1]
             d == g[i]
  <2>1. i \in 0 .. Size /\ i - 1 \in 0 .. Size /\ c \in Pools /\ d \in Pools /\ Restored(things, i - 1, c)
    BY <1>1, <1>2, <1>4
  <2>2. i - 1 \in Pos /\ c.bag[i - 1] = None
    BY <1>1, <2>1 DEF Restored
  <2>3. CASE things[i - 1] = None
    <3>1. d = c
      BY <1>2, <2>3
    <3>2. Restored(things, i, d)
      BY <1>1, <2>1, <2>2, <2>3, <3>1 DEF Restored
    <3> QED
      BY <2>1, <3>2
  <2>4. CASE things[i - 1] # None
    <3>1. things[i - 1] \in Thing
      BY <2>2, <2>4, BagFacts
    <3>2. d = AddByPos(c, i - 1, things[i - 1])
      BY <1>2, <2>4
    <3> HIDE DEF c, d
    <3>3. Added(c, i - 1, things[i - 1], d)
      BY <2>1, <3>1, <3>2, AddIs
    <3>4. c.taken = PoolSize => d.taken = PoolSize
      BY <1>1, <2>1, <3>3 DEF Added, Pools
    <3>5. CASE d.ok
      <4>1. d.bag = [c.bag EXCEPT ![i - 1] = [id |-> things[i - 1].id, num |-> Had(c.bag, i - 1) + things[i - 1].num]]
        BY <3>3, <3>5 DEF Added
      <4>2. Had(c.bag, i - 1) + things[i - 1].num = things[i - 1].num
        BY <2>2, <3>1 DEF Had, Thing
      <4>3. things[i - 1] = [id |-> things[i - 1].id, num |-> things[i - 1].num]
        BY <3>1 DEF Thing
      <4>4. d.bag = [c.bag EXCEPT ![i - 1] = things[i - 1]]
        BY <4>1, <4>2, <4>3
      <4>5. c.bag \in [Pos -> Place]
        BY <2>1 DEF Pools
      <4>6. d.bag[i - 1] = things[i - 1] /\ \A p \in Pos : p # i - 1 => d.bag[p] = c.bag[p]
        BY <2>2, <4>4, <4>5
      <4>7. Restored(things, i, d)
        BY <1>1, <2>1, <3>4, <4>6 DEF Restored
      <4> QED
        BY <2>1, <4>7 DEF d
    <3>6. CASE ~ d.ok
      <4>1. d.bag = c.bag /\ d.taken = PoolSize
        BY <2>2, <3>3, <3>6 DEF Added
      <4>2. Restored(things, i, d)
        BY <1>1, <2>1, <2>2, <4>1 DEF Restored
      <4> QED
        BY <2>1, <4>2 DEF d
    <3> QED
      BY <3>5, <3>6
  <2> QED
    BY <2>3, <2>4
<1> HIDE DEF Good
<1>5. \A i \in 0 .. Size : i \in Good
  BY <1>1, <1>3, <1>4, LoopKeeps
<1>6. Size \in 0 .. Size
  BY <1>1
<1> QED
  BY <1>2, <1>5, <1>6 DEF Good

-----------------------------------------------------------------------------
(* What a role has of an item before and after each operation.             *)
Wears(w, id) == IF w = id THEN 1 ELSE 0

LEMMA TotalIs ==
  ASSUME NEW r, NEW id
  PROVE  /\ Total(r, id) = Has(Carried(r), id) + Wears(worn[r], id)
         /\ Total(r, id)' = Has(Carried(r)', id) + Wears(worn'[r], id)
<1>1. Total(r, id) = Has(Carried(r), id) + Wears(worn[r], id)
  BY DEF Total, Has, Carried, Wears
<1>2. (Total(r, id) = Has(Carried(r), id) + Wears(worn[r], id))'
  BY <1>1, PTL
<1> QED
  BY <1>1, <1>2

LEMMA CarriedIs ==
  ASSUME PoolExact, NEW r \in Role
  PROVE  /\ Carried(r) \in [Pos -> Place] /\ (Playing(r) => Carried(r) = bag[r])
         /\ \A id : Has(Carried(r), id) \in Nat /\ Wears(worn[r], id) \in Nat /\ Total(r, id) \in Nat
<1>1. Carried(r) \in [Pos -> Place] /\ (Playing(r) => Carried(r) = bag[r])
  BY Parts DEF Carried, Playing
<1>2. \A id : Has(Carried(r), id) \in Nat /\ Wears(worn[r], id) \in Nat
  BY <1>1, HasIs DEF Wears
<1> QED
  BY <1>1, <1>2, TotalIs

LEMMA TotalsAreNumbers == PoolExact' => \A r \in Role : \A id : Total(r, id)' \in Nat
<1>1. PoolExact => \A r \in Role : \A id : Total(r, id) \in Nat
  BY CarriedIs
<1>2. (PoolExact => \A r \in Role : \A id : Total(r, id) \in Nat)'
  BY <1>1, PTL
<1> QED
  BY <1>2

LEMMA SameTotals ==
  ASSUME NEW r, bag'[r] = bag[r], row'[r] = row[r], worn'[r] = worn[r]
  PROVE  Carried(r)' = Carried(r) /\ \A id : Total(r, id)' = Total(r, id)
<1>1. Carried(r)' = Carried(r)
  BY DEF Carried, Playing
<1> QED
  BY <1>1, TotalIs

LEMMA Others ==
  ASSUME PoolExact, NEW r \in Role, NEW c, Become(r, c)
  PROVE  bag'[r] = c.bag /\ taken' = c.taken /\ \A s \in Role : s # r => bag'[s] = bag[s]
BY Parts DEF Become

LEMMA GiveTotals ==
  ASSUME PoolExact, NEW r \in Role, NEW list \in Seq(Thing), Playing(r), row' = row, worn' = worn,
         Len(Plan(bag[r], list)) = Len(list), Become(r, Put(Of(r), Plan(bag[r], list), list))
  PROVE  \E n \in 0 .. Len(list) :
           /\ n = Len(list) => Put(Of(r), Plan(bag[r], list), list).ok
           /\ n < Len(list) => taken' = PoolSize
           /\ \A id \in Item : Total(r, id)' = Total(r, id) + FirstOf(list, n, id)
<1>1. /\ Of(r) \in Pools /\ Of(r).bag = bag[r] /\ Of(r).ok
      /\ Carried(r) = bag[r] /\ Carried(r)' = bag'[r]
  BY Parts DEF Of, Carried, Playing
<1>2. PICK c : c = Put(Of(r), Plan(bag[r], list), list)
  OBVIOUS
<1>3. Filled(Of(r), list, Plan(bag[r], list), Len(list), c)
  <2>1. Filled(Of(r), list, Plan(Of(r).bag, list), Len(list), Put(Of(r), Plan(Of(r).bag, list), list))
    BY <1>1, PutFills
  <2> QED
    BY <1>1, <1>2, <2>1
<1>4. bag'[r] = c.bag /\ taken' = c.taken
  BY <1>2, Others
<1>5. PICK n \in 0 .. Len(list) :
        /\ n = Len(list) => c.ok
        /\ n < Len(list) => ~ c.ok /\ c.taken = PoolSize
        /\ \A id \in Item : Has(c.bag, id) = Has(Of(r).bag, id) + FirstOf(list, n, id)
  BY <1>3 DEF Filled
<1>6. ASSUME NEW id \in Item
      PROVE  Total(r, id)' = Total(r, id) + FirstOf(list, n, id)
  <2>1. Has(Carried(r)', id) = Has(Carried(r), id) + FirstOf(list, n, id)
    BY <1>1, <1>4, <1>5
  <2>2. Has(Carried(r), id) \in Nat /\ Wears(worn[r], id) \in Nat /\ FirstOf(list, n, id) \in Nat
    BY CarriedIs, AmountIs
  <2>3. Total(r, id) = Has(Carried(r), id) + Wears(worn[r], id)
    BY TotalIs
  <2>4. Total(r, id)' = Has(Carried(r)', id) + Wears(worn[r], id)
    BY TotalIs
  <2> QED
    BY <2>1, <2>2, <2>3, <2>4
<1> QED
  BY <1>2, <1>4, <1>5, <1>6

LEMMA DropTotals ==
  ASSUME PoolExact, NEW r \in Role, NEW p, NEW num \in Nat, Drop(r, p, num), NEW id
  PROVE  /\ Total(r, id)' <= Total(r, id)
         /\ p \notin Pos \/ num = 0 => Total(r, id)' = Total(r, id)
<1>1. /\ Playing(r) /\ row' = row /\ worn' = worn /\ Become(r, DeleteByPos(Of(r), p, num))
  BY DEF Drop
<1>2. PICK c : c = DeleteByPos(Of(r), p, num)
  OBVIOUS
<1>3. /\ Of(r) \in Pools /\ Of(r).bag = bag[r] /\ Cardinality(In(Of(r).bag)) <= Of(r).taken
      /\ Carried(r) = bag[r] /\ Carried(r)' = bag'[r]
  BY <1>1, Parts DEF Carried, Playing
<1>4. Deleted(Of(r), p, num, c)
  BY <1>2, <1>3, DeleteIs
<1>5. bag'[r] = c.bag
  BY <1>1, <1>2, Others
<1>6. /\ ~ c.ok => Has(Carried(r)', id) = Has(Carried(r), id)
      /\ c.ok => Has(Carried(r)', id) + (IF bag[r][p].id = id THEN num ELSE 0) = Has(Carried(r), id)
  <2>1. Loses(Of(r), p, num, c, id)
    BY <1>3, <1>4, HasDeleted
  <2> QED
    BY <1>3, <1>5, <2>1 DEF Loses
<1>7. c.ok => p \in Pos
  BY <1>4 DEF Deleted
<1>8. Has(Carried(r)', id) \in Nat
  <2>1. c.bag \in [Pos -> Place]
    BY <1>4 DEF Deleted, Pools
  <2> QED
    BY <1>3, <1>5, <2>1, HasIs
<1>9. Has(Carried(r), id) \in Nat /\ Wears(worn[r], id) \in Nat
  BY CarriedIs
<1>10. Total(r, id) = Has(Carried(r), id) + Wears(worn[r], id)
  BY TotalIs
<1>11. Total(r, id)' = Has(Carried(r)', id) + Wears(worn[r], id)
  BY <1>1, TotalIs
<1>12. Has(Carried(r)', id) <= Has(Carried(r), id) /\ (~ c.ok \/ num = 0 => Has(Carried(r)', id) = Has(Carried(r), id))
  BY <1>6, <1>8, <1>9
<1> QED
  BY <1>7, <1>8, <1>9, <1>10, <1>11, <1>12

LEMMA SwapTotals ==
  ASSUME PoolExact, NEW r \in Role, NEW p \in Pos, NEW q \in Pos, Swap(r, p, q), NEW id
  PROVE  Has(Carried(r)', id) = Has(Carried(r), id) /\ Total(r, id)' = Total(r, id)
<1>1. /\ Playing(r) /\ row' = row /\ worn' = worn
      /\ bag' = [bag EXCEPT ![r][p] = bag[r][q], ![r][q] = bag[r][p]]
  BY DEF Swap
<1>2. Carried(r) = bag[r] /\ Carried(r)' = bag'[r] /\ bag[r] \in [Pos -> Place]
  BY <1>1, Parts DEF Carried, Playing
<1>3. bag'[r] = [bag[r] EXCEPT ![p] = bag[r][q], ![q] = bag[r][p]]
  BY <1>1, Parts
<1>4. /\ bag'[r] \in [Pos -> Place]
      /\ \A x \in Pos : bag'[r][x] = IF x = q THEN bag[r][p] ELSE IF x = p THEN bag[r][q] ELSE bag[r][x]
  BY <1>2, <1>3
<1>5. Has(bag'[r], id) = Has(bag[r], id)
  BY <1>2, <1>4, HasSwapped
<1> QED
  BY <1>1, <1>2, <1>5, TotalIs

LEMMA LeaveTotals ==
  ASSUME PoolExact, NEW r \in Role, Leave(r)
  PROVE  Carried(r)' = Carried(r) /\ \A id : Total(r, id)' = Total(r, id)
<1>1. Playing(r) /\ row' = [row EXCEPT ![r] = bag[r]] /\ worn' = worn
  BY DEF Leave
<1>2. bag[r] # None
  <2>1. bag[r] \in [Pos -> Place] /\ \A x : x \in [Pos -> Place] => x \in [Pos -> {None} \cup [id : Item, num : Nat]]
    BY Parts DEF Place
  <2> QED
    BY <2>1, BagAssumption
<1>3. row'[r] = bag[r]
  BY <1>1, Parts
<1>4. Carried(r)' = Carried(r)
  BY <1>1, <1>2, <1>3 DEF Carried, Playing
<1> QED
  BY <1>1, <1>4, TotalIs

LEMMA LoadTotals ==
  ASSUME PoolExact, NEW r \in Role, Load(r)
  PROVE  /\ Carried(r)' = Carried(r) \/ taken' = PoolSize
         /\ \A id : Total(r, id)' <= Total(r, id)
         /\ Carried(r)' = Carried(r) => \A id : Total(r, id)' = Total(r, id)
<1>1. ~ Playing(r) /\ row' = [row EXCEPT ![r] = None] /\ worn' = worn
  BY DEF Load
<1>2. bag[r] = Nothing /\ row[r] \in [Pos -> Place] /\ Carried(r) = row[r]
  BY <1>1, Parts DEF Playing, Carried
<1>3. PICK c : c = Fill(Of(r), row[r])
  OBVIOUS
<1>4. Become(r, c)
  BY <1>2, <1>3 DEF Load, Of
<1>5. bag'[r] = c.bag /\ taken' = c.taken
  BY <1>4, Others
<1>6. Carried(r)' = c.bag
  <2>1. row'[r] = None
    BY <1>1, Parts
  <2> QED
    BY <1>5, <2>1 DEF Carried, Playing
<1>7. Restored(row[r], Size, c) /\ c.bag \in [Pos -> Place]
  BY <1>2, <1>3, Parts, FillRestores, FillKeeps DEF Pools
<1>8. \A p \in Pos : c.bag[p] = row[r][p] \/ (c.bag[p] = None /\ c.taken = PoolSize)
  <2>1. \A p \in Pos : p < Size
    BY BagFacts DEF Pos
  <2> QED
    BY <1>7, <2>1 DEF Restored
<1>9. Carried(r)' = Carried(r) \/ taken' = PoolSize
  <2>1. CASE \A p \in Pos : c.bag[p] = row[r][p]
    BY <1>2, <1>6, <1>7, <2>1
  <2>2. CASE \E p \in Pos : c.bag[p] # row[r][p]
    BY <1>5, <1>8, <2>2
  <2> QED
    BY <2>1, <2>2
<1>10. ASSUME NEW id
       PROVE  Total(r, id)' <= Total(r, id) /\ (Carried(r)' = Carried(r) => Total(r, id)' = Total(r, id))
  <2>1. Has(Carried(r)', id) <= Has(Carried(r), id)
    BY <1>2, <1>6, <1>7, <1>8, HasLess
  <2>2. Has(Carried(r)', id) \in Nat /\ Has(Carried(r), id) \in Nat /\ Wears(worn[r], id) \in Nat
    BY <1>2, <1>6, <1>7, HasIs, CarriedIs
  <2>3. Total(r, id) = Has(Carried(r), id) + Wears(worn[r], id)
    BY TotalIs
  <2>4. Total(r, id)' = Has(Carried(r)', id) + Wears(worn[r], id)
    BY <1>1, TotalIs
  <2> QED
    BY <2>1, <2>2, <2>3, <2>4
<1> QED
  BY <1>9, <1>10

LEMMA EquipTotals ==
  ASSUME PoolExact, NEW r \in Role, NEW p, Equip(r, p)
  PROVE  /\ p \notin Pos => Carried(r)' = Carried(r)
         /\ \A id \in Item : Total(r, id)' <= Total(r, id)
         /\ (\A id \in Item : Total(r, id)' = Total(r, id)) \/ (p \in Pos => taken' = PoolSize)
<1> DEFINE item == [id |-> worn[r], num |-> 1]
           swapped == [bag |-> [bag[r] EXCEPT ![p] = item], taken |-> taken, ok |-> TRUE]
<1>1. Playing(r) /\ row' = row
  BY EquipIs
<1>2. Carried(r) = bag[r] /\ Carried(r)' = bag'[r] /\ bag[r] \in [Pos -> Place]
  BY <1>1, Parts DEF Carried, Playing
<1>3. /\ \A id : Total(r, id) = Has(bag[r], id) + Wears(worn[r], id)
      /\ \A id : Total(r, id)' = Has(bag'[r], id) + Wears(worn'[r], id)
  BY <1>2, TotalIs
<1>4. /\ \A id : Has(bag[r], id) \in Nat /\ \A w : Wears(w, id) \in Nat
      /\ \A id \in Item : Wears(None, id) = 0
  BY <1>2, HasIs, BagAssumption DEF Wears
<1>5. CASE /\ p \in Pos /\ bag[r][p] \in Thing /\ bag[r][p].num = 1
           /\ worn' = [worn EXCEPT ![r] = bag[r][p].id]
           /\ item \in Thing /\ Become(r, swapped)
  <2>1. worn'[r] = bag[r][p].id
    BY <1>5, Parts
  <2>2. bag'[r] = [bag[r] EXCEPT ![p] = item]
    <3>1. bag'[r] = swapped.bag
      BY <1>5, Others
    <3> QED
      BY <3>1
  <2>3. item # None /\ bag[r][p] # None
    BY <1>5, BagFacts
  <2>4. item.id = worn[r] /\ item.num = 1
    OBVIOUS
  <2> HIDE DEF item
  <2>5. bag'[r] \in [Pos -> Place] /\ bag'[r][p] = item /\ \A x \in Pos : x # p => bag'[r][x] = bag[r][x]
    BY <1>2, <1>5, <2>2, BagFacts
  <2>6. ASSUME NEW id \in Item
        PROVE  Total(r, id)' = Total(r, id)
    <3>1. Has(bag'[r], id) + Num(bag[r], id)[p] = Has(bag[r], id) + Num(bag'[r], id)[p]
      BY <1>2, <1>5, <2>5, HasChanges
    <3>2. Num(bag[r], id)[p] = Wears(worn'[r], id)
      BY <1>5, <2>1, <2>3 DEF Num, Wears
    <3>3. Num(bag'[r], id)[p] = Wears(worn[r], id)
      BY <1>5, <2>3, <2>4, <2>5 DEF Num, Wears
    <3> QED
      BY <1>3, <3>1, <3>2, <3>3
  <2>7. \A id \in Item : Total(r, id) \in Nat
    BY CarriedIs
  <2> QED
    BY <1>5, <2>6, <2>7
<1>6. CASE /\ p \in Pos /\ bag[r][p] \in Thing /\ bag[r][p].num = 1
           /\ worn' = [worn EXCEPT ![r] = bag[r][p].id]
           /\ worn[r] = None /\ Become(r, DeleteByPos(Of(r), p, 1))
  <2>1. worn'[r] = bag[r][p].id
    BY <1>6, Parts
  <2>2. PICK c : c = DeleteByPos(Of(r), p, 1)
    OBVIOUS
  <2>3. Of(r) \in Pools /\ Cardinality(In(Of(r).bag)) <= Of(r).taken /\ Of(r).bag = bag[r] /\ 1 \in Nat
    BY Parts
  <2>4. Deleted(Of(r), p, 1, c)
    BY <2>2, <2>3, DeleteIs
  <2>5. bag'[r] = c.bag
    BY <1>6, <2>2, Others
  <2>6. c.ok
    <3>1. bag[r][p] # None /\ 1 <= bag[r][p].num
      BY <1>6, BagFacts
    <3> QED
      BY <1>6, <2>3, <2>4, <3>1 DEF Deleted
  <2>7. ASSUME NEW id \in Item
        PROVE  Total(r, id)' = Total(r, id)
    <3>1. Loses(Of(r), p, 1, c, id)
      BY <2>3, <2>4, HasDeleted
    <3>2. Has(bag'[r], id) + Wears(worn'[r], id) = Has(bag[r], id)
      BY <2>1, <2>3, <2>5, <2>6, <3>1 DEF Loses, Wears
    <3>3. Wears(worn[r], id) = 0
      BY <1>4, <1>6
    <3> QED
      BY <1>3, <1>4, <3>2, <3>3
  <2>8. \A id \in Item : Total(r, id) \in Nat
    BY CarriedIs
  <2> QED
    BY <1>6, <2>7, <2>8
<1>7. CASE /\ p \in Pos => bag[r][p] = None
           /\ worn' = [worn EXCEPT ![r] = None]
           /\ item \in Thing /\ Become(r, AddByPos(Of(r), p, item))
  <2>1. worn'[r] = None
    BY <1>7, Parts
  <2>2. PICK c : c = AddByPos(Of(r), p, item)
    OBVIOUS
  <2>3. Of(r) \in Pools /\ Of(r).bag = bag[r]
    BY Parts
  <2>4. item.id = worn[r] /\ item.num = 1
    OBVIOUS
  <2> HIDE DEF item
  <2>5. Added(Of(r), p, item, c)
    BY <1>7, <2>2, <2>3, AddIs
  <2>6. bag'[r] = c.bag /\ taken' = c.taken
    BY <1>7, <2>2, Others
  <2>7. ASSUME NEW id \in Item
        PROVE  /\ Total(r, id)' <= Total(r, id)
               /\ c.ok => Total(r, id)' = Total(r, id)
    <3>1. Gains(Of(r), item, c, id)
      BY <1>7, <2>3, <2>5, HasAdded
    <3>2. Adds(item, id) = Wears(worn[r], id)
      BY <2>4 DEF Adds, Wears
    <3>3. Has(bag'[r], id) = Has(bag[r], id) + (IF c.ok THEN Wears(worn[r], id) ELSE 0)
      BY <2>3, <2>6, <3>1, <3>2 DEF Gains
    <3>4. Wears(worn'[r], id) = 0 /\ Wears(worn[r], id) \in Nat /\ Has(bag[r], id) \in Nat
      BY <1>4, <2>1
    <3>5. Total(r, id) = Has(bag[r], id) + Wears(worn[r], id) /\ Total(r, id)' = Has(bag'[r], id) + Wears(worn'[r], id)
      BY <1>3
    <3> QED
      BY <3>3, <3>4, <3>5
  <2>8. p \in Pos => c.ok \/ taken' = PoolSize
    BY <1>7, <2>3, <2>5, <2>6 DEF Added
  <2>9. p \notin Pos => bag'[r] = bag[r]
    BY <2>3, <2>5, <2>6 DEF Added
  <2> QED
    BY <1>2, <2>7, <2>8, <2>9
<1>8. CASE /\ worn' = [worn EXCEPT ![r] = None] /\ worn[r] = None /\ Become(r, Of(r))
  <2>1. worn'[r] = worn[r] /\ bag'[r] = bag[r]
    BY <1>8, Parts, Others
  <2>2. \A id : Total(r, id)' = Total(r, id) /\ Total(r, id) \in Nat
    BY <1>3, <1>4, <2>1
  <2> QED
    BY <1>2, <2>1, <2>2
<1> QED
  BY <1>5, <1>6, <1>7, <1>8, EquipIs

-----------------------------------------------------------------------------
(* One step, as what it does to the role that takes it and to the others.  *)
(* What one role does, and what that is for the bags.                      *)
Acts(r) ==
  \/ \E q \in QuestId : (r \in Quester /\ Accept(r, q)) \/ Cancel(r, q) \/ Complete(r, q)
  \/ \E npc \in Monster : Kill(r, npc)
  \/ \E list \in Gift : Receive(r, list)
  \/ \E p \in Pos \cup {Size}, num \in 0 .. 2 : Discard(r, p, num)
  \/ Rearrange(r)

LEMMA RoleActs ==
  ASSUME PoolExact, NEW r \in Role, Acts(r)
  PROVE  /\ \A s \in Role : s # r => bag'[s] = bag[s] /\ row'[s] = row[s] /\ worn'[s] = worn[s]
         /\ \/ UNCHANGED vars
            \/ \E list \in Gift \cup {<< >>} :
                 /\ Playing(r) /\ row' = row /\ worn' = worn
                 /\ Len(Plan(bag[r], list)) = Len(list)
                 /\ Become(r, Put(Of(r), Plan(bag[r], list), list))
            \/ \E p \in Pos \cup {Size}, num \in 0 .. 2 : Drop(r, p, num)
            \/ \E p, q \in Pos : Swap(r, p, q)
            \/ \E p \in Pos \cup {Size} : Equip(r, p)
            \/ Leave(r) \/ Load(r)
<1>1. \/ \E q \in QuestId : (r \in Quester /\ Accept(r, q)) \/ Cancel(r, q) \/ Complete(r, q)
      \/ \E npc \in Monster : Kill(r, npc)
      \/ \E list \in Gift : Receive(r, list)
      \/ \E p \in Pos \cup {Size}, num \in 0 .. 2 : Discard(r, p, num)
      \/ Rearrange(r)
  BY DEF Acts
<1>2. ASSUME UNCHANGED vars
      PROVE  \A s \in Role : s # r => bag'[s] = bag[s] /\ row'[s] = row[s] /\ worn'[s] = worn[s]
  BY <1>2 DEF vars
<1>3. ASSUME NEW c, Become(r, c)
      PROVE  \A s \in Role : s # r => bag'[s] = bag[s]
  BY <1>3, Others
<1>4. CASE \E q \in QuestId : Accept(r, q) \/ Cancel(r, q)
  BY <1>2, <1>4 DEF Accept, Cancel
<1>5. CASE \E npc \in Monster : Kill(r, npc)
  BY <1>2, <1>5 DEF Kill
<1>6. ASSUME NEW q \in QuestId, Complete(r, q)
      PROVE  /\ \A s \in Role : s # r => bag'[s] = bag[s] /\ row'[s] = row[s] /\ worn'[s] = worn[s]
             /\ \E list \in Gift \cup {<< >>} :
                  /\ Playing(r) /\ row' = row /\ worn' = worn
                  /\ Len(Plan(bag[r], list)) = Len(list)
                  /\ Become(r, Put(Of(r), Plan(bag[r], list), list))
  <2>1. /\ Playing(r) /\ row' = row /\ worn' = worn
        /\ Len(Plan(bag[r], Award[q])) = Len(Award[q])
        /\ Become(r, Put(Of(r), Plan(bag[r], Award[q]), Award[q]))
    BY <1>6 DEF Complete
  <2>2. Award[q] \in Gift \cup {<< >>}
    BY QuestAssumption
  <2> QED
    BY <1>3, <2>1, <2>2
<1>7. ASSUME NEW list \in Gift, Receive(r, list)
      PROVE  /\ \A s \in Role : s # r => bag'[s] = bag[s] /\ row'[s] = row[s] /\ worn'[s] = worn[s]
             /\ Playing(r) /\ row' = row /\ worn' = worn
             /\ Len(Plan(bag[r], list)) = Len(list)
             /\ Become(r, Put(Of(r), Plan(bag[r], list), list))
  <2>1. /\ Playing(r) /\ row' = row /\ worn' = worn
        /\ Len(Plan(bag[r], list)) = Len(list)
        /\ Become(r, Put(Of(r), Plan(bag[r], list), list))
    BY <1>7 DEF Receive, GiveList
  <2> QED
    BY <1>3, <2>1
<1>8. ASSUME NEW p \in Pos \cup {Size}, NEW num \in 0 .. 2, Discard(r, p, num)
      PROVE  /\ \A s \in Role : s # r => bag'[s] = bag[s] /\ row'[s] = row[s] /\ worn'[s] = worn[s]
             /\ Drop(r, p, num)
  <2>1. Drop(r, p, num) /\ row' = row /\ worn' = worn /\ Become(r, DeleteByPos(Of(r), p, num))
    BY <1>8 DEF Discard, Drop
  <2> QED
    BY <1>3, <2>1
<1>9. ASSUME NEW p \in Pos, NEW q \in Pos, Swap(r, p, q)
      PROVE  \A s \in Role : s # r => bag'[s] = bag[s] /\ row'[s] = row[s] /\ worn'[s] = worn[s]
  BY <1>9, Parts DEF Swap
<1>10. ASSUME NEW p, Equip(r, p)
       PROVE  \A s \in Role : s # r => bag'[s] = bag[s] /\ row'[s] = row[s] /\ worn'[s] = worn[s]
  <2>1. row' = row /\ (\E w : worn' = [worn EXCEPT ![r] = w]) /\ \E c : Become(r, c)
    BY <1>10 DEF Equip
  <2> QED
    BY <1>3, <2>1, Parts
<1>11. ASSUME Leave(r)
       PROVE  \A s \in Role : s # r => bag'[s] = bag[s] /\ row'[s] = row[s] /\ worn'[s] = worn[s]
  BY <1>11, Parts DEF Leave
<1>12. ASSUME Load(r)
       PROVE  \A s \in Role : s # r => bag'[s] = bag[s] /\ row'[s] = row[s] /\ worn'[s] = worn[s]
  <2>1. row' = [row EXCEPT ![r] = None] /\ worn' = worn /\ \E c : Become(r, c)
    BY <1>12 DEF Load
  <2> QED
    BY <1>3, <2>1, Parts
<1>13. CASE Rearrange(r)
  BY <1>9, <1>10, <1>11, <1>12, <1>13 DEF Rearrange
<1> QED
  BY <1>1, <1>4, <1>5, <1>6, <1>7, <1>8, <1>13

LEMMA OneActs ==
  ASSUME PoolExact, QuestNext
  PROVE  \E r \in Role :
           /\ \A s \in Role : s # r => bag'[s] = bag[s] /\ row'[s] = row[s] /\ worn'[s] = worn[s]
           /\ \/ UNCHANGED vars
              \/ \E list \in Gift \cup {<< >>} :
                   /\ Playing(r) /\ row' = row /\ worn' = worn
                   /\ Len(Plan(bag[r], list)) = Len(list)
                   /\ Become(r, Put(Of(r), Plan(bag[r], list), list))
              \/ \E p \in Pos \cup {Size}, num \in 0 .. 2 : Drop(r, p, num)
              \/ \E p, q \in Pos : Swap(r, p, q)
              \/ \E p \in Pos \cup {Size} : Equip(r, p)
              \/ Leave(r) \/ Load(r)
<1>1. PICK r \in Role : Acts(r)
  BY DEF QuestNext, Acts
<1> QED
  BY <1>1, RoleActs

(* A role gets the list it is given as a whole or, when that empties the   *)
(* pool, the first entries of it: the positions that add_thing_list plans  *)
(* for all entries do not get in each other's way.                         *)
THEOREM GiftsComeWhole == QuestSpec => GiftsAreWhole
<1> DEFINE Whole(r) ==
             \E list \in Gift : \E n \in 1 .. Len(list) :
               /\ n < Len(list) => taken' = PoolSize
               /\ \A id \in Item : Total(r, id)' = Total(r, id) + Amount(SubSeq(list, 1, n), id)
           Step == \A r \in Role : (\E id \in Item : Total(r, id)' > Total(r, id)) => Whole(r)
<1>1. ASSUME PoolExact, PoolExact', QuestNext, NEW s \in Role, NEW i \in Item, Total(s, i)' > Total(s, i)
      PROVE  Whole(s)
  <2>1. PICK r \in Role :
          /\ \A x \in Role : x # r => bag'[x] = bag[x] /\ row'[x] = row[x] /\ worn'[x] = worn[x]
          /\ \/ UNCHANGED vars
             \/ \E list \in Gift \cup {<< >>} :
                  /\ Playing(r) /\ row' = row /\ worn' = worn
                  /\ Len(Plan(bag[r], list)) = Len(list)
                  /\ Become(r, Put(Of(r), Plan(bag[r], list), list))
             \/ \E p \in Pos \cup {Size}, num \in 0 .. 2 : Drop(r, p, num)
             \/ \E p, q \in Pos : Swap(r, p, q)
             \/ \E p \in Pos \cup {Size} : Equip(r, p)
             \/ Leave(r) \/ Load(r)
    BY <1>1, OneActs
  <2>2. Total(s, i) \in Nat /\ ~ Total(s, i)' <= Total(s, i) /\ Total(s, i)' # Total(s, i)
    <3>1. Total(s, i) \in Nat
      BY <1>1, CarriedIs
    <3>2. Total(s, i)' \in Nat
      BY <1>1, TotalsAreNumbers
    <3> QED
      BY <1>1, <3>1, <3>2
  <2>3. s = r
    BY <2>1, <2>2, SameTotals
  <2>4. ~ UNCHANGED vars
    <3>1. ASSUME UNCHANGED vars
          PROVE  bag' = bag /\ row' = row /\ worn' = worn
      BY <3>1 DEF vars
    <3> QED
      BY <2>2, <3>1, SameTotals
  <2>5. PICK list \in Gift \cup {<< >>} :
                  /\ Playing(r) /\ row' = row /\ worn' = worn
                  /\ Len(Plan(bag[r], list)) = Len(list)
                  /\ Become(r, Put(Of(r), Plan(bag[r], list), list))
    <3>1. ~ \E p \in Pos \cup {Size}, num \in 0 .. 2 : Drop(r, p, num)
      BY <1>1, <2>2, <2>3, DropTotals
    <3>2. ~ (\E p, q \in Pos : Swap(r, p, q)) /\ ~ Leave(r) /\ ~ Load(r)
      BY <1>1, <2>2, <2>3, SwapTotals, LeaveTotals, LoadTotals
    <3>3. ~ \E p \in Pos \cup {Size} : Equip(r, p)
      BY <1>1, <2>2, <2>3, EquipTotals
    <3> QED
      BY <2>1, <2>4, <3>1, <3>2, <3>3
  <2>6. list \in Seq(Thing)
    <3>1. << >> \in Seq(Thing)
      OBVIOUS
    <3> QED
      BY <3>1, AwardsAreLists
  <2>7. PICK n \in 0 .. Len(list) :
           /\ n < Len(list) => taken' = PoolSize
           /\ \A id \in Item : Total(r, id)' = Total(r, id) + FirstOf(list, n, id)
    BY <1>1, <2>5, <2>6, GiveTotals
  <2>8. n # 0
    <3>1. FirstOf(list, 0, i) = 0
      BY <2>6, AmountIs
    <3> QED
      BY <2>2, <2>3, <2>7, <3>1
  <2>9. Len(list) \in Nat /\ n \in 1 .. Len(list) /\ list \in Gift
    <3>1. Len(list) \in Nat
      BY <2>6
    <3>2. n \in 1 .. Len(list)
      BY <2>8, <3>1
    <3>3. Len(<< >>) = 0
      OBVIOUS
    <3> QED
      BY <3>1, <3>2, <3>3
  <2> QED
    BY <2>3, <2>7, <2>9 DEF FirstOf
<1>2. PoolExact /\ PoolExact' /\ [QuestNext]_qvars => [Step]_vars
  <2> SUFFICES ASSUME PoolExact, PoolExact', [QuestNext]_qvars, ~ UNCHANGED vars
               PROVE  Step
    OBVIOUS
  <2>1. QuestNext
    BY DEF qvars
  <2> QED
    BY <1>1, <2>1, Zenon
<1> QED
  BY <1>2, PoolIsExact, PTL DEF QuestSpec, GiftsAreWhole

(* What a role has gets less only by what it drops, by a load or an        *)
(* unequip for which the pool has nothing left, or by an unequip to the    *)
(* position behind the end of the bag: storing and filling the bag again,  *)
(* swaps and changes of equipment lose nothing.                            *)
THEOREM NothingIsLost == QuestSpec => NothingVanishes
<1> DEFINE Excused(r) ==
             \/ \E p \in Pos, num \in 1 .. 2 : Drop(r, p, num)
             \/ (Load(r) \/ \E p \in Pos : Equip(r, p)) /\ taken' = PoolSize
             \/ Equip(r, Size)
           Step == \A r \in Role : (\E id \in Item : Total(r, id)' < Total(r, id)) => Excused(r)
<1>1. ASSUME PoolExact, QuestNext, NEW s \in Role, NEW i \in Item, Total(s, i)' < Total(s, i)
      PROVE  Excused(s)
  <2>1. PICK r \in Role :
          /\ \A x \in Role : x # r => bag'[x] = bag[x] /\ row'[x] = row[x] /\ worn'[x] = worn[x]
          /\ \/ UNCHANGED vars
             \/ \E list \in Gift \cup {<< >>} :
                  /\ Playing(r) /\ row' = row /\ worn' = worn
                  /\ Len(Plan(bag[r], list)) = Len(list)
                  /\ Become(r, Put(Of(r), Plan(bag[r], list), list))
             \/ \E p \in Pos \cup {Size}, num \in 0 .. 2 : Drop(r, p, num)
             \/ \E p, q \in Pos : Swap(r, p, q)
             \/ \E p \in Pos \cup {Size} : Equip(r, p)
             \/ Leave(r) \/ Load(r)
    BY <1>1, OneActs
  <2>2. Total(s, i) \in Nat /\ Total(s, i)' # Total(s, i)
    <3>1. Total(s, i) \in Nat
      BY <1>1, CarriedIs
    <3> QED
      BY <1>1, <3>1
  <2>3. s = r
    BY <2>1, <2>2, SameTotals
  <2>4. ~ UNCHANGED vars
    <3>1. ASSUME UNCHANGED vars
          PROVE  bag' = bag /\ row' = row /\ worn' = worn
      BY <3>1 DEF vars
    <3> QED
      BY <2>2, <3>1, SameTotals
  <2>5. ASSUME NEW list \in Gift \cup {<< >>}, Playing(r), row' = row, worn' = worn,
               Len(Plan(bag[r], list)) = Len(list), Become(r, Put(Of(r), Plan(bag[r], list), list))
        PROVE  FALSE
    <3>1. << >> \in Seq(Thing)
      OBVIOUS
    <3>2. list \in Seq(Thing)
      BY <3>1, AwardsAreLists
    <3>3. PICK n \in 0 .. Len(list) : \A id \in Item : Total(r, id)' = Total(r, id) + FirstOf(list, n, id)
      BY <1>1, <2>5, <3>2, GiveTotals
    <3>4. FirstOf(list, n, i) \in Nat
      BY <3>2, AmountIs
    <3> QED
      BY <1>1, <2>2, <2>3, <3>3, <3>4
  <2>6. ASSUME NEW p \in Pos \cup {Size}, NEW num \in 0 .. 2, Drop(r, p, num)
        PROVE  Excused(s)
    <3>1. num \in Nat /\ p \in Pos /\ num # 0
      BY <1>1, <2>2, <2>3, <2>6, DropTotals
    <3>2. num \in 1 .. 2
      BY <3>1
    <3> QED
      BY <2>3, <2>6, <3>1, <3>2
  <2>7. ~ (\E p, q \in Pos : Swap(r, p, q)) /\ ~ Leave(r)
    BY <1>1, <2>2, <2>3, SwapTotals, LeaveTotals
  <2>8. ASSUME Load(r)
        PROVE  Excused(s)
    BY <1>1, <2>2, <2>3, <2>8, LoadTotals
  <2>9. ASSUME NEW p \in Pos \cup {Size}, Equip(r, p)
        PROVE  Excused(s)
    <3>1. p \in Pos => taken' = PoolSize
      BY <1>1, <2>2, <2>3, <2>9, EquipTotals
    <3> QED
      BY <2>3, <2>9, <3>1
  <2> QED
    BY <2>1, <2>4, <2>5, <2>6, <2>7, <2>8, <2>9
<1>2. PoolExact /\ [QuestNext]_qvars => [Step]_vars
  <2> SUFFICES ASSUME PoolExact, [QuestNext]_qvars, ~ UNCHANGED vars
               PROVE  Step
    OBVIOUS
  <2>1. QuestNext
    BY DEF qvars
  <2> QED
    BY <1>1, <2>1, Zenon
<1> QED
  BY <1>2, PoolIsExact, PTL DEF QuestSpec, NothingVanishes

-----------------------------------------------------------------------------
(* The counters of the quests to collect for.                              *)
Agreed(q, e, b) == Collect[q] # None => (e.collect > 0 <=> Has(b, Collect[q]) > 0)

LEMMA AgreeIs ==
  ASSUME NEW r
  PROVE  /\ Agree(r) <=> \A q \in DOMAIN log[r] : Agreed(q, log[r][q], Carried(r))
         /\ Agree(r)' <=> \A q \in DOMAIN log'[r] : Agreed(q, log'[r][q], Carried(r)')
<1>1. Agree(r) <=> \A q \in DOMAIN log[r] : Agreed(q, log[r][q], Carried(r))
  BY DEF Agree, Agreed
<1>2. (Agree(r) <=> \A q \in DOMAIN log[r] : Agreed(q, log[r][q], Carried(r)))'
  BY <1>1, PTL
<1> QED
  BY <1>1, <1>2

LEMMA SameAgree ==
  ASSUME NEW r, Agree(r), log'[r] = log[r], \A id : Has(Carried(r)', id) = Has(Carried(r), id)
  PROVE  Agree(r)'
BY AgreeIs DEF Agreed

LEMMA UpdatedAgrees ==
  ASSUME Books, NEW r \in Role, NEW b \in [Pos -> Place], log' = BagChanged(r, b), Carried(r)' = b
  PROVE  Agree(r)'
<1> DEFINE q == main[r] + 1
           e == [log[r][q] EXCEPT !.collect = Has(b, Collect[q]), !.raw = FALSE]
<1>1. DOMAIN log[r] \subseteq {q}
  BY LogFacts
<1>2. CASE q \notin DOMAIN log[r]
  <2>1. log'[r] = log[r] /\ DOMAIN log'[r] = {}
    BY <1>1, <1>2 DEF BagChanged
  <2> QED
    BY <2>1, AgreeIs
<1>3. CASE q \in DOMAIN log[r]
  <2>1. log' = [log EXCEPT ![r][q] = Updated(q, e)]
    BY <1>3 DEF BagChanged
  <2>2. log[r][q] \in Entry
    BY <1>3, LogFacts DEF Sound
  <2>3. e.collect = Has(b, Collect[q])
    BY <2>2 DEF Entry
  <2>4. Updated(q, e).collect = e.collect
    <3>1. e \in Entry
      BY <2>2, HasIs DEF Entry
    <3> HIDE DEF e
    <3> QED
      BY <3>1 DEF Updated, Entry
  <2> HIDE DEF q, e
  <2>5. DOMAIN log'[r] = DOMAIN log[r] /\ log'[r][q] = Updated(q, e)
    BY <1>3, <2>1 DEF Books
  <2>6. Agreed(q, log'[r][q], Carried(r)')
    BY <2>3, <2>4, <2>5 DEF Agreed
  <2> QED
    BY <1>1, <2>5, <2>6, AgreeIs
<1> QED
  BY <1>2, <1>3

LEMMA AcceptAgrees ==
  ASSUME PoolExact, Books, NEW r \in Role, NEW q \in QuestId, Accept(r, q), Agree(r)
  PROVE  Agree(r)' \/ log'[r][q].raw
<1>1. Playing(r) /\ bag' = bag /\ row' = row /\ worn' = worn
  BY DEF Accept, vars
<1>2. Carried(r)' = Carried(r) /\ Carried(r) = bag[r]
  BY <1>1, SameTotals DEF Carried
<1>3. PICK e \in Checked(r, q) : log' = WithQuest(r, q, e)
  BY DEF Accept
<1>4. CASE q \in DOMAIN log[r] \/ Cardinality(DOMAIN log[r]) >= MaxQuest
  <2>1. log' = log
    BY <1>3, <1>4 DEF WithQuest
  <2> QED
    BY <1>2, <2>1, SameAgree
<1>5. CASE ~(q \in DOMAIN log[r] \/ Cardinality(DOMAIN log[r]) >= MaxQuest)
  <2>1. log'[r] = [i \in DOMAIN log[r] \cup {q} |-> IF i = q THEN e ELSE log[r][i]]
    BY <1>3, <1>5 DEF WithQuest, Books
  <2>2. /\ DOMAIN log'[r] = DOMAIN log[r] \cup {q} /\ log'[r][q] = e
        /\ \A i \in DOMAIN log[r] : log'[r][i] = log[r][i]
    BY <1>5, <2>1
  <2>3. \A i \in DOMAIN log[r] : Agreed(i, log'[r][i], Carried(r)')
    BY <1>2, <2>2, AgreeIs
  <2>4. Agreed(q, e, bag[r]) \/ e.raw
    <3>1. CASE Collect[q] = None
      BY <3>1 DEF Agreed
    <3>2. /\ {TRUE} \in SUBSET BOOLEAN /\ {FALSE} \in SUBSET BOOLEAN /\ {Collect[q] # None} \in SUBSET BOOLEAN
          /\ BOOLEAN \in SUBSET BOOLEAN
      BY Zenon
    <3>3. /\ {0} \in SUBSET (0 .. MaxKill) /\ {0} \in SUBSET Nat
          /\ (IF Collect[q] = None THEN {0} ELSE {0, MaxNum}) \in SUBSET Nat
          /\ {IF Collect[q] = None THEN 0 ELSE 1} \in SUBSET Nat
      BY BagAssumption, QuestAssumption
    <3>4. CASE Collect[q] # None /\ KillNpc[q] # None
      <4>1. e \in Entries({FALSE}, {0}, IF Collect[q] = None THEN {0} ELSE {0, MaxNum}, {Collect[q] # None})
        BY <3>4, Zenon DEF Checked, Entries
      <4>2. e.raw \in {Collect[q] # None}
        BY <3>2, <3>3, <4>1, OfEntries, Zenon
      <4> QED
        BY <3>4, <4>2, Zenon
    <3>5. CASE Collect[q] # None /\ KillNpc[q] = None /\ Has(bag[r], Collect[q]) > 0
      <4>1. e \in Entries({TRUE}, {0}, {IF Collect[q] = None THEN 0 ELSE 1}, {FALSE})
        BY <3>5, Zenon DEF Checked, Entries
      <4>2. e.collect \in {IF Collect[q] = None THEN 0 ELSE 1}
        BY <3>2, <3>3, <4>1, OfEntries, Zenon
      <4>3. e.collect = 1
        BY <3>5, <4>2
      <4> QED
        BY <3>5, <4>3 DEF Agreed
    <3>6. CASE Collect[q] # None /\ KillNpc[q] = None /\ ~ Has(bag[r], Collect[q]) > 0
      <4>1. e \in Entries(BOOLEAN, {0}, {0}, {TRUE})
        BY <3>6, Zenon DEF Checked, Entries
      <4>2. e.raw \in {TRUE}
        BY <3>2, <3>3, <4>1, OfEntries, Zenon
      <4> QED
        BY <4>2, Zenon
    <3> QED
      BY <3>1, <3>4, <3>5, <3>6, Zenon
  <2>5. CASE Agreed(q, e, bag[r])
    <3>1. \A i \in DOMAIN log'[r] : Agreed(i, log'[r][i], Carried(r)')
      BY <1>2, <2>2, <2>3, <2>5
    <3> QED
      BY <3>1, AgreeIs, Zenon
  <2>6. CASE e.raw
    BY <2>2, <2>6, Zenon
  <2> QED
    BY <2>4, <2>5, <2>6, Zenon
<1> QED
  BY <1>4, <1>5, Zenon

LEMMA KillAgrees ==
  ASSUME Books, NEW r \in Role, NEW npc, Kill(r, npc), Agree(r)
  PROVE  Agree(r)'
<1> DEFINE q == main[r] + 1
           e == [log[r][q] EXCEPT !.kill = log[r][q].kill + 1]
<1>1. q \in DOMAIN log[r] /\ bag' = bag /\ row' = row /\ worn' = worn /\ log' = [log EXCEPT ![r][q] = Updated(q, e)]
  BY DEF Kill, vars
<1>2. log[r][q].collect = Updated(q, e).collect
  <2>1. log[r][q] \in Entry
    BY <1>1, LogFacts DEF Sound
  <2> QED
    BY <2>1 DEF Updated, Entry
<1>3. Carried(r)' = Carried(r)
  BY <1>1, SameTotals
<1> HIDE DEF q, e
<1>4. /\ DOMAIN log'[r] = DOMAIN log[r] /\ log'[r][q] = Updated(q, e)
      /\ \A i \in DOMAIN log[r] : i # q => log'[r][i] = log[r][i]
  BY <1>1 DEF Books
<1>5. \A i \in DOMAIN log'[r] : Agreed(i, log'[r][i], Carried(r)')
  BY <1>2, <1>3, <1>4, AgreeIs DEF Agreed
<1> QED
  BY <1>5, AgreeIs

LEMMA WithoutAgrees ==
  ASSUME Books, NEW r \in Role, NEW q, log' = WithoutQuest(r, q), Agree(r),
         Carried(r)' = Carried(r) \/ q = main[r] + 1
  PROVE  Agree(r)'
<1>1. log'[r] = [i \in DOMAIN log[r] \ {q} |-> log[r][i]]
  BY DEF WithoutQuest, Books
<1>2. DOMAIN log'[r] = DOMAIN log[r] \ {q} /\ \A i \in DOMAIN log'[r] : log'[r][i] = log[r][i]
  BY <1>1
<1>3. CASE Carried(r)' = Carried(r)
  BY <1>2, <1>3, AgreeIs
<1>4. CASE q = main[r] + 1
  <2>1. DOMAIN log'[r] = {}
    BY <1>2, <1>4, LogFacts
  <2> QED
    BY <2>1, AgreeIs
<1> QED
  BY <1>3, <1>4

LEMMA OthersAgree ==
  ASSUME PoolExact, Books, NEW r \in Role, Acts(r), NEW s \in Role, s # r, Agree(s)
  PROVE  Agree(s)'
<1>1. Carried(s)' = Carried(s)
  <2>1. bag'[s] = bag[s] /\ row'[s] = row[s] /\ worn'[s] = worn[s]
    BY RoleActs
  <2> QED
    BY <2>1, SameTotals
<1>2. \A l : [log EXCEPT ![r] = l][s] = log[s]
  BY DEF Books
<1>3. \A q, e : WithQuest(r, q, e)[s] = log[s]
  BY DEF Books, WithQuest
<1>4. \A q : WithoutQuest(r, q)[s] = log[s]
  BY DEF Books, WithoutQuest
<1>5. \A b : BagChanged(r, b)[s] = log[s]
  BY DEF Books, BagChanged
<1>6. log'[s] = log[s]
  <2>1. ASSUME NEW q \in QuestId, Accept(r, q)
        PROVE  log'[s] = log[s]
    BY <1>3, <2>1 DEF Accept
  <2>2. ASSUME NEW q \in QuestId, Cancel(r, q)
        PROVE  log'[s] = log[s]
    BY <1>4, <2>2 DEF Cancel
  <2>3. ASSUME NEW q \in QuestId, Complete(r, q)
        PROVE  log'[s] = log[s]
    BY <1>4, <2>3, CompleteIs
  <2>4. ASSUME NEW npc, Kill(r, npc)
        PROVE  log'[s] = log[s]
    <3>1. log' = [log EXCEPT ![r][main[r] + 1] = Updated(main[r] + 1, [@ EXCEPT !.kill = log[r][main[r] + 1].kill + 1])]
      BY <2>4 DEF Kill
    <3> QED
      BY <3>1 DEF Books
  <2>5. ASSUME NEW list \in Gift, Receive(r, list)
        PROVE  log'[s] = log[s]
    <3>1. log' = BagChanged(r, bag'[r]) \/ log' = log
      BY <2>5 DEF Receive
    <3> QED
      BY <1>5, <3>1
  <2>6. ASSUME NEW p, NEW num, Discard(r, p, num)
        PROVE  log'[s] = log[s]
    BY <1>5, <2>6 DEF Discard
  <2>7. ASSUME Rearrange(r)
        PROVE  log'[s] = log[s]
    BY <2>7 DEF Rearrange, own
  <2> QED
    BY <2>1, <2>2, <2>3, <2>4, <2>5, <2>6, <2>7 DEF Acts
<1> QED
  BY <1>1, <1>6, SameAgree

(* The steps after which a quest and the bag may disagree.                 *)
Parted(r) ==
  \/ \E p \in Pos : Equip(r, p)
  \/ /\ taken' = PoolSize
     /\ \/ Load(r) \/ \E list \in Gift : GiveList(r, list)
        \/ \E q \in QuestId : GiveList(r, Award[q])
  \/ \E q \in QuestId : Accept(r, q) /\ log'[r][q].raw

(* A list that is not put as a whole empties the pool.                     *)
LEMMA GiftFails ==
  ASSUME PoolExact, NEW r \in Role, NEW list \in Seq(Thing), GiveList(r, list),
         ~ Put(Of(r), Plan(bag[r], list), list).ok
  PROVE  taken' = PoolSize
<1>1. /\ Playing(r) /\ row' = row /\ worn' = worn
      /\ Len(Plan(bag[r], list)) = Len(list)
      /\ Become(r, Put(Of(r), Plan(bag[r], list), list))
  BY DEF GiveList
<1>2. PICK n \in 0 .. Len(list) :
           /\ n = Len(list) => Put(Of(r), Plan(bag[r], list), list).ok
           /\ n < Len(list) => taken' = PoolSize
  BY <1>1, GiveTotals
<1>3. n # Len(list) /\ Len(list) \in Nat
  BY <1>2
<1> QED
  BY <1>2, <1>3

LEMMA CompleteAgrees ==
  ASSUME PoolExact, Books, NEW r \in Role, NEW q \in QuestId, Complete(r, q), Agree(r)
  PROVE  Agree(r)' \/ (taken' = PoolSize /\ GiveList(r, Award[q]))
<1>1. CASE Put(Of(r), Plan(bag[r], Award[q]), Award[q]).ok
  <2>1. log' = WithoutQuest(r, q)
    BY <1>1 DEF Complete
  <2>2. q = main[r] + 1
    BY CompleteIs
  <2> QED
    BY <2>1, <2>2, WithoutAgrees
<1>2. CASE ~ Put(Of(r), Plan(bag[r], Award[q]), Award[q]).ok
  <2>1. GiveList(r, Award[q])
    BY DEF Complete, GiveList
  <2> QED
    BY <1>2, <2>1, GiftFails, AwardsAreLists
<1> QED
  BY <1>1, <1>2

LEMMA ReceiveAgrees ==
  ASSUME PoolExact, PoolExact', Books, NEW r \in Role, NEW list \in Gift, Receive(r, list)
  PROVE  Agree(r)' \/ (taken' = PoolSize /\ GiveList(r, list))
<1>1. GiveList(r, list)
  BY DEF Receive
<1>2. CASE Put(Of(r), Plan(bag[r], list), list).ok
  <2>1. log' = BagChanged(r, bag'[r])
    BY <1>2 DEF Receive
  <2>2. Carried(r)' = bag'[r]
    BY <1>1 DEF GiveList, Carried, Playing
  <2>3. bag'[r] \in [Pos -> Place]
    BY DEF PoolExact, TypeOK
  <2> QED
    BY <2>1, <2>2, <2>3, UpdatedAgrees
<1>3. CASE ~ Put(Of(r), Plan(bag[r], list), list).ok
  BY <1>1, <1>3, GiftFails, AwardsAreLists
<1> QED
  BY <1>2, <1>3

LEMMA DiscardAgrees ==
  ASSUME PoolExact', Books, NEW r \in Role, NEW p, NEW num, Discard(r, p, num)
  PROVE  Agree(r)'
<1>1. log' = BagChanged(r, bag'[r]) /\ Drop(r, p, num)
  BY DEF Discard
<1>2. Carried(r)' = bag'[r]
  BY <1>1 DEF Drop, Carried, Playing
<1>3. bag'[r] \in [Pos -> Place]
  BY DEF PoolExact, TypeOK
<1> QED
  BY <1>1, <1>2, <1>3, UpdatedAgrees

LEMMA RearrangeAgrees ==
  ASSUME PoolExact, NEW r \in Role, Rearrange(r), Agree(r)
  PROVE  Agree(r)' \/ (\E p \in Pos : Equip(r, p)) \/ (taken' = PoolSize /\ Load(r))
<1>1. log' = log
  BY DEF Rearrange, own
<1>2. ASSUME NEW p \in Pos, NEW q \in Pos, Swap(r, p, q)
      PROVE  Agree(r)'
  <2>1. \A id : Has(Carried(r)', id) = Has(Carried(r), id)
    BY <1>2, SwapTotals
  <2> QED
    BY <1>1, <2>1, SameAgree
<1>3. ASSUME Carried(r)' = Carried(r)
      PROVE  Agree(r)'
  BY <1>1, <1>3, SameAgree
<1>4. ASSUME Equip(r, Size)
      PROVE  Agree(r)'
  <2>1. Size \notin Pos
    BY BagAssumption DEF Pos
  <2> QED
    BY <1>3, <1>4, <2>1, EquipTotals
<1>5. ASSUME Leave(r)
      PROVE  Agree(r)'
  BY <1>3, <1>5, LeaveTotals
<1>6. ASSUME Load(r)
      PROVE  Agree(r)' \/ taken' = PoolSize
  BY <1>3, <1>6, LoadTotals
<1> QED
  BY <1>2, <1>4, <1>5, <1>6 DEF Rearrange

LEMMA ActorAgrees ==
  ASSUME PoolExact, PoolExact', Books, NEW r \in Role, Acts(r), Agree(r), ~Agree(r)'
  PROVE  Parted(r)
<1>1. ASSUME NEW q \in QuestId, Accept(r, q)
      PROVE  Parted(r)
  BY <1>1, AcceptAgrees DEF Parted
<1>2. ASSUME NEW q \in QuestId, Cancel(r, q)
      PROVE  FALSE
  <2>1. log' = WithoutQuest(r, q) /\ bag' = bag /\ row' = row /\ worn' = worn
    BY <1>2 DEF Cancel, vars
  <2>2. Carried(r)' = Carried(r)
    BY <2>1, SameTotals
  <2> QED
    BY <2>1, <2>2, WithoutAgrees
<1>3. ASSUME NEW q \in QuestId, Complete(r, q)
      PROVE  Parted(r)
  BY <1>3, CompleteAgrees DEF Parted
<1>4. ASSUME NEW npc, Kill(r, npc)
      PROVE  FALSE
  BY <1>4, KillAgrees
<1>5. ASSUME NEW list \in Gift, Receive(r, list)
      PROVE  Parted(r)
  BY <1>5, ReceiveAgrees DEF Parted
<1>6. ASSUME NEW p, NEW num, Discard(r, p, num)
      PROVE  FALSE
  BY <1>6, DiscardAgrees
<1>7. ASSUME Rearrange(r)
      PROVE  Parted(r)
  BY <1>7, RearrangeAgrees DEF Parted
<1> QED
  BY <1>1, <1>2, <1>3, <1>4, <1>5, <1>6, <1>7 DEF Acts

(* The counter of a quest to collect for follows the bag, except where the *)
(* code does not tell the quests: a change of equipment, a load or a gift  *)
(* for which the pool has too little left, and the acceptance of a quest   *)
(* that initialises only half of what it counts.                           *)
THEOREM CountsFollow == QuestSpec => CountsFollowTheBag
<1> DEFINE Step == \A r \in Role : (Agree(r) /\ ~Agree(r)') => Parted(r)
<1>1. ASSUME PoolExact, PoolExact', Books, QuestNext, NEW s \in Role, Agree(s), ~Agree(s)'
      PROVE  Parted(s)
  <2>1. PICK r \in Role : Acts(r)
    BY <1>1 DEF QuestNext, Acts
  <2>2. s = r
    BY <1>1, <2>1, OthersAgree
  <2> QED
    BY <1>1, <2>1, <2>2, ActorAgrees
<1>2. PoolExact /\ PoolExact' /\ Books /\ [QuestNext]_qvars => [Step]_qvars
  <2> SUFFICES ASSUME PoolExact, PoolExact', Books, [QuestNext]_qvars, ~ UNCHANGED qvars
               PROVE  Step
    OBVIOUS
  <2> QED
    BY <1>1, Zenon
<1> QED
  BY <1>2, PoolIsExact, BooksHold, PTL DEF QuestSpec, CountsFollowTheBag, Parted
=============================================================================
