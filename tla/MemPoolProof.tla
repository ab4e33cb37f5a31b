----------------------------- MODULE MemPoolProof -----------------------------
(* Proofs about MemPool, for a pool of any size and any number of kills:   *)
(* what resume walks is what the program held, the two lists agree between *)
(* calls, and the pool keeps the promise of Allocator.                     *)
EXTENDS MemPool, FiniteSetTheorems, SequenceTheorems, WellFoundedInduction, TLAPS

(* A list of n different elements, its links forward and backward.         *)
IsChain(s, n) ==
  /\ n \in Nat /\ s \in [1 .. n -> Elem]
  /\ \A j, k \in 1 .. n : s[j] = s[k] => j = k

Linked(first, link, s, n) ==
  /\ first = IF n = 0 THEN MaxIdx ELSE s[1]
  /\ \A k \in 1 .. n : link[s[k]] = IF k = n THEN MaxIdx ELSE s[k + 1]

(* The backward links; behind them before stands for the head.             *)
Backed(L, s, n, before) ==
  /\ L.last = IF n = 0 THEN before ELSE s[n]
  /\ \A k \in 1 .. n : L.prev[s[k]] = IF k = 1 THEN before ELSE s[k - 1]

Elems(s, n) == {s[k] : k \in 1 .. n}
Cons(e, s, n) == [k \in 1 .. n + 1 |-> IF k = 1 THEN e ELSE s[k - 1]]
Without(s, n, i) == [k \in 1 .. n - 1 |-> IF k < i THEN s[k] ELSE s[k + 1]]

(* The first free element is marked as the first.                          *)
Marked(L) == L.first # MaxIdx => L.prev[L.first] = MaxIdx

(* The two lists, s in use and f free, as a call finds and leaves them     *)
(* after each of its writes.                                               *)
Idle(s, n) == held = Elems(s, n) /\ Backed(list["used"], s, n, MaxIdx) /\ Marked(list["freed"])

Creating(s, n, f, m) ==
  /\ held = Elems(s, n)
  /\ Backed(list["used"], s, n, IF done = 5 THEN cur ELSE MaxIdx)
  /\ IF done <= 1
     THEN /\ m >= 1 /\ f[1] = cur
          /\ list["freed"].prev[cur] = MaxIdx
          /\ done = 1 /\ m > 1 => list["freed"].prev[f[2]] = MaxIdx
     ELSE /\ cur \notin Elems(s, n) /\ cur \notin Elems(f, m)
          /\ Marked(list["freed"])
  /\ done >= 3 => list["used"].next[cur] = list["used"].first
  /\ done >= 4 => list["used"].prev[cur] = MaxIdx

Destroying(s, n, f, m) ==
  /\ IF done <= 1
     THEN /\ held = Elems(s, n) \ {cur}
          /\ \E i \in 1 .. n :
               /\ s[i] = cur
               /\ list["used"].prev[cur] = IF i = 1 THEN MaxIdx ELSE s[i - 1]
               /\ IF done = 0 THEN Backed(list["used"], s, n, MaxIdx)
                  ELSE Backed(list["used"], Without(s, n, i), n - 1, MaxIdx)
     ELSE /\ held = Elems(s, n)
          /\ cur \notin Elems(s, n) /\ cur \notin Elems(f, m)
          /\ Backed(list["used"], s, n, MaxIdx)
  /\ done <= 4 => Marked(list["freed"])
  /\ done >= 3 => list["freed"].next[cur] = list["freed"].first
  /\ done >= 4 => list["freed"].prev[cur] = MaxIdx

InTransit == IF up /\ op # "none" THEN {cur} ELSE {}

Shape(s, n, f, m) ==
  /\ IsChain(s, n) /\ Linked(list["used"].first, list["used"].next, s, n)
  /\ IsChain(f, m) /\ Linked(list["freed"].first, list["freed"].next, f, m)
  /\ Elems(s, n) \cap Elems(f, m) = {}
  /\ Cardinality(Elem \ (Elems(s, n) \cup Elems(f, m) \cup InTransit)) <= kills
  /\ op = "none" => Idle(s, n)
  /\ op = "create" => Creating(s, n, f, m)
  /\ op = "destroy" => Destroying(s, n, f, m)

Single == \A e \in Elem : holders[e] <= 1

-----------------------------------------------------------------------------
(* The walk along the links of a chain is the chain.                       *)
LEMMA LeastNumber ==
  ASSUME NEW T \in SUBSET Nat, T # {}
  PROVE  \E m \in T : \A n \in T : m <= n
<1>1. PICK m \in T : \A n \in T : ~(<<n, m>> \in OpToRel(<, Nat))
  BY WFMin, NatLessThanWellFounded, Zenon
<1>2. \A n \in T : ~(n < m)
  BY <1>1, Zenon DEF OpToRel
<1> QED
  BY <1>2

LEMMA ElemFacts ==
  /\ N \in Nat /\ N # 0 /\ MaxIdx = N /\ MaxIdx \notin Elem
  /\ Elem \subseteq Index /\ MaxIdx \in Index /\ 0 \in Elem
  /\ \A i \in Index : i # MaxIdx => i \in Elem
  /\ IsFiniteSet(Elem) /\ Cardinality(Elem) = N
<1>1. N \in Nat /\ N # 0 /\ N - 1 \in Nat
  BY NAssumption
<1>2. IsFiniteSet(0 .. N - 1) /\ Cardinality(0 .. N - 1) = N
  <2>1. 0 \in Int /\ N - 1 \in Int /\ ~ 0 > N - 1 /\ (N - 1) - 0 + 1 = N
    BY <1>1
  <2> QED
    BY <2>1, FS_Interval
<1> QED
  BY <1>1, <1>2 DEF Elem, Index, MaxIdx

LEMMA ChainLength ==
  ASSUME NEW s, NEW n, IsChain(s, n)
  PROVE  n \in Nat /\ n <= N
<1>1. n \in Nat /\ N \in Nat
  BY NAssumption DEF IsChain
<1>2. IsFiniteSet(1 .. n) /\ Cardinality(1 .. n) = n
  BY <1>1, FS_Interval
<1>3. IsFiniteSet(Elem) /\ Cardinality(Elem) = N
  BY ElemFacts
<1>4. CASE N < n
  <2>1. s \in [1 .. n -> Elem] /\ Cardinality(Elem) < Cardinality(1 .. n)
    BY <1>2, <1>3, <1>4 DEF IsChain
  <2>2. \E x, y \in 1 .. n : x # y /\ s[x] = s[y]
    BY <1>2, <1>3, <2>1, FS_PigeonHole
  <2> QED
    BY <2>2 DEF IsChain
<1> QED
  BY <1>1, <1>4

LEMMA WalkIs ==
  ASSUME NEW s, NEW n, IsChain(s, n), NEW first, NEW link, Linked(first, link, s, n)
  PROVE  WalkOf(first, link) = s
<1>1. n \in Nat /\ n <= N /\ N \in Nat /\ N + 1 \in Nat /\ n < N + 1 /\ s \in [1 .. n -> Elem]
  <2>1. n \in Nat /\ n <= N
    BY ChainLength
  <2>2. N \in Nat /\ s \in [1 .. n -> Elem]
    BY NAssumption DEF IsChain
  <2> QED
    BY <2>1, <2>2
<1>2. MaxIdx \notin Elem
  BY ElemFacts
<1> DEFINE h == [k \in 1 .. N + 1 |-> IF k <= n THEN s[k] ELSE MaxIdx]
           Next1(g) == [k \in 1 .. N + 1 |->
                          IF k = 1 THEN first ELSE IF g[k - 1] = MaxIdx THEN MaxIdx ELSE link[g[k - 1]]]
           at == CHOOSE g : g = Next1(g)
<1>3. \A k \in 1 .. N + 1 : h[k] = IF k <= n THEN s[k] ELSE MaxIdx
  OBVIOUS
<1>4. \A k \in 1 .. N + 1 : k # 1 => k - 1 \in 1 .. N + 1 /\ k - 1 < k
  BY <1>1
<1>5. h = Next1(h)
  <2>1. ASSUME NEW k \in 1 .. N + 1
        PROVE  h[k] = IF k = 1 THEN first ELSE IF h[k - 1] = MaxIdx THEN MaxIdx ELSE link[h[k - 1]]
    <3>1. CASE k = 1
      BY <1>1, <1>3, <3>1 DEF Linked
    <3>2. CASE k # 1 /\ k - 1 <= n
      <4>1. k - 1 \in 1 .. n /\ k - 1 \in 1 .. N + 1 /\ (k - 1) + 1 = k
        BY <1>1, <3>2
      <4>2. h[k - 1] = s[k - 1] /\ s[k - 1] \in Elem
        BY <1>1, <1>3, <4>1
      <4>3. link[s[k - 1]] = IF k - 1 = n THEN MaxIdx ELSE s[k]
        BY <4>1 DEF Linked
      <4>4. h[k] = IF k - 1 = n THEN MaxIdx ELSE s[k]
        BY <1>1, <1>3, <3>2
      <4> QED
        BY <1>2, <3>2, <4>2, <4>3, <4>4
    <3>3. CASE k # 1 /\ ~ k - 1 <= n
      <4>1. h[k] = MaxIdx /\ h[k - 1] = MaxIdx
        BY <1>1, <1>3, <1>4, <3>3
      <4> QED
        BY <3>3, <4>1
    <3> QED
      BY <3>1, <3>2, <3>3
  <2>2. h = [k \in 1 .. N + 1 |-> h[k]]
    OBVIOUS
  <2> HIDE DEF h
  <2> QED
    BY <2>1, <2>2
<1> HIDE DEF h
<1>6. at = Next1(at)
  <2> HIDE DEF Next1
  <2>1. \E g : g = Next1(g)
    BY <1>5
  <2> QED
    BY <2>1, Zenon
<1> HIDE DEF at
<1>7. \A k \in 1 .. N + 1 :
        at[k] = IF k = 1 THEN first ELSE IF at[k - 1] = MaxIdx THEN MaxIdx ELSE link[at[k - 1]]
  BY <1>6
<1>8. \A k \in 1 .. N + 1 :
        h[k] = IF k = 1 THEN first ELSE IF h[k - 1] = MaxIdx THEN MaxIdx ELSE link[h[k - 1]]
  BY <1>5
<1> HIDE DEF Next1
<1>9. \A k \in 1 .. N + 1 : at[k] = h[k]
  <2> DEFINE T == {k \in 1 .. N + 1 : at[k] # h[k]}
  <2>1. ASSUME T # {}
        PROVE  FALSE
    <3>1. T \in SUBSET Nat
      OBVIOUS
    <3>2. PICK k \in T : \A j \in T : k <= j
      BY <2>1, <3>1, LeastNumber
    <3>3. k \in 1 .. N + 1 /\ at[k] # h[k]
      OBVIOUS
    <3>4. k # 1
      BY <1>7, <1>8, <3>3
    <3>5. k - 1 \in 1 .. N + 1 /\ k - 1 < k
      BY <1>4, <3>3, <3>4
    <3>6. at[k - 1] = h[k - 1]
      BY <3>2, <3>3, <3>5
    <3> QED
      BY <1>7, <1>8, <3>3, <3>4, <3>6
  <2> QED
    BY <2>1
<1>10. {k \in 1 .. N + 1 : at[k] # MaxIdx} = 1 .. n
  <2>1. \A k \in 1 .. N + 1 : at[k] # MaxIdx <=> k <= n
    BY <1>1, <1>2, <1>3, <1>9
  <2>2. \A k \in 1 .. n : k \in 1 .. N + 1 /\ k <= n
    BY <1>1
  <2>3. \A k \in 1 .. N + 1 : k <= n => k \in 1 .. n
    BY <1>1
  <2> QED
    BY <2>1, <2>2, <2>3
<1>11. Cardinality(1 .. n) = n
  BY <1>1, FS_Interval
<1>12. [k \in 1 .. n |-> at[k]] = s
  <2>1. \A k \in 1 .. n : k \in 1 .. N + 1 /\ k <= n
    BY <1>1
  <2>2. \A k \in 1 .. n : at[k] = s[k]
    BY <1>3, <1>9, <2>1
  <2>3. [k \in 1 .. n |-> at[k]] = [k \in 1 .. n |-> s[k]]
    BY <2>2
  <2> QED
    BY <1>1, <2>3
<1>13. WalkOf(first, link) = [k \in 1 .. Cardinality({j \in 1 .. N + 1 : at[j] # MaxIdx}) |-> at[k]]
  BY DEF WalkOf, at, Next1
<1> QED
  BY <1>10, <1>11, <1>12, <1>13

LEMMA ListIs ==
  ASSUME NEW L, NEW s, NEW n, IsChain(s, n), Linked(L.first, L.next, s, n)
  PROVE  /\ Walk(L) = s /\ Ends(L) /\ Members(L) = Elems(s, n)
         /\ DOMAIN s = 1 .. n /\ Len(s) = n
<1>1. Walk(L) = s
  BY WalkIs DEF Walk
<1>2. n \in Nat /\ s \in [1 .. n -> Elem]
  BY DEF IsChain
<1>3. n <= N
  BY ChainLength
<1>4. s \in Seq(Elem) /\ DOMAIN s = 1 .. n
  BY <1>2
<1>5. Len(s) = n
  BY <1>2, <1>4
<1> QED
  BY <1>1, <1>3, <1>4, <1>5 DEF Ends, Members, Elems

(* Read from its end, a chain with its backward links is the same list.    *)
LEMMA MirrorIs ==
  ASSUME NEW L, NEW s, NEW n, IsChain(s, n), Linked(L.first, L.next, s, n), Backed(L, s, n, MaxIdx)
  PROVE  Mirrored(L)
<1> DEFINE b == [k \in 1 .. n |-> s[n + 1 - k]]
<1>1. n \in Nat /\ s \in [1 .. n -> Elem] /\ \A j, k \in 1 .. n : s[j] = s[k] => j = k
  BY DEF IsChain
<1>2. \A k \in 1 .. n : n + 1 - k \in 1 .. n /\ n + 1 - (n + 1 - k) = k
  BY <1>1
<1>3. \A k \in 1 .. n : b[k] = s[n + 1 - k]
  OBVIOUS
<1>4. b \in [1 .. n -> Elem]
  BY <1>1, <1>2
<1> HIDE DEF b
<1>5. IsChain(b, n)
  <2>1. ASSUME NEW j \in 1 .. n, NEW k \in 1 .. n, b[j] = b[k]
        PROVE  j = k
    <3>1. n + 1 - j = n + 1 - k
      BY <1>1, <1>2, <1>3, <2>1
    <3> QED
      BY <1>1, <3>1
  <2> QED
    BY <1>1, <1>4, <2>1 DEF IsChain
<1>6. Linked(L.last, L.prev, b, n)
  <2>1. L.last = IF n = 0 THEN MaxIdx ELSE b[1]
    <3>1. n # 0 => 1 \in 1 .. n /\ n + 1 - 1 = n
      BY <1>1
    <3> QED
      BY <1>3, <3>1 DEF Backed
  <2>2. ASSUME NEW k \in 1 .. n
        PROVE  L.prev[b[k]] = IF k = n THEN MaxIdx ELSE b[k + 1]
    <3>1. n + 1 - k \in 1 .. n /\ b[k] = s[n + 1 - k]
      BY <1>2, <1>3
    <3>2. L.prev[b[k]] = IF n + 1 - k = 1 THEN MaxIdx ELSE s[(n + 1 - k) - 1]
      BY <3>1 DEF Backed
    <3>3. n + 1 - k = 1 <=> k = n
      BY <1>1
    <3>4. k # n => k + 1 \in 1 .. n /\ (n + 1 - k) - 1 = n + 1 - (k + 1)
      BY <1>1
    <3> QED
      BY <1>3, <3>2, <3>3, <3>4
  <2> QED
    BY <2>1, <2>2 DEF Linked
<1>7. WalkOf(L.last, L.prev) = b
  BY <1>5, <1>6, WalkIs
<1>8. Walk(L) = s /\ DOMAIN b = 1 .. n /\ Len(b) = n
  <2>1. Walk(L) = s
    BY ListIs
  <2>2. DOMAIN b = 1 .. n
    BY <1>4
  <2>3. Len(b) = n
    BY <1>1, <1>4
  <2> QED
    BY <2>1, <2>2, <2>3
<1>9. s = [k \in DOMAIN b |-> b[Len(b) + 1 - k]]
  <2>1. \A k \in 1 .. n : b[n + 1 - k] = s[k]
    BY <1>2, <1>3
  <2>2. s = [k \in 1 .. n |-> b[n + 1 - k]]
    BY <1>1, <2>1
  <2> QED
    BY <1>8, <2>2
<1> QED
  BY <1>7, <1>8, <1>9 DEF Mirrored

-----------------------------------------------------------------------------
(* What the macros of game_queue.h write.                                  *)
LEMMA RemoveWrites ==
  ASSUME NEW L \in List, NEW e \in Elem
  PROVE  /\ Remove1(L, e) \in List
         /\ Remove1(L, e).first = L.first /\ Remove1(L, e).next = L.next
         /\ Remove1(L, e).last = IF L.next[e] = MaxIdx THEN L.prev[e] ELSE L.last
         /\ Remove1(L, e).prev = IF L.next[e] = MaxIdx THEN L.prev ELSE [L.prev EXCEPT ![L.next[e]] = L.prev[e]]
         /\ Remove2(L, e) \in List
         /\ Remove2(L, e).last = L.last /\ Remove2(L, e).prev = L.prev
         /\ Remove2(L, e).first = IF L.prev[e] = MaxIdx THEN L.next[e] ELSE L.first
         /\ Remove2(L, e).next = IF L.prev[e] = MaxIdx THEN L.next ELSE [L.next EXCEPT ![L.prev[e]] = L.next[e]]
BY DEF List, Remove1, Remove2

LEMMA InsertWrites ==
  ASSUME NEW L \in List, NEW e \in Elem
  PROVE  /\ Insert1(L, e) \in List
         /\ Insert1(L, e).first = L.first /\ Insert1(L, e).last = L.last /\ Insert1(L, e).prev = L.prev
         /\ Insert1(L, e).next = [L.next EXCEPT ![e] = L.first]
         /\ Insert2(L, e) \in List
         /\ Insert2(L, e).first = L.first /\ Insert2(L, e).last = L.last /\ Insert2(L, e).next = L.next
         /\ Insert2(L, e).prev = [L.prev EXCEPT ![e] = MaxIdx]
         /\ Insert3(L, e) \in List
         /\ Insert3(L, e).first = L.first /\ Insert3(L, e).next = L.next
         /\ Insert3(L, e).last = IF L.last = MaxIdx THEN e ELSE L.last
         /\ Insert3(L, e).prev = IF L.last = MaxIdx THEN L.prev ELSE [L.prev EXCEPT ![L.first] = e]
         /\ Insert4(L, e) \in List
         /\ Insert4(L, e).first = e /\ Insert4(L, e).last = L.last
         /\ Insert4(L, e).next = L.next /\ Insert4(L, e).prev = L.prev
<1>1. MaxIdx \in Index /\ e \in Index
  BY ElemFacts
<1> QED
  BY <1>1 DEF List, Insert1, Insert2, Insert3, Insert4

-----------------------------------------------------------------------------
(* A chain less an element, and with one more at its head.                 *)
LEMMA WithoutIs ==
  ASSUME NEW s, NEW n, IsChain(s, n), NEW i \in 1 .. n
  PROVE  /\ IsChain(Without(s, n, i), n - 1)
         /\ Elems(Without(s, n, i), n - 1) = Elems(s, n) \ {s[i]}
         /\ \A k \in 1 .. n - 1 : /\ Without(s, n, i)[k] = IF k < i THEN s[k] ELSE s[k + 1]
                                  /\ k \in 1 .. n /\ k + 1 \in 1 .. n
<1> DEFINE w == Without(s, n, i)
<1>1. n \in Nat /\ n - 1 \in Nat /\ s \in [1 .. n -> Elem] /\ \A j, k \in 1 .. n : s[j] = s[k] => j = k
  BY DEF IsChain
<1>2. \A k \in 1 .. n - 1 : k \in 1 .. n /\ k + 1 \in 1 .. n
  BY <1>1
<1>3. \A k \in 1 .. n - 1 : w[k] = IF k < i THEN s[k] ELSE s[k + 1]
  BY DEF Without
<1>4. w \in [1 .. n - 1 -> Elem]
  BY <1>1, <1>2 DEF Without
<1> HIDE DEF w
<1>5. ASSUME NEW j \in 1 .. n - 1, NEW k \in 1 .. n - 1, w[j] = w[k]
      PROVE  j = k
  <2>1. CASE j < i /\ k < i
    BY <1>1, <1>2, <1>3, <1>5, <2>1
  <2>2. CASE ~ j < i /\ ~ k < i
    <3>1. j + 1 = k + 1
      BY <1>1, <1>2, <1>3, <1>5, <2>2
    <3> QED
      BY <3>1
  <2>3. CASE j < i /\ ~ k < i
    <3>1. j = k + 1
      BY <1>1, <1>2, <1>3, <1>5, <2>3
    <3> QED
      BY <2>3, <3>1
  <2>4. CASE ~ j < i /\ k < i
    <3>1. j + 1 = k
      BY <1>1, <1>2, <1>3, <1>5, <2>4
    <3> QED
      BY <2>4, <3>1
  <2> QED
    BY <2>1, <2>2, <2>3, <2>4
<1>6. \A k \in 1 .. n - 1 : w[k] \in Elems(s, n) /\ w[k] # s[i]
  <2> SUFFICES ASSUME NEW k \in 1 .. n - 1
               PROVE  w[k] \in Elems(s, n) /\ w[k] # s[i]
    OBVIOUS
  <2>1. k \in 1 .. n /\ k + 1 \in 1 .. n
    BY <1>2
  <2>2. k < i => k # i
    OBVIOUS
  <2>3. ~ k < i => k + 1 # i
    OBVIOUS
  <2> QED
    BY <1>1, <1>3, <2>1, <2>2, <2>3 DEF Elems
<1>7. \A k \in 1 .. n : k # i => \E j \in 1 .. n - 1 : w[j] = s[k]
  <2> SUFFICES ASSUME NEW k \in 1 .. n, k # i
               PROVE  \E j \in 1 .. n - 1 : w[j] = s[k]
    OBVIOUS
  <2>1. CASE k < i
    <3>1. k \in 1 .. n - 1
      BY <1>1, <2>1
    <3> QED
      BY <1>3, <2>1, <3>1
  <2>2. CASE ~ k < i
    <3>1. k - 1 \in 1 .. n - 1 /\ ~ k - 1 < i /\ (k - 1) + 1 = k
      BY <1>1, <2>2
    <3> QED
      BY <1>3, <3>1
  <2> QED
    BY <2>1, <2>2
<1>8. Elems(w, n - 1) = Elems(s, n) \ {s[i]}
  BY <1>6, <1>7 DEF Elems
<1>9. IsChain(w, n - 1)
  BY <1>1, <1>4, <1>5 DEF IsChain
<1> QED
  BY <1>2, <1>3, <1>8, <1>9 DEF w

LEMMA WithoutLinked ==
  ASSUME NEW s, NEW n, IsChain(s, n), NEW i \in 1 .. n,
         NEW first, NEW next \in [Elem -> Index], Linked(first, next, s, n),
         NEW p, p = IF i = 1 THEN MaxIdx ELSE s[i - 1]
  PROVE  Linked(IF p = MaxIdx THEN next[s[i]] ELSE first,
                IF p = MaxIdx THEN next ELSE [next EXCEPT ![p] = next[s[i]]],
                Without(s, n, i), n - 1)
<1> DEFINE w == Without(s, n, i)
<1>1. n \in Nat /\ s \in [1 .. n -> Elem] /\ \A j, k \in 1 .. n : s[j] = s[k] => j = k
  BY DEF IsChain
<1>2. \A k \in 1 .. n - 1 : /\ w[k] = IF k < i THEN s[k] ELSE s[k + 1]
                            /\ k \in 1 .. n /\ k + 1 \in 1 .. n
  BY WithoutIs
<1>3. MaxIdx \notin Elem
  BY ElemFacts
<1>4. first = s[1] /\ \A k \in 1 .. n : next[s[k]] = IF k = n THEN MaxIdx ELSE s[k + 1]
  BY <1>1 DEF Linked
<1> HIDE DEF w
<1>5. CASE i = 1
  <2>1. p = MaxIdx /\ next[s[i]] = IF n - 1 = 0 THEN MaxIdx ELSE w[1]
    <3>1. n - 1 # 0 => 1 \in 1 .. n - 1 /\ w[1] = s[2]
      BY <1>1, <1>2, <1>5
    <3> QED
      BY <1>1, <1>4, <1>5, <3>1
  <2>2. ASSUME NEW k \in 1 .. n - 1
        PROVE  next[w[k]] = IF k = n - 1 THEN MaxIdx ELSE w[k + 1]
    <3>1. w[k] = s[k + 1] /\ k + 1 \in 1 .. n /\ (k + 1 = n <=> k = n - 1)
      BY <1>1, <1>2, <1>5
    <3>2. k # n - 1 => k + 1 \in 1 .. n - 1 /\ w[k + 1] = s[(k + 1) + 1]
      BY <1>1, <1>2, <1>5
    <3> QED
      BY <1>4, <3>1, <3>2
  <2> QED
    BY <2>1, <2>2 DEF Linked, w
<1>6. CASE i # 1
  <2>1. i - 1 \in 1 .. n /\ p = s[i - 1] /\ p # MaxIdx /\ p \in Elem /\ i - 1 \in 1 .. n - 1
    BY <1>1, <1>3, <1>6
  <2>2. \A k \in 1 .. n : s[k] = p <=> k = i - 1
    BY <1>1, <2>1
  <2>3. first = IF n - 1 = 0 THEN MaxIdx ELSE w[1]
    <3>1. n - 1 # 0 /\ 1 \in 1 .. n - 1 /\ 1 < i
      BY <1>1, <1>6, <2>1
    <3> QED
      BY <1>2, <1>4, <3>1
  <2>4. ASSUME NEW k \in 1 .. n - 1
        PROVE  [next EXCEPT ![p] = next[s[i]]][w[k]] = IF k = n - 1 THEN MaxIdx ELSE w[k + 1]
    <3>1. k \in 1 .. n /\ k + 1 \in 1 .. n /\ w[k] = IF k < i THEN s[k] ELSE s[k + 1]
      BY <1>2
    <3>2. k # n - 1 => k + 1 \in 1 .. n - 1 /\ w[k + 1] = IF k + 1 < i THEN s[k + 1] ELSE s[(k + 1) + 1]
      BY <1>1, <1>2
    <3>3. CASE k = i - 1
      <4>1. w[k] = p /\ k + 1 = i /\ ~ k + 1 < i
        BY <1>2, <2>1, <3>3
      <4>2. [next EXCEPT ![p] = next[s[i]]][p] = next[s[i]]
        BY <2>1
      <4>3. next[s[i]] = IF i = n THEN MaxIdx ELSE s[i + 1]
        BY <1>4
      <4>4. k = n - 1 <=> i = n
        BY <1>1, <3>3
      <4> QED
        BY <3>2, <4>1, <4>2, <4>3, <4>4
    <3>4. CASE k # i - 1 /\ k < i
      <4>1. w[k] = s[k] /\ s[k] # p /\ k # n /\ k + 1 < i /\ k # n - 1
        BY <1>1, <2>1, <2>2, <3>1, <3>4
      <4>2. [next EXCEPT ![p] = next[s[i]]][s[k]] = next[s[k]]
        BY <1>1, <3>1, <4>1
      <4> QED
        BY <1>4, <3>1, <3>2, <4>1, <4>2
    <3>5. CASE ~ k < i
      <4>1. w[k] = s[k + 1] /\ s[k + 1] # p /\ ~ k + 1 < i /\ (k + 1 = n <=> k = n - 1)
        BY <1>1, <2>1, <2>2, <3>1, <3>5
      <4>2. [next EXCEPT ![p] = next[s[i]]][s[k + 1]] = next[s[k + 1]]
        BY <1>1, <3>1, <4>1
      <4> QED
        BY <1>4, <3>1, <3>2, <4>1, <4>2
    <3> QED
      BY <3>3, <3>4, <3>5
  <2> QED
    BY <2>1, <2>3, <2>4 DEF Linked, w
<1> QED
  BY <1>5, <1>6

LEMMA WithoutBacked ==
  ASSUME NEW s, NEW n, IsChain(s, n), NEW i \in 1 .. n,
         NEW L \in List, Linked(L.first, L.next, s, n), Backed(L, s, n, MaxIdx)
  PROVE  Backed(Remove1(L, s[i]), Without(s, n, i), n - 1, MaxIdx)
<1> DEFINE w == Without(s, n, i)
           R == Remove1(L, s[i])
<1>1. n \in Nat /\ s \in [1 .. n -> Elem] /\ \A j, k \in 1 .. n : s[j] = s[k] => j = k
  BY DEF IsChain
<1>2. \A k \in 1 .. n - 1 : /\ w[k] = IF k < i THEN s[k] ELSE s[k + 1]
                            /\ k \in 1 .. n /\ k + 1 \in 1 .. n
  BY WithoutIs
<1>3. MaxIdx \notin Elem
  BY ElemFacts
<1>4. /\ L.next[s[i]] = IF i = n THEN MaxIdx ELSE s[i + 1]
      /\ L.last = s[n]
      /\ \A k \in 1 .. n : L.prev[s[k]] = IF k = 1 THEN MaxIdx ELSE s[k - 1]
  BY <1>1 DEF Linked, Backed
<1>5. s[i] \in Elem /\ L.prev \in [Elem -> Index]
  BY <1>1 DEF List
<1>6. /\ R.last = IF L.next[s[i]] = MaxIdx THEN L.prev[s[i]] ELSE L.last
      /\ R.prev = IF L.next[s[i]] = MaxIdx THEN L.prev ELSE [L.prev EXCEPT ![L.next[s[i]]] = L.prev[s[i]]]
  BY <1>5, RemoveWrites
<1> HIDE DEF w, R
<1>7. CASE i = n
  <2>1. R.last = (IF n = 1 THEN MaxIdx ELSE s[n - 1]) /\ R.prev = L.prev
    BY <1>4, <1>6, <1>7
  <2>2. R.last = IF n - 1 = 0 THEN MaxIdx ELSE w[n - 1]
    <3>1. n - 1 # 0 => n - 1 \in 1 .. n - 1 /\ n - 1 < i
      BY <1>1, <1>7
    <3>2. n = 1 <=> n - 1 = 0
      BY <1>1
    <3> QED
      BY <1>2, <2>1, <3>1, <3>2
  <2>3. ASSUME NEW k \in 1 .. n - 1
        PROVE  R.prev[w[k]] = IF k = 1 THEN MaxIdx ELSE w[k - 1]
    <3>1. k < i /\ w[k] = s[k] /\ k \in 1 .. n
      BY <1>1, <1>2, <1>7
    <3>2. k # 1 => k - 1 \in 1 .. n - 1 /\ k - 1 < i
      BY <1>1, <1>7
    <3> QED
      BY <1>2, <1>4, <2>1, <3>1, <3>2
  <2> QED
    BY <2>2, <2>3 DEF Backed, w, R
<1>8. CASE i # n
  <2> DEFINE x == s[i + 1]
  <2>1. i + 1 \in 1 .. n /\ x \in Elem /\ x # MaxIdx /\ n - 1 \in 1 .. n - 1 /\ ~ n - 1 < i /\ (n - 1) + 1 = n
    BY <1>1, <1>3, <1>8
  <2>2. R.last = s[n] /\ R.prev = [L.prev EXCEPT ![x] = L.prev[s[i]]]
    BY <1>4, <1>6, <1>8, <2>1
  <2>3. R.last = IF n - 1 = 0 THEN MaxIdx ELSE w[n - 1]
    BY <1>2, <2>1, <2>2
  <2>4. \A k \in 1 .. n : s[k] = x <=> k = i + 1
    BY <1>1, <2>1
  <2> HIDE DEF x
  <2>5. ASSUME NEW k \in 1 .. n - 1
        PROVE  R.prev[w[k]] = IF k = 1 THEN MaxIdx ELSE w[k - 1]
    <3>1. k \in 1 .. n /\ k + 1 \in 1 .. n /\ w[k] = IF k < i THEN s[k] ELSE s[k + 1]
      BY <1>2
    <3>2. k # 1 => k - 1 \in 1 .. n - 1 /\ w[k - 1] = IF k - 1 < i THEN s[k - 1] ELSE s[(k - 1) + 1]
      <4>1. k # 1 => k - 1 \in 1 .. n - 1
        BY <1>1
      <4> QED
        BY <1>2, <4>1
    <3>3. CASE k = i
      <4>1. w[k] = x
        BY <2>1, <2>4, <3>1, <3>3
      <4>2. R.prev[x] = L.prev[s[i]]
        BY <1>5, <2>1, <2>2
      <4>3. k - 1 < i
        BY <3>3
      <4> QED
        BY <1>4, <3>2, <3>3, <4>1, <4>2, <4>3
    <3>4. CASE k < i
      <4>1. w[k] = s[k] /\ s[k] # x /\ k - 1 < i
        BY <2>4, <3>1, <3>4
      <4>2. R.prev[s[k]] = L.prev[s[k]]
        BY <1>1, <1>5, <2>2, <3>1, <4>1
      <4> QED
        BY <1>4, <3>1, <3>2, <4>1, <4>2
    <3>5. CASE i < k
      <4>1. w[k] = s[k + 1] /\ s[k + 1] # x /\ ~ k - 1 < i /\ k # 1 /\ (k - 1) + 1 = k /\ k + 1 # 1 /\ (k + 1) - 1 = k
        BY <2>4, <3>1, <3>5
      <4>2. R.prev[s[k + 1]] = L.prev[s[k + 1]]
        BY <1>1, <1>5, <2>2, <3>1, <4>1
      <4> QED
        BY <1>4, <3>1, <3>2, <4>1, <4>2
    <3> QED
      BY <3>3, <3>4, <3>5
  <2> QED
    BY <2>3, <2>5 DEF Backed, w, R
<1> QED
  BY <1>7, <1>8

LEMMA KeptLinks ==
  ASSUME NEW s, NEW n, IsChain(s, n), NEW link \in [Elem -> Index], NEW e, e \notin Elems(s, n), NEW x
  PROVE  \A k \in 1 .. n : [link EXCEPT ![e] = x][s[k]] = link[s[k]]
BY DEF IsChain, Elems

LEMMA ConsIs ==
  ASSUME NEW s, NEW n, IsChain(s, n), NEW e \in Elem, e \notin Elems(s, n)
  PROVE  /\ IsChain(Cons(e, s, n), n + 1)
         /\ Elems(Cons(e, s, n), n + 1) = Elems(s, n) \cup {e}
         /\ \A k \in 1 .. n + 1 : Cons(e, s, n)[k] = IF k = 1 THEN e ELSE s[k - 1]
<1> DEFINE c == Cons(e, s, n)
<1>1. n \in Nat /\ s \in [1 .. n -> Elem] /\ \A j, k \in 1 .. n : s[j] = s[k] => j = k
  BY DEF IsChain
<1>2. \A k \in 1 .. n + 1 : c[k] = IF k = 1 THEN e ELSE s[k - 1]
  BY DEF Cons
<1>3. \A k \in 1 .. n + 1 : k # 1 => k - 1 \in 1 .. n
  BY <1>1
<1>4. \A k \in 1 .. n : k + 1 \in 1 .. n + 1 /\ k + 1 # 1 /\ (k + 1) - 1 = k
  BY <1>1
<1>5. c \in [1 .. n + 1 -> Elem]
  BY <1>1, <1>3 DEF Cons
<1> HIDE DEF c
<1>6. \A k \in 1 .. n : s[k] # e
  BY DEF Elems
<1>7. ASSUME NEW j \in 1 .. n + 1, NEW k \in 1 .. n + 1, c[j] = c[k]
      PROVE  j = k
  <2>1. CASE j = 1 \/ k = 1
    BY <1>2, <1>3, <1>6, <1>7, <2>1
  <2>2. CASE j # 1 /\ k # 1
    <3>1. j - 1 = k - 1
      BY <1>1, <1>2, <1>3, <1>7, <2>2
    <3> QED
      BY <3>1
  <2> QED
    BY <2>1, <2>2
<1>8. Elems(c, n + 1) = Elems(s, n) \cup {e}
  <2>1. \A k \in 1 .. n + 1 : c[k] \in Elems(s, n) \cup {e}
    BY <1>2, <1>3 DEF Elems
  <2>2. \A k \in 1 .. n : c[k + 1] = s[k] /\ k + 1 \in 1 .. n + 1
    BY <1>2, <1>4
  <2>3. c[1] = e /\ 1 \in 1 .. n + 1
    BY <1>1, <1>2
  <2> QED
    BY <2>1, <2>2, <2>3 DEF Elems
<1>9. IsChain(c, n + 1)
  BY <1>1, <1>5, <1>7 DEF IsChain
<1> QED
  BY <1>2, <1>8, <1>9 DEF c

LEMMA ConsLinked ==
  ASSUME NEW s, NEW n, IsChain(s, n), NEW e \in Elem, e \notin Elems(s, n),
         NEW first, NEW next, Linked(first, next, s, n), next[e] = first
  PROVE  Linked(e, next, Cons(e, s, n), n + 1)
<1> DEFINE c == Cons(e, s, n)
<1>1. n \in Nat
  BY DEF IsChain
<1>2. \A k \in 1 .. n + 1 : c[k] = IF k = 1 THEN e ELSE s[k - 1]
  BY ConsIs
<1> HIDE DEF c
<1>3. ASSUME NEW k \in 1 .. n + 1
      PROVE  next[c[k]] = IF k = n + 1 THEN MaxIdx ELSE c[k + 1]
  <2>1. k # n + 1 => k + 1 \in 1 .. n + 1 /\ k + 1 # 1 /\ (k + 1) - 1 = k /\ k \in 1 .. n
    BY <1>1
  <2>2. CASE k = 1
    <3>1. 1 = n + 1 <=> n = 0
      BY <1>1
    <3> QED
      BY <1>2, <2>1, <2>2, <3>1 DEF Linked
  <2>3. CASE k # 1
    <3>1. k - 1 \in 1 .. n /\ (k - 1 = n <=> k = n + 1) /\ (k - 1) + 1 = k
      BY <1>1, <2>3
    <3>2. c[k] = s[k - 1]
      BY <1>2, <2>3
    <3>3. next[s[k - 1]] = IF k - 1 = n THEN MaxIdx ELSE s[k]
      BY <3>1 DEF Linked
    <3> QED
      BY <1>2, <2>1, <3>1, <3>2, <3>3
  <2> QED
    BY <2>2, <2>3
<1>4. n + 1 # 0 /\ c[1] = e
  BY <1>1, <1>2
<1> QED
  BY <1>3, <1>4 DEF Linked, c

LEMMA ConsBacked ==
  ASSUME NEW s, NEW n, IsChain(s, n), NEW e \in Elem, e \notin Elems(s, n),
         NEW L \in List, Backed(L, s, n, e), L.prev[e] = MaxIdx
  PROVE  Backed(Insert4(L, e), Cons(e, s, n), n + 1, MaxIdx)
<1> DEFINE c == Cons(e, s, n)
           R == Insert4(L, e)
<1>1. n \in Nat
  BY DEF IsChain
<1>2. \A k \in 1 .. n + 1 : c[k] = IF k = 1 THEN e ELSE s[k - 1]
  BY ConsIs
<1>3. R.last = L.last /\ R.prev = L.prev
  BY InsertWrites
<1> HIDE DEF c, R
<1>4. R.last = IF n + 1 = 0 THEN MaxIdx ELSE c[n + 1]
  <2>1. n + 1 # 0 /\ n + 1 \in 1 .. n + 1 /\ (n + 1 = 1 <=> n = 0) /\ (n + 1) - 1 = n
    BY <1>1
  <2> QED
    BY <1>2, <1>3, <2>1 DEF Backed
<1>5. ASSUME NEW k \in 1 .. n + 1
      PROVE  R.prev[c[k]] = IF k = 1 THEN MaxIdx ELSE c[k - 1]
  <2>1. CASE k = 1
    BY <1>2, <1>3, <2>1
  <2>2. CASE k # 1
    <3>1. k - 1 \in 1 .. n /\ k - 1 \in 1 .. n + 1
      BY <1>1, <2>2
    <3>2. c[k] = s[k - 1] /\ c[k - 1] = IF k - 1 = 1 THEN e ELSE s[(k - 1) - 1]
      BY <1>2, <2>2, <3>1
    <3>3. L.prev[s[k - 1]] = IF k - 1 = 1 THEN e ELSE s[(k - 1) - 1]
      BY <3>1 DEF Backed
    <3> QED
      BY <1>3, <2>2, <3>2, <3>3
  <2> QED
    BY <2>1, <2>2
<1> QED
  BY <1>4, <1>5 DEF Backed, c, R

LEMMA InsertBacked ==
  ASSUME NEW s, NEW n, IsChain(s, n), NEW e \in Elem,
         NEW L \in List, Linked(L.first, L.next, s, n), Backed(L, s, n, MaxIdx)
  PROVE  Backed(Insert3(L, e), s, n, e)
<1>1. n \in Nat /\ s \in [1 .. n -> Elem] /\ \A j, k \in 1 .. n : s[j] = s[k] => j = k
  BY DEF IsChain
<1>2. /\ Insert3(L, e).last = IF L.last = MaxIdx THEN e ELSE L.last
      /\ Insert3(L, e).prev = IF L.last = MaxIdx THEN L.prev ELSE [L.prev EXCEPT ![L.first] = e]
  BY InsertWrites
<1>3. MaxIdx \notin Elem
  BY ElemFacts
<1>4. CASE n = 0
  BY <1>1, <1>2, <1>4 DEF Backed
<1>5. CASE n # 0
  <2>1. 1 \in 1 .. n /\ n \in 1 .. n /\ L.first = s[1] /\ L.last = s[n] /\ L.last # MaxIdx
    BY <1>1, <1>3, <1>5 DEF Linked, Backed
  <2>2. L.prev \in [Elem -> Index]
    BY DEF List
  <2>3. ASSUME NEW k \in 1 .. n
        PROVE  Insert3(L, e).prev[s[k]] = IF k = 1 THEN e ELSE s[k - 1]
    BY <1>1, <1>2, <2>1, <2>2 DEF Backed
  <2> QED
    BY <1>2, <1>5, <2>1, <2>3 DEF Backed
<1> QED
  BY <1>4, <1>5

-----------------------------------------------------------------------------
(* The calls, write by write.                                              *)
U == list["used"]
F == list["freed"]

LEMMA Lists ==
  ASSUME TypeOK
  PROVE  /\ U \in List /\ F \in List /\ cur \in Elem
         /\ U.next \in [Elem -> Index] /\ U.prev \in [Elem -> Index]
         /\ F.next \in [Elem -> Index] /\ F.prev \in [Elem -> Index]
BY DEF TypeOK, U, F, List

LEMMA CreateWrites ==
  ASSUME TypeOK, op = "create", list' = WriteOne
  PROVE  /\ list' \in [{"used", "freed"} -> List]
         /\ done = 0 => U' = U /\ F' = Remove1(F, cur)
         /\ done = 1 => U' = U /\ F' = Remove2(F, cur)
         /\ done = 2 => U' = Insert1(U, cur) /\ F' = F
         /\ done = 3 => U' = Insert2(U, cur) /\ F' = F
         /\ done = 4 => U' = Insert3(U, cur) /\ F' = F
         /\ done = 5 => U' = Insert4(U, cur) /\ F' = F
<1>1. U \in List /\ F \in List /\ cur \in Elem
  BY Lists
<1>2. /\ Remove1(F, cur) \in List /\ Remove2(F, cur) \in List
      /\ Insert1(U, cur) \in List /\ Insert2(U, cur) \in List
      /\ Insert3(U, cur) \in List /\ Insert4(U, cur) \in List
  BY <1>1, RemoveWrites, InsertWrites
<1>3. From = "freed" /\ To = "used" /\ list \in [{"used", "freed"} -> List] /\ done \in 0 .. 5
  BY DEF From, To, TypeOK
<1>4. /\ done = 0 => list' = [list EXCEPT !["freed"] = Remove1(F, cur)]
      /\ done = 1 => list' = [list EXCEPT !["freed"] = Remove2(F, cur)]
      /\ done = 2 => list' = [list EXCEPT !["used"] = Insert1(U, cur)]
      /\ done = 3 => list' = [list EXCEPT !["used"] = Insert2(U, cur)]
      /\ done = 4 => list' = [list EXCEPT !["used"] = Insert3(U, cur)]
      /\ done = 5 => list' = [list EXCEPT !["used"] = Insert4(U, cur)]
  BY <1>3 DEF WriteOne, U, F
<1>5. done = 0 \/ done = 1 \/ done = 2 \/ done = 3 \/ done = 4 \/ done = 5
  BY <1>3
<1> QED
  BY <1>1, <1>2, <1>3, <1>4, <1>5 DEF U, F

LEMMA DestroyWrites ==
  ASSUME TypeOK, op = "destroy", list' = WriteOne
  PROVE  /\ list' \in [{"used", "freed"} -> List]
         /\ done = 0 => U' = Remove1(U, cur) /\ F' = F
         /\ done = 1 => U' = Remove2(U, cur) /\ F' = F
         /\ done = 2 => U' = U /\ F' = Insert1(F, cur)
         /\ done = 3 => U' = U /\ F' = Insert2(F, cur)
         /\ done = 4 => U' = U /\ F' = Insert3(F, cur)
         /\ done = 5 => U' = U /\ F' = Insert4(F, cur)
<1>1. U \in List /\ F \in List /\ cur \in Elem
  BY Lists
<1>2. /\ Remove1(U, cur) \in List /\ Remove2(U, cur) \in List
      /\ Insert1(F, cur) \in List /\ Insert2(F, cur) \in List
      /\ Insert3(F, cur) \in List /\ Insert4(F, cur) \in List
  BY <1>1, RemoveWrites, InsertWrites
<1>3. From = "used" /\ To = "freed" /\ list \in [{"used", "freed"} -> List] /\ done \in 0 .. 5
  BY DEF From, To, TypeOK
<1>4. /\ done = 0 => list' = [list EXCEPT !["used"] = Remove1(U, cur)]
      /\ done = 1 => list' = [list EXCEPT !["used"] = Remove2(U, cur)]
      /\ done = 2 => list' = [list EXCEPT !["freed"] = Insert1(F, cur)]
      /\ done = 3 => list' = [list EXCEPT !["freed"] = Insert2(F, cur)]
      /\ done = 4 => list' = [list EXCEPT !["freed"] = Insert3(F, cur)]
      /\ done = 5 => list' = [list EXCEPT !["freed"] = Insert4(F, cur)]
  BY <1>3 DEF WriteOne, U, F
<1>5. done = 0 \/ done = 1 \/ done = 2 \/ done = 3 \/ done = 4 \/ done = 5
  BY <1>3
<1> QED
  BY <1>1, <1>2, <1>3, <1>4, <1>5 DEF U, F

LEMMA HeldKept ==
  ASSUME holders' = holders
  PROVE  held' = held
BY DEF held

(* create_##name takes the first of the free list.                         *)
LEMMA CreateShape ==
  ASSUME TypeOK, NEW s, NEW n, NEW f, NEW m, Shape(s, n, f, m), Create
  PROVE  Shape(s, n, f, m)'
<1>1. /\ up /\ op = "none" /\ F.first # MaxIdx /\ op' = "create" /\ cur' = F.first /\ done' = 0
      /\ UNCHANGED <<list, holders, up, kills, torn>> /\ list' = list
  BY DEF Create, F
<1>2. /\ IsChain(s, n) /\ Linked(U.first, U.next, s, n)
      /\ IsChain(f, m) /\ Linked(F.first, F.next, f, m)
      /\ Elems(s, n) \cap Elems(f, m) = {}
      /\ held = Elems(s, n) /\ Backed(U, s, n, MaxIdx) /\ Marked(F)
      /\ Cardinality(Elem \ (Elems(s, n) \cup Elems(f, m) \cup InTransit)) <= kills
  BY <1>1 DEF Shape, Idle, U, F
<1>3. m >= 1 /\ f[1] = cur' /\ cur' \in Elems(f, m)
  BY <1>1, <1>2 DEF Linked, IsChain, Elems
<1>4. F.prev[cur'] = MaxIdx
  BY <1>1, <1>2 DEF Marked
<1>5. InTransit = {} /\ InTransit' = {cur'}
  BY <1>1 DEF InTransit
<1>6. Elems(s, n) \cup Elems(f, m) \cup InTransit' = Elems(s, n) \cup Elems(f, m) \cup InTransit
  BY <1>3, <1>5
<1>7. Creating(s, n, f, m)'
  BY <1>1, <1>2, <1>3, <1>4, HeldKept DEF Creating, U, F
<1> QED
  BY <1>1, <1>2, <1>6, <1>7 DEF Shape, U, F

(* destory_##name of an element in use.                                    *)
LEMMA DestroyShape ==
  ASSUME TypeOK, Single, NEW s, NEW n, NEW f, NEW m, Shape(s, n, f, m), NEW e \in Elem, Destroy(e)
  PROVE  Shape(s, n, f, m)' /\ Single'
<1>1. /\ up /\ op = "none" /\ holders[e] > 0 /\ holders' = [holders EXCEPT ![e] = @ - 1]
      /\ op' = "destroy" /\ cur' = e /\ done' = 0
      /\ UNCHANGED <<up, kills, torn>> /\ list' = list
  BY DEF Destroy
<1>2. /\ IsChain(s, n) /\ Linked(U.first, U.next, s, n)
      /\ IsChain(f, m) /\ Linked(F.first, F.next, f, m)
      /\ Elems(s, n) \cap Elems(f, m) = {}
      /\ held = Elems(s, n) /\ Backed(U, s, n, MaxIdx) /\ Marked(F)
      /\ Cardinality(Elem \ (Elems(s, n) \cup Elems(f, m) \cup InTransit)) <= kills
  BY <1>1 DEF Shape, Idle, U, F
<1>3. holders \in [Elem -> 0 .. 2] /\ holders[e] = 1
  BY <1>1 DEF TypeOK, Single
<1>4. holders'[e] = 0 /\ \A d \in Elem : d # e => holders'[d] = holders[d]
  BY <1>1, <1>3
<1>5. held' = held \ {e}
  BY <1>3, <1>4 DEF held
<1>6. Single'
  BY <1>4 DEF Single
<1>7. PICK i \in 1 .. n : s[i] = e
  BY <1>1, <1>2 DEF held, Elems
<1>8. U.prev[e] = IF i = 1 THEN MaxIdx ELSE s[i - 1]
  BY <1>2, <1>7 DEF Backed
<1>9. InTransit = {} /\ InTransit' = {e} /\ e \in Elems(s, n)
  BY <1>1, <1>7 DEF InTransit, Elems
<1>10. Elems(s, n) \cup Elems(f, m) \cup InTransit' = Elems(s, n) \cup Elems(f, m) \cup InTransit
  BY <1>9
<1>11. Destroying(s, n, f, m)'
  <2>1. /\ U' = U /\ F' = F /\ done' = 0 /\ cur' = e /\ held' = Elems(s, n) \ {e}
    BY <1>1, <1>2, <1>5 DEF U, F
  <2> QED
    BY <1>2, <1>7, <1>8, <2>1 DEF Destroying, U, F
<1> QED
  BY <1>1, <1>2, <1>6, <1>10, <1>11 DEF Shape, U, F

HasShape == \E s, n, f, m : Shape(s, n, f, m)

(* The writes of a creation: the element leaves the free list, then it is  *)
(* put at the head of the used one.                                        *)
LEMMA CreateWrite ==
  ASSUME TypeOK, HasShape, Write, op = "create"
  PROVE  HasShape'
<1>1. PICK s, n, f, m : Shape(s, n, f, m)
  BY DEF HasShape
<1>2. /\ up /\ done < 5 /\ list' = WriteOne /\ done' = done + 1
      /\ UNCHANGED <<holders, op, cur, up, kills, torn>>
  BY DEF Write
<1>3. /\ IsChain(s, n) /\ Linked(U.first, U.next, s, n)
      /\ IsChain(f, m) /\ Linked(F.first, F.next, f, m)
      /\ Elems(s, n) \cap Elems(f, m) = {}
      /\ Cardinality(Elem \ (Elems(s, n) \cup Elems(f, m) \cup InTransit)) <= kills
      /\ Creating(s, n, f, m)
  BY <1>1 DEF Shape, U, F
<1>4. /\ held' = held /\ InTransit' = InTransit /\ InTransit = {cur}
  BY <1>2, HeldKept DEF InTransit
<1>5. /\ U \in List /\ F \in List /\ cur \in Elem
      /\ U.next \in [Elem -> Index] /\ U.prev \in [Elem -> Index]
      /\ F.next \in [Elem -> Index] /\ F.prev \in [Elem -> Index]
  BY Lists
<1>6. MaxIdx \notin Elem /\ MaxIdx \in Index /\ f \in [1 .. m -> Elem] /\ m \in Nat
      /\ s \in [1 .. n -> Elem] /\ n \in Nat
  BY <1>3, ElemFacts DEF IsChain
<1>7. CASE done = 0
  <2>1. U' = U /\ F' = Remove1(F, cur) /\ done' = 1
    BY <1>2, <1>7, CreateWrites
  <2>2. /\ F'.first = F.first /\ F'.next = F.next
        /\ F'.prev = IF F.next[cur] = MaxIdx THEN F.prev ELSE [F.prev EXCEPT ![F.next[cur]] = F.prev[cur]]
    BY <1>5, <2>1, RemoveWrites
  <2>3. m >= 1 /\ f[1] = cur /\ F.prev[cur] = MaxIdx /\ held = Elems(s, n) /\ Backed(U, s, n, MaxIdx)
    BY <1>3, <1>7 DEF Creating, U, F
  <2>4. F.next[cur] = IF m = 1 THEN MaxIdx ELSE f[2]
    <3>1. 1 \in 1 .. m /\ 1 + 1 = 2
      BY <1>6, <2>3
    <3> QED
      BY <1>3, <2>3, <3>1 DEF Linked
  <2>5. m > 1 => f[2] \in Elem /\ f[2] # cur
    <3>1. m > 1 => 2 \in 1 .. m /\ 1 \in 1 .. m /\ 1 # 2
      BY <1>6
    <3> QED
      BY <1>3, <1>6, <2>3, <3>1 DEF IsChain
  <2>6. F'.prev[cur] = MaxIdx /\ (m > 1 => F'.prev[f[2]] = MaxIdx)
    <3>1. CASE m = 1
      BY <2>2, <2>3, <2>4, <3>1
    <3>2. CASE m > 1
      BY <1>5, <1>6, <2>2, <2>3, <2>4, <2>5, <3>2
    <3> QED
      BY <1>6, <2>3, <3>1, <3>2
  <2>7. Creating(s, n, f, m)'
    BY <1>2, <1>4, <2>1, <2>3, <2>6 DEF Creating, U, F
  <2>8. Shape(s, n, f, m)'
    BY <1>2, <1>3, <1>4, <2>1, <2>2, <2>7 DEF Shape, U, F
  <2> QED
    BY <2>8 DEF HasShape
<1>8. CASE done = 1
  <2> DEFINE g == Without(f, m, 1)
  <2>1. U' = U /\ F' = Remove2(F, cur) /\ done' = 2
    BY <1>2, <1>8, CreateWrites
  <2>2. /\ m >= 1 /\ f[1] = cur /\ F.prev[cur] = MaxIdx /\ held = Elems(s, n) /\ Backed(U, s, n, MaxIdx)
        /\ m > 1 => F.prev[f[2]] = MaxIdx
    BY <1>3, <1>8 DEF Creating, U, F
  <2>3. F'.first = F.next[cur] /\ F'.next = F.next /\ F'.prev = F.prev
    BY <1>5, <2>1, <2>2, RemoveWrites
  <2>4. 1 \in 1 .. m
    BY <1>6, <2>2
  <2>5. IsChain(g, m - 1) /\ Elems(g, m - 1) = Elems(f, m) \ {cur}
    BY <1>3, <2>2, <2>4, WithoutIs
  <2>6. Linked(F'.first, F'.next, g, m - 1)
    BY <1>3, <1>5, <2>2, <2>3, <2>4, WithoutLinked
  <2> HIDE DEF g
  <2>7. cur \in Elems(f, m)
    BY <2>2, <2>4 DEF Elems
  <2>8. Marked(F')
    <3>1. F.next[cur] = IF m = 1 THEN MaxIdx ELSE f[2]
      <4>1. 1 + 1 = 2
        OBVIOUS
      <4> QED
        BY <1>3, <2>2, <2>4, <4>1 DEF Linked
    <3>2. m # 1 => m > 1
      BY <1>6, <2>2
    <3> QED
      BY <2>2, <2>3, <3>1, <3>2 DEF Marked
  <2>9. Creating(s, n, g, m - 1)'
    BY <1>2, <1>3, <1>4, <2>1, <2>2, <2>5, <2>7, <2>8 DEF Creating, U, F
  <2>10. Elems(s, n) \cup Elems(g, m - 1) \cup InTransit' = Elems(s, n) \cup Elems(f, m) \cup InTransit
    BY <1>4, <2>5, <2>7
  <2>11. Shape(s, n, g, m - 1)'
    BY <1>2, <1>3, <2>1, <2>5, <2>6, <2>9, <2>10 DEF Shape, U, F
  <2> QED
    BY <2>11 DEF HasShape
<1>9. ASSUME done >= 2
      PROVE  /\ held = Elems(s, n) /\ cur \notin Elems(s, n) /\ cur \notin Elems(f, m) /\ Marked(F)
             /\ done # 5 => Backed(U, s, n, MaxIdx)
             /\ (done >= 3 => U.next[cur] = U.first) /\ (done >= 4 => U.prev[cur] = MaxIdx)
  <2>1. ~ done <= 1 /\ done \in 0 .. 5
    BY <1>9 DEF TypeOK
  <2> QED
    BY <1>3, <2>1 DEF Creating, U, F
<1>10. ASSUME F' = F, done >= 2, U'.first = U.first, Linked(U'.first, U'.next, s, n),
              Backed(U', s, n, IF done' = 5 THEN cur ELSE MaxIdx),
              done' >= 3 => U'.next[cur] = U.first,
              done' >= 4 => U'.prev[cur] = MaxIdx
       PROVE  HasShape'
  <2>1. ~ done' <= 1 /\ done' \in Nat
    BY <1>2, <1>10 DEF TypeOK
  <2>2. Creating(s, n, f, m)'
    BY <1>2, <1>4, <1>9, <1>10, <2>1 DEF Creating, U, F
  <2>3. Shape(s, n, f, m)'
    BY <1>2, <1>3, <1>4, <1>10, <2>2 DEF Shape, U, F
  <2> QED
    BY <2>3 DEF HasShape
<1>11. CASE done = 2
  <2>1. U' = Insert1(U, cur) /\ F' = F /\ done' = 3
    BY <1>2, <1>11, CreateWrites
  <2>2. U'.first = U.first /\ U'.last = U.last /\ U'.prev = U.prev /\ U'.next = [U.next EXCEPT ![cur] = U.first]
    BY <1>5, <2>1, InsertWrites
  <2>3. U'.next[cur] = U.first /\ \A k \in 1 .. n : U'.next[s[k]] = U.next[s[k]]
    BY <1>3, <1>5, <1>9, <1>11, <2>2, KeptLinks
  <2>4. Linked(U'.first, U'.next, s, n) /\ Backed(U', s, n, MaxIdx)
    BY <1>3, <1>9, <1>11, <2>2, <2>3 DEF Linked, Backed
  <2> QED
    BY <1>10, <1>11, <2>1, <2>2, <2>3, <2>4
<1>12. CASE done = 3
  <2>1. U' = Insert2(U, cur) /\ F' = F /\ done' = 4
    BY <1>2, <1>12, CreateWrites
  <2>2. U'.first = U.first /\ U'.last = U.last /\ U'.next = U.next /\ U'.prev = [U.prev EXCEPT ![cur] = MaxIdx]
    BY <1>5, <2>1, InsertWrites
  <2>3. U'.prev[cur] = MaxIdx /\ \A k \in 1 .. n : U'.prev[s[k]] = U.prev[s[k]]
    BY <1>3, <1>5, <1>9, <1>12, <2>2, KeptLinks
  <2>4. Linked(U'.first, U'.next, s, n) /\ Backed(U', s, n, MaxIdx) /\ U'.next[cur] = U.first
    BY <1>3, <1>9, <1>12, <2>2, <2>3 DEF Backed
  <2> QED
    BY <1>10, <1>12, <2>1, <2>2, <2>3, <2>4
<1>13. CASE done = 4
  <2>1. U' = Insert3(U, cur) /\ F' = F /\ done' = 5
    BY <1>2, <1>13, CreateWrites
  <2>2. /\ U'.first = U.first /\ U'.next = U.next
        /\ U'.prev = IF U.last = MaxIdx THEN U.prev ELSE [U.prev EXCEPT ![U.first] = cur]
    BY <1>5, <2>1, InsertWrites
  <2>3. Backed(U, s, n, MaxIdx) /\ U.next[cur] = U.first /\ U.prev[cur] = MaxIdx /\ cur \notin Elems(s, n)
    BY <1>9, <1>13
  <2>4. Backed(U', s, n, cur)
    BY <1>3, <1>5, <2>1, <2>3, InsertBacked
  <2>5. U.first # cur
    <3>1. n # 0 => 1 \in 1 .. n
      BY <1>6
    <3> QED
      BY <1>3, <1>5, <1>6, <2>3, <3>1 DEF Linked, Elems
  <2>6. U'.prev[cur] = MaxIdx
    BY <1>5, <2>2, <2>3, <2>5
  <2> QED
    BY <1>3, <1>10, <1>13, <2>1, <2>2, <2>3, <2>4, <2>6
<1> QED
  BY <1>2, <1>7, <1>8, <1>11, <1>12, <1>13 DEF TypeOK

(* The writes of a destruction: out of the used list, to the head of the   *)
(* free one.                                                               *)
LEMMA DestroyWrite ==
  ASSUME TypeOK, HasShape, Write, op = "destroy"
  PROVE  HasShape'
<1>1. PICK s, n, f, m : Shape(s, n, f, m)
  BY DEF HasShape
<1>2. /\ up /\ done < 5 /\ list' = WriteOne /\ done' = done + 1
      /\ UNCHANGED <<holders, op, cur, up, kills, torn>>
  BY DEF Write
<1>3. /\ IsChain(s, n) /\ Linked(U.first, U.next, s, n)
      /\ IsChain(f, m) /\ Linked(F.first, F.next, f, m)
      /\ Elems(s, n) \cap Elems(f, m) = {}
      /\ Cardinality(Elem \ (Elems(s, n) \cup Elems(f, m) \cup InTransit)) <= kills
      /\ Destroying(s, n, f, m)
  BY <1>1 DEF Shape, U, F
<1>4. /\ held' = held /\ InTransit' = InTransit /\ InTransit = {cur}
  BY <1>2, HeldKept DEF InTransit
<1>5. /\ U \in List /\ F \in List /\ cur \in Elem
      /\ U.next \in [Elem -> Index] /\ U.prev \in [Elem -> Index]
      /\ F.next \in [Elem -> Index] /\ F.prev \in [Elem -> Index]
  BY Lists
<1>6. MaxIdx \notin Elem /\ MaxIdx \in Index /\ f \in [1 .. m -> Elem] /\ m \in Nat
      /\ s \in [1 .. n -> Elem] /\ n \in Nat
  BY <1>3, ElemFacts DEF IsChain
<1>7. CASE done = 0
  <2>1. U' = Remove1(U, cur) /\ F' = F /\ done' = 1
    BY <1>2, <1>7, DestroyWrites
  <2>2. /\ U'.first = U.first /\ U'.next = U.next
        /\ U'.prev = IF U.next[cur] = MaxIdx THEN U.prev ELSE [U.prev EXCEPT ![U.next[cur]] = U.prev[cur]]
    BY <1>5, <2>1, RemoveWrites
  <2>3. held = Elems(s, n) \ {cur} /\ Marked(F)
    BY <1>3, <1>7 DEF Destroying, F
  <2>4. PICK i \in 1 .. n : /\ s[i] = cur
                            /\ U.prev[cur] = IF i = 1 THEN MaxIdx ELSE s[i - 1]
                            /\ Backed(U, s, n, MaxIdx)
    BY <1>3, <1>7 DEF Destroying, U
  <2>5. Backed(U', Without(s, n, i), n - 1, MaxIdx)
    BY <1>3, <1>5, <2>1, <2>4, WithoutBacked
  <2>6. U.next[cur] # cur
    <3>1. U.next[cur] = IF i = n THEN MaxIdx ELSE s[i + 1]
      BY <1>3, <2>4 DEF Linked
    <3>2. i # n => i + 1 \in 1 .. n /\ i + 1 # i
      BY <1>6
    <3> QED
      BY <1>3, <1>5, <1>6, <2>4, <3>1, <3>2 DEF IsChain
  <2>7. U'.prev[cur] = U.prev[cur]
    BY <1>5, <2>2, <2>6
  <2>8. Destroying(s, n, f, m)'
    BY <1>2, <1>4, <2>1, <2>3, <2>4, <2>5, <2>7 DEF Destroying, U, F
  <2>9. Shape(s, n, f, m)'
    BY <1>2, <1>3, <1>4, <2>1, <2>2, <2>8 DEF Shape, U, F
  <2> QED
    BY <2>9 DEF HasShape
<1>8. CASE done = 1
  <2>1. U' = Remove2(U, cur) /\ F' = F /\ done' = 2
    BY <1>2, <1>8, DestroyWrites
  <2>2. held = Elems(s, n) \ {cur} /\ Marked(F)
    BY <1>3, <1>8 DEF Destroying, F
  <2>3. PICK i \in 1 .. n : /\ s[i] = cur
                            /\ U.prev[cur] = IF i = 1 THEN MaxIdx ELSE s[i - 1]
                            /\ Backed(U, Without(s, n, i), n - 1, MaxIdx)
    BY <1>3, <1>8 DEF Destroying, U
  <2> DEFINE t == Without(s, n, i)
  <2>4. /\ U'.last = U.last /\ U'.prev = U.prev
        /\ U'.first = IF U.prev[cur] = MaxIdx THEN U.next[cur] ELSE U.first
        /\ U'.next = IF U.prev[cur] = MaxIdx THEN U.next ELSE [U.next EXCEPT ![U.prev[cur]] = U.next[cur]]
    BY <1>5, <2>1, RemoveWrites
  <2>5. IsChain(t, n - 1) /\ Elems(t, n - 1) = Elems(s, n) \ {cur}
    BY <1>3, <2>3, WithoutIs
  <2>6. Linked(U'.first, U'.next, t, n - 1)
    BY <1>3, <1>5, <2>3, <2>4, WithoutLinked
  <2>7. Backed(U', t, n - 1, MaxIdx)
    BY <2>3, <2>4 DEF Backed
  <2> HIDE DEF t
  <2>8. cur \in Elems(s, n) /\ cur \notin Elems(f, m)
    BY <1>3, <2>3 DEF Elems
  <2>9. Destroying(t, n - 1, f, m)'
    BY <1>2, <1>4, <2>1, <2>2, <2>5, <2>7, <2>8 DEF Destroying, U, F
  <2>10. Elems(t, n - 1) \cup Elems(f, m) \cup InTransit' = Elems(s, n) \cup Elems(f, m) \cup InTransit
    BY <1>4, <2>5, <2>8
  <2>11. Shape(t, n - 1, f, m)'
    BY <1>2, <1>3, <2>1, <2>5, <2>6, <2>9, <2>10 DEF Shape, U, F
  <2> QED
    BY <2>11 DEF HasShape
<1>9. ASSUME done >= 2
      PROVE  /\ held = Elems(s, n) /\ cur \notin Elems(s, n) /\ cur \notin Elems(f, m)
             /\ Backed(U, s, n, MaxIdx)
             /\ (done <= 4 => Marked(F))
             /\ (done >= 3 => F.next[cur] = F.first) /\ (done >= 4 => F.prev[cur] = MaxIdx)
             /\ F.first # cur
  <2>1. ~ done <= 1 /\ done \in 0 .. 5
    BY <1>9 DEF TypeOK
  <2>2. m # 0 => 1 \in 1 .. m
    BY <1>6
  <2>3. cur \notin Elems(f, m)
    BY <1>3, <2>1 DEF Destroying
  <2>4. F.first # cur
    BY <1>3, <1>5, <1>6, <2>2, <2>3 DEF Linked, Elems
  <2> QED
    BY <1>3, <2>1, <2>4 DEF Destroying, U, F
<1>10. ASSUME U' = U, done >= 2, F'.first = F.first, Linked(F'.first, F'.next, f, m),
              done' <= 4 => Marked(F'),
              done' >= 3 => F'.next[cur] = F.first,
              done' >= 4 => F'.prev[cur] = MaxIdx
       PROVE  HasShape'
  <2>1. ~ done' <= 1 /\ done' \in Nat
    BY <1>2, <1>10 DEF TypeOK
  <2>2. Destroying(s, n, f, m)'
    BY <1>2, <1>4, <1>9, <1>10, <2>1 DEF Destroying, U, F
  <2>3. Shape(s, n, f, m)'
    BY <1>2, <1>3, <1>4, <1>10, <2>2 DEF Shape, U, F
  <2> QED
    BY <2>3 DEF HasShape
<1>11. CASE done = 2
  <2>1. F' = Insert1(F, cur) /\ U' = U /\ done' = 3
    BY <1>2, <1>11, DestroyWrites
  <2>2. F'.first = F.first /\ F'.prev = F.prev /\ F'.next = [F.next EXCEPT ![cur] = F.first]
    BY <1>5, <2>1, InsertWrites
  <2>3. F'.next[cur] = F.first /\ \A k \in 1 .. m : F'.next[f[k]] = F.next[f[k]]
    BY <1>3, <1>5, <1>9, <1>11, <2>2, KeptLinks
  <2>4. Linked(F'.first, F'.next, f, m)
    BY <1>3, <2>2, <2>3 DEF Linked
  <2>5. Marked(F')
    BY <1>9, <1>11, <2>2 DEF Marked
  <2> QED
    BY <1>10, <1>11, <2>1, <2>2, <2>3, <2>4, <2>5
<1>12. CASE done = 3
  <2>1. F' = Insert2(F, cur) /\ U' = U /\ done' = 4
    BY <1>2, <1>12, DestroyWrites
  <2>2. F'.first = F.first /\ F'.next = F.next /\ F'.prev = [F.prev EXCEPT ![cur] = MaxIdx]
    BY <1>5, <2>1, InsertWrites
  <2>3. F'.prev[cur] = MaxIdx /\ F'.prev[F.first] = F.prev[F.first]
    BY <1>5, <1>9, <1>12, <2>2
  <2>4. Linked(F'.first, F'.next, f, m) /\ F'.next[cur] = F.first
    BY <1>3, <1>9, <1>12, <2>2
  <2>5. Marked(F')
    BY <1>9, <1>12, <2>2, <2>3 DEF Marked
  <2> QED
    BY <1>10, <1>12, <2>1, <2>2, <2>3, <2>4, <2>5
<1>13. CASE done = 4
  <2>1. F' = Insert3(F, cur) /\ U' = U /\ done' = 5
    BY <1>2, <1>13, DestroyWrites
  <2>2. /\ F'.first = F.first /\ F'.next = F.next
        /\ F'.prev = IF F.last = MaxIdx THEN F.prev ELSE [F.prev EXCEPT ![F.first] = cur]
    BY <1>5, <2>1, InsertWrites
  <2>3. F'.prev[cur] = MaxIdx
    BY <1>5, <1>9, <1>13, <2>2
  <2> QED
    BY <1>3, <1>9, <1>10, <1>13, <2>1, <2>2, <2>3
<1> QED
  BY <1>2, <1>7, <1>8, <1>11, <1>12, <1>13 DEF TypeOK

(* The last write, and the return.                                         *)
LEMMA CreateReturns ==
  ASSUME TypeOK, Single, HasShape, Return, op = "create"
  PROVE  HasShape' /\ Single' /\ cur \notin held /\ held' = held \cup {cur}
<1>1. PICK s, n, f, m : Shape(s, n, f, m)
  BY DEF HasShape
<1>2. /\ up /\ done = 5 /\ list' = WriteOne /\ done' = 0 /\ op' = "none"
      /\ holders' = [holders EXCEPT ![cur] = Least(@ + 1, 2)]
      /\ UNCHANGED <<up, kills, torn>>
  BY DEF Return
<1>3. /\ IsChain(s, n) /\ Linked(U.first, U.next, s, n)
      /\ IsChain(f, m) /\ Linked(F.first, F.next, f, m)
      /\ Elems(s, n) \cap Elems(f, m) = {}
      /\ Cardinality(Elem \ (Elems(s, n) \cup Elems(f, m) \cup InTransit)) <= kills
      /\ Creating(s, n, f, m)
  BY <1>1 DEF Shape, U, F
<1>4. /\ U \in List /\ F \in List /\ cur \in Elem
  BY Lists
<1>5. /\ held = Elems(s, n) /\ Backed(U, s, n, cur)
      /\ cur \notin Elems(s, n) /\ cur \notin Elems(f, m) /\ Marked(F)
      /\ U.next[cur] = U.first /\ U.prev[cur] = MaxIdx
  BY <1>2, <1>3 DEF Creating, U, F
<1>6. U' = Insert4(U, cur) /\ F' = F
  BY <1>2, CreateWrites
<1>7. U'.first = cur /\ U'.next = U.next
  BY <1>4, <1>6, InsertWrites
<1>0. PICK c : c = Cons(cur, s, n)
  OBVIOUS
<1>8. IsChain(c, n + 1) /\ Elems(c, n + 1) = Elems(s, n) \cup {cur}
  BY <1>3, <1>4, <1>5, <1>0, ConsIs
<1>9. Linked(U'.first, U'.next, c, n + 1)
  BY <1>3, <1>4, <1>5, <1>7, <1>0, ConsLinked
<1>10. Backed(U', c, n + 1, MaxIdx)
  BY <1>3, <1>4, <1>5, <1>6, <1>0, ConsBacked
<1>11. holders[cur] = 0 /\ holders \in [Elem -> 0 .. 2]
  <2>1. holders \in [Elem -> 0 .. 2] /\ cur \notin held
    BY <1>5 DEF TypeOK
  <2> QED
    BY <1>4, <2>1 DEF held
<1>12. holders'[cur] = 1 /\ \A e \in Elem : e # cur => holders'[e] = holders[e]
  BY <1>2, <1>4, <1>11 DEF Least
<1>13. held' = held \cup {cur} /\ Single'
  BY <1>4, <1>12 DEF held, Single
<1>14. InTransit = {cur} /\ InTransit' = {}
  BY <1>2 DEF InTransit
<1>15. Elems(c, n + 1) \cup Elems(f, m) \cup InTransit' = Elems(s, n) \cup Elems(f, m) \cup InTransit
  BY <1>8, <1>14
<1>16. Idle(c, n + 1)'
  <2>1. held' = Elems(c, n + 1)
    BY <1>5, <1>8, <1>13
  <2>2. Marked(F')
    BY <1>5, <1>6
  <2> QED
    BY <1>10, <2>1, <2>2 DEF Idle, U, F
<1>17. Elems(c, n + 1) \cap Elems(f, m) = {}
  BY <1>3, <1>5, <1>8
<1>18. Cardinality(Elem \ (Elems(c, n + 1) \cup Elems(f, m) \cup InTransit')) <= kills'
  BY <1>2, <1>3, <1>15
<1>19. op' # "create" /\ op' # "destroy"
  BY <1>2
<1>20. Shape(c, n + 1, f, m)'
  BY <1>3, <1>6, <1>8, <1>9, <1>16, <1>17, <1>18, <1>19 DEF Shape, U, F
<1> QED
  BY <1>5, <1>13, <1>20 DEF HasShape

LEMMA DestroyReturns ==
  ASSUME TypeOK, HasShape, Return, op = "destroy"
  PROVE  HasShape' /\ holders' = holders
<1>1. PICK s, n, f, m : Shape(s, n, f, m)
  BY DEF HasShape
<1>2. /\ up /\ done = 5 /\ list' = WriteOne /\ done' = 0 /\ op' = "none"
      /\ holders' = holders
      /\ UNCHANGED <<up, kills, torn>>
  BY DEF Return
<1>3. /\ IsChain(s, n) /\ Linked(U.first, U.next, s, n)
      /\ IsChain(f, m) /\ Linked(F.first, F.next, f, m)
      /\ Elems(s, n) \cap Elems(f, m) = {}
      /\ Cardinality(Elem \ (Elems(s, n) \cup Elems(f, m) \cup InTransit)) <= kills
      /\ Destroying(s, n, f, m)
  BY <1>1 DEF Shape, U, F
<1>4. /\ U \in List /\ F \in List /\ cur \in Elem
  BY Lists
<1>5. /\ held = Elems(s, n) /\ Backed(U, s, n, MaxIdx)
      /\ cur \notin Elems(s, n) /\ cur \notin Elems(f, m)
      /\ F.next[cur] = F.first /\ F.prev[cur] = MaxIdx
  BY <1>2, <1>3 DEF Destroying, U, F
<1>6. F' = Insert4(F, cur) /\ U' = U
  BY <1>2, DestroyWrites
<1>7. F'.first = cur /\ F'.next = F.next /\ F'.prev = F.prev
  BY <1>4, <1>6, InsertWrites
<1>0. PICK c : c = Cons(cur, f, m)
  OBVIOUS
<1>8. IsChain(c, m + 1) /\ Elems(c, m + 1) = Elems(f, m) \cup {cur}
  BY <1>3, <1>4, <1>5, <1>0, ConsIs
<1>9. Linked(F'.first, F'.next, c, m + 1)
  BY <1>3, <1>4, <1>5, <1>7, <1>0, ConsLinked
<1>10. Marked(F')
  BY <1>5, <1>7 DEF Marked
<1>11. InTransit = {cur} /\ InTransit' = {} /\ held' = held
  BY <1>2, HeldKept DEF InTransit
<1>12. Elems(s, n) \cup Elems(c, m + 1) \cup InTransit' = Elems(s, n) \cup Elems(f, m) \cup InTransit
  BY <1>8, <1>11
<1>13. Elems(s, n) \cap Elems(c, m + 1) = {}
  BY <1>3, <1>5, <1>8
<1>14. Idle(s, n)'
  BY <1>5, <1>6, <1>10, <1>11 DEF Idle, U, F
<1>15. Cardinality(Elem \ (Elems(s, n) \cup Elems(c, m + 1) \cup InTransit')) <= kills'
  BY <1>2, <1>3, <1>12
<1>16. op' # "create" /\ op' # "destroy"
  BY <1>2
<1>17. Shape(s, n, c, m + 1)'
  BY <1>3, <1>6, <1>8, <1>9, <1>13, <1>14, <1>15, <1>16 DEF Shape, U, F
<1> QED
  BY <1>2, <1>17 DEF HasShape

-----------------------------------------------------------------------------
(* A kill costs at most the one element that was in neither list.          *)
LEMMA KillShape ==
  ASSUME TypeOK, HasShape, Kill
  PROVE  HasShape'
<1>1. PICK s, n, f, m : Shape(s, n, f, m)
  BY DEF HasShape
<1>2. up' = FALSE /\ kills' = kills + 1 /\ UNCHANGED <<list, holders, op, cur, done, torn>>
  BY DEF Kill
<1>3. Cardinality(Elem \ (Elems(s, n) \cup Elems(f, m) \cup InTransit)) <= kills
  BY <1>1 DEF Shape
<1> DEFINE lost == Elem \ (Elems(s, n) \cup Elems(f, m) \cup InTransit)
           gone == Elem \ (Elems(s, n) \cup Elems(f, m) \cup InTransit')
<1>4. InTransit' = {} /\ InTransit \subseteq {cur}
  BY <1>2 DEF InTransit
<1>5. gone \subseteq lost \cup {cur} /\ lost \subseteq Elem /\ cur \in Elem
  BY <1>4 DEF TypeOK
<1> HIDE DEF lost, gone
<1>6. Cardinality(gone) <= kills + 1
  <2>1. IsFiniteSet(lost)
    BY <1>5, ElemFacts, FS_Subset
  <2>2. /\ IsFiniteSet(lost \cup {cur})
        /\ Cardinality(lost \cup {cur}) = IF cur \in lost THEN Cardinality(lost) ELSE Cardinality(lost) + 1
    BY <2>1, FS_AddElement
  <2>3. IsFiniteSet(gone) /\ Cardinality(gone) <= Cardinality(lost \cup {cur})
    BY <1>5, <2>2, FS_Subset
  <2>4. Cardinality(lost) \in Nat /\ Cardinality(gone) \in Nat /\ kills \in Nat
    BY <2>1, <2>3, FS_CardinalityType DEF TypeOK
  <2>5. Cardinality(lost) <= kills
    BY <1>3 DEF lost
  <2> QED
    BY <2>2, <2>3, <2>4, <2>5
<1>7. Cardinality(Elem \ (Elems(s, n) \cup Elems(f, m) \cup InTransit')) <= kills'
  BY <1>2, <1>6 DEF gone
<1>8. held' = held
  BY <1>2, HeldKept
<1>9. /\ op = "none" => Idle(s, n)'
      /\ op = "create" => Creating(s, n, f, m)'
      /\ op = "destroy" => Destroying(s, n, f, m)'
  BY <1>1, <1>2, <1>8 DEF Shape, Idle, Creating, Destroying
<1>10. Shape(s, n, f, m)'
  BY <1>1, <1>2, <1>7, <1>9 DEF Shape
<1> QED
  BY <1>10 DEF HasShape

(* What resume walks: all that was held, and at most the element the call  *)
(* was about.                                                              *)
LEMMA Walked ==
  ASSUME TypeOK, NEW s, NEW n, NEW f, NEW m, Shape(s, n, f, m)
  PROVE  /\ Ends(U) /\ Ends(F)
         /\ ForEachUsed = Elems(s, n) /\ Members(F) = Elems(f, m)
         /\ held \subseteq ForEachUsed
         /\ ForEachUsed \subseteq held \cup (IF op = "none" THEN {} ELSE {cur})
         /\ ForEachUsed \cap Members(F) = {}
<1>1. /\ IsChain(s, n) /\ Linked(U.first, U.next, s, n)
      /\ IsChain(f, m) /\ Linked(F.first, F.next, f, m)
      /\ Elems(s, n) \cap Elems(f, m) = {}
  BY DEF Shape, U, F
<1>2. Ends(U) /\ Members(U) = Elems(s, n) /\ Ends(F) /\ Members(F) = Elems(f, m)
  BY <1>1, ListIs
<1>3. ForEachUsed = Elems(s, n)
  BY <1>2 DEF ForEachUsed, U
<1>4. CASE op = "none"
  BY <1>1, <1>2, <1>3, <1>4 DEF Shape, Idle
<1>5. CASE op = "create"
  <2>1. held = Elems(s, n)
    BY <1>5 DEF Shape, Creating
  <2> QED
    BY <1>1, <1>2, <1>3, <1>5, <2>1
<1>6. CASE op = "destroy"
  <2>1. held = Elems(s, n) \ {cur} \/ held = Elems(s, n)
    BY <1>6 DEF Shape, Destroying
  <2> QED
    BY <1>1, <1>2, <1>3, <1>6, <2>1
<1> QED
  BY <1>4, <1>5, <1>6 DEF TypeOK

LEMMA ResumeHolds ==
  ASSUME TypeOK, Resume
  PROVE  held' = ForEachUsed \cap Elem /\ Single' /\ holders' \in [Elem -> 0 .. 2]
<1>1. holders' = [e \in Elem |-> IF e \in ForEachUsed THEN 1 ELSE 0]
  BY DEF Resume
<1>2. \A e \in Elem : holders'[e] = IF e \in ForEachUsed THEN 1 ELSE 0
  BY <1>1
<1> HIDE DEF ForEachUsed
<1>3. held' = ForEachUsed \cap Elem
  <2>1. held' = {e \in Elem : holders'[e] > 0}
    BY DEF held
  <2> QED
    BY <1>2, <2>1
<1> QED
  BY <1>1, <1>2, <1>3 DEF Single

LEMMA ResumeShape ==
  ASSUME TypeOK, HasShape, Resume, ~ torn'
  PROVE  HasShape'
<1>1. PICK s, n, f, m : Shape(s, n, f, m)
  BY DEF HasShape
<1>2. /\ ~ up /\ up' = TRUE /\ op' = "none" /\ UNCHANGED <<list, kills>>
      /\ ~ (done = 1 /\ op = "destroy") /\ done # 5
  BY DEF Resume
<1>3. /\ IsChain(s, n) /\ Linked(U.first, U.next, s, n)
      /\ IsChain(f, m) /\ Linked(F.first, F.next, f, m)
      /\ Elems(s, n) \cap Elems(f, m) = {}
      /\ Cardinality(Elem \ (Elems(s, n) \cup Elems(f, m) \cup InTransit)) <= kills
      /\ op = "none" => Idle(s, n)
      /\ op = "create" => Creating(s, n, f, m)
      /\ op = "destroy" => Destroying(s, n, f, m)
  BY <1>1 DEF Shape, U, F
<1>4. U' = U /\ F' = F /\ InTransit = {} /\ InTransit' = {}
  BY <1>2 DEF U, F, InTransit
<1>5. held' = Elems(s, n)
  <2>1. ForEachUsed = Elems(s, n)
    BY <1>1, Walked
  <2>2. Elems(s, n) \subseteq Elem
    BY <1>3 DEF IsChain, Elems
  <2> QED
    BY <2>1, <2>2, ResumeHolds
<1>6. Backed(U, s, n, MaxIdx) /\ Marked(F)
  <2>1. done \in 0 .. 4 /\ op \in {"create", "destroy", "none"}
    BY <1>2 DEF TypeOK
  <2>2. CASE op = "none"
    BY <1>3, <2>2 DEF Idle, U, F
  <2>3. CASE op = "create"
    <3>1. Creating(s, n, f, m)
      BY <1>3, <2>3
    <3>2. Backed(U, s, n, MaxIdx)
      BY <1>2, <3>1 DEF Creating, U
    <3>3. CASE done <= 1
      <4>1. m >= 1 /\ f[1] = cur /\ F.prev[cur] = MaxIdx
        BY <3>1, <3>3 DEF Creating, F
      <4>2. F.first = cur
        BY <1>3, <4>1 DEF Linked
      <4> QED
        BY <3>2, <4>1, <4>2 DEF Marked
    <3>4. CASE ~ done <= 1
      BY <3>1, <3>2, <3>4 DEF Creating, F
    <3> QED
      BY <3>3, <3>4
  <2>4. CASE op = "destroy"
    <3>1. Destroying(s, n, f, m) /\ (done = 0 \/ ~ done <= 1) /\ done <= 4
      BY <1>2, <1>3, <2>1, <2>4
    <3> QED
      BY <3>1 DEF Destroying, U, F
  <2> QED
    BY <2>1, <2>2, <2>3, <2>4
<1>7. Idle(s, n)'
  BY <1>4, <1>5, <1>6 DEF Idle, U, F
<1>8. Cardinality(Elem \ (Elems(s, n) \cup Elems(f, m) \cup InTransit')) <= kills'
  BY <1>2, <1>3, <1>4
<1>9. op' # "create" /\ op' # "destroy"
  BY <1>2
<1>10. Shape(s, n, f, m)'
  BY <1>3, <1>4, <1>7, <1>8, <1>9 DEF Shape, U, F
<1> QED
  BY <1>10 DEF HasShape

-----------------------------------------------------------------------------
(* init_##name pushes the elements one after the other: the free list is   *)
(* N - 1, ..., 0.                                                          *)
Pushed(k) ==
  [first |-> IF k = 0 THEN N ELSE k - 1,
   last  |-> IF k = 0 THEN N ELSE 0,
   next  |-> [e \in Elem |-> IF e < k THEN (IF e = 0 THEN N ELSE e - 1) ELSE 0],
   prev  |-> [e \in Elem |-> IF e < k THEN (IF e = k - 1 THEN N ELSE e + 1) ELSE 0]]

LEMMA PushedIs ==
  /\ Pushed(0) = Fresh
  /\ \A k \in 1 .. N : Push(Pushed(k - 1), k - 1) = Pushed(k)
<1>1. N \in Nat /\ N # 0 /\ Elem = 0 .. N - 1 /\ MaxIdx = N
  BY NAssumption DEF Elem, MaxIdx
<1>2. Pushed(0) = Fresh
  <2>1. \A e \in Elem : ~ e < 0
    BY <1>1
  <2> QED
    BY <1>1, <2>1 DEF Pushed, Fresh
<1>3. ASSUME NEW k \in 1 .. N
      PROVE  Push(Pushed(k - 1), k - 1) = Pushed(k)
  <2> DEFINE e == k - 1
             P == Pushed(e)
  <2>1. e \in Elem /\ e \in Nat /\ k = e + 1 /\ k # 0
    BY <1>1
  <2>2. /\ P.first = (IF e = 0 THEN N ELSE e - 1) /\ P.last = (IF e = 0 THEN N ELSE 0)
        /\ P.next = [x \in Elem |-> IF x < e THEN (IF x = 0 THEN N ELSE x - 1) ELSE 0]
        /\ P.prev = [x \in Elem |-> IF x < e THEN (IF x = e - 1 THEN N ELSE x + 1) ELSE 0]
        /\ P = [first |-> P.first, last |-> P.last, next |-> P.next, prev |-> P.prev]
    BY DEF Pushed
  <2> DEFINE nx == [P.next EXCEPT ![e] = P.first]
             pv == [P.prev EXCEPT ![e] = MaxIdx]
             L1 == [first |-> P.first, last |-> P.last, next |-> nx, prev |-> P.prev]
             L2 == [first |-> P.first, last |-> P.last, next |-> nx, prev |-> pv]
             L3 == [first |-> P.first, last |-> IF P.last = MaxIdx THEN e ELSE P.last, next |-> nx,
                    prev |-> IF P.last = MaxIdx THEN pv ELSE [pv EXCEPT ![P.first] = e]]
             L4 == [first |-> e, last |-> L3.last, next |-> nx, prev |-> L3.prev]
  <2> HIDE DEF P, e
  <2>3. Insert1(P, e) = L1
    BY <2>2 DEF Insert1
  <2>4. Insert2(L1, e) = L2
    BY DEF Insert2
  <2>5. Insert3(L2, e) = L3
    BY DEF Insert3
  <2>6. Insert4(L3, e) = L4
    BY DEF Insert4
  <2>7. Push(P, e) = L4
    BY <2>3, <2>4, <2>5, <2>6 DEF Push
  <2>8. \A x \in Elem : x < k <=> x < e \/ x = e
    BY <1>1, <2>1
  <2>9. ~ e < e
    BY <2>1
  <2>10. nx = [x \in Elem |-> IF x < k THEN (IF x = 0 THEN N ELSE x - 1) ELSE 0]
    <3>1. nx = [x \in Elem |-> IF x = e THEN P.first ELSE P.next[x]]
      BY <2>1, <2>2
    <3>2. \A x \in Elem : (IF x = e THEN P.first ELSE P.next[x])
                          = (IF x < k THEN (IF x = 0 THEN N ELSE x - 1) ELSE 0)
      BY <2>2, <2>8, <2>9
    <3> HIDE DEF nx
    <3> QED
      BY <3>1, <3>2
  <2>11. pv = [x \in Elem |-> IF x < k THEN (IF x = e THEN N ELSE IF x = e - 1 THEN N ELSE x + 1) ELSE 0]
    <3>1. pv = [x \in Elem |-> IF x = e THEN N ELSE P.prev[x]]
      BY <1>1, <2>1, <2>2
    <3>2. \A x \in Elem : (IF x = e THEN N ELSE P.prev[x])
                          = (IF x < k THEN (IF x = e THEN N ELSE IF x = e - 1 THEN N ELSE x + 1) ELSE 0)
      BY <2>2, <2>8, <2>9
    <3> HIDE DEF pv
    <3> QED
      BY <3>1, <3>2
  <2>12. L3.prev = [x \in Elem |-> IF x < k THEN (IF x = e THEN N ELSE x + 1) ELSE 0]
    <3>1. CASE e = 0
      BY <1>1, <2>1, <2>2, <2>11, <3>1
    <3>2. CASE e # 0
      <4>1. P.last # MaxIdx /\ P.first = e - 1 /\ e - 1 \in Elem
        BY <1>1, <2>1, <2>2, <3>2
      <4> HIDE DEF pv
      <4>2. L3.prev = [pv EXCEPT ![e - 1] = e]
        BY <4>1
      <4> QED
        BY <1>1, <2>1, <2>11, <4>1, <4>2
    <3> QED
      BY <3>1, <3>2
  <2>13. L3.last = 0
    BY <1>1, <2>1, <2>2
  <2> HIDE DEF nx, L3
  <2>14. L4 = Pushed(k)
    <3>1. k - 1 = e
      BY DEF e
    <3> QED
      BY <2>1, <2>10, <2>12, <2>13, <3>1 DEF Pushed
  <2> QED
    BY <2>7, <2>14 DEF P, e
<1> QED
  BY <1>2, <1>3

LEMMA FilledIs ==
  (LET filled[k \in 0 .. N] == IF k = 0 THEN Fresh ELSE Push(filled[k - 1], k - 1)
   IN  filled[N]) = Pushed(N)
<1>1. N \in Nat /\ N \in 0 .. N
  BY NAssumption
<1> DEFINE h == [k \in 0 .. N |-> Pushed(k)]
           Step(g) == [k \in 0 .. N |-> IF k = 0 THEN Fresh ELSE Push(g[k - 1], k - 1)]
           filled == CHOOSE g : g = Step(g)
<1>2. \A k \in 0 .. N : h[k] = Pushed(k)
  OBVIOUS
<1>3. \A k \in 0 .. N : k # 0 => k - 1 \in 0 .. N /\ k - 1 < k /\ k \in 1 .. N
  BY <1>1
<1>4. h = Step(h)
  <2>1. ASSUME NEW k \in 0 .. N
        PROVE  h[k] = IF k = 0 THEN Fresh ELSE Push(h[k - 1], k - 1)
    BY <1>2, <1>3, PushedIs
  <2>2. h = [k \in 0 .. N |-> h[k]]
    OBVIOUS
  <2> HIDE DEF h
  <2> QED
    BY <2>1, <2>2
<1> HIDE DEF h
<1>5. filled = Step(filled)
  <2> HIDE DEF Step
  <2>1. \E g : g = Step(g)
    BY <1>4
  <2> QED
    BY <2>1, Zenon
<1> HIDE DEF filled
<1>6. \A k \in 0 .. N : filled[k] = IF k = 0 THEN Fresh ELSE Push(filled[k - 1], k - 1)
  BY <1>5
<1>7. \A k \in 0 .. N : h[k] = IF k = 0 THEN Fresh ELSE Push(h[k - 1], k - 1)
  BY <1>4
<1> HIDE DEF Step
<1>8. \A k \in 0 .. N : filled[k] = h[k]
  <2> DEFINE T == {k \in 0 .. N : filled[k] # h[k]}
  <2>1. ASSUME T # {}
        PROVE  FALSE
    <3>1. T \in SUBSET Nat
      OBVIOUS
    <3>2. PICK k \in T : \A j \in T : k <= j
      BY <2>1, <3>1, LeastNumber
    <3>3. k \in 0 .. N /\ filled[k] # h[k]
      OBVIOUS
    <3>4. k # 0
      BY <1>6, <1>7, <3>3
    <3>5. k - 1 \in 0 .. N /\ k - 1 < k
      BY <1>3, <3>3, <3>4
    <3>6. filled[k - 1] = h[k - 1]
      BY <3>2, <3>3, <3>5
    <3> QED
      BY <1>6, <1>7, <3>3, <3>4, <3>6
  <2> QED
    BY <2>1
<1>9. filled[N] = Pushed(N)
  BY <1>1, <1>2, <1>8
<1> QED
  BY <1>9 DEF filled, Step

LEMMA Starts ==
  ASSUME Init
  PROVE  TypeOK /\ Single /\ HasShape
<1>1. /\ holders = [e \in Elem |-> 0] /\ op = "none" /\ cur = 0 /\ done = 0
      /\ up = TRUE /\ kills = 0 /\ torn = FALSE
  BY DEF Init
<1>2. list = [l \in {"used", "freed"} |-> IF l = "used" THEN Fresh ELSE Pushed(N)]
  BY FilledIs DEF Init
<1>3. U = Fresh /\ F = Pushed(N)
  BY <1>2 DEF U, F
<1>4. N \in Nat /\ N # 0 /\ Elem = 0 .. N - 1 /\ MaxIdx = N /\ Index = 0 .. N
  BY NAssumption DEF Elem, MaxIdx, Index
<1>5. Fresh \in List
  BY <1>4 DEF Fresh, List
<1>6. Pushed(N) \in List
  <2>1. /\ \A e \in Elem : (IF e < N THEN (IF e = 0 THEN N ELSE e - 1) ELSE 0) \in Index
        /\ \A e \in Elem : (IF e < N THEN (IF e = N - 1 THEN N ELSE e + 1) ELSE 0) \in Index
        /\ (IF N = 0 THEN N ELSE N - 1) \in Index /\ (IF N = 0 THEN N ELSE 0) \in Index
    BY <1>4
  <2> QED
    BY <2>1 DEF Pushed, List
<1>7. TypeOK
  <2>1. list \in [{"used", "freed"} -> List]
    BY <1>2, <1>5, <1>6
  <2>2. /\ holders \in [Elem -> 0 .. 2] /\ cur \in Elem /\ done \in 0 .. 5
        /\ kills \in 0 .. MaxKill /\ op \in {"create", "destroy", "none"}
    BY <1>1, <1>4, NAssumption
  <2>3. up \in BOOLEAN /\ torn \in BOOLEAN
    BY <1>1
  <2> QED
    BY <2>1, <2>2, <2>3 DEF TypeOK
<1>8. Single /\ held = {}
  BY <1>1 DEF Single, held
<1> DEFINE f == [k \in 1 .. N |-> N - k]
           s == [k \in 1 .. 0 |-> 0]
<1>9. \A k \in 1 .. N : f[k] = N - k /\ N - k \in Elem
  BY <1>4
<1>10. IsChain(f, N) /\ Elems(f, N) = Elem
  <2>1. IsChain(f, N)
    BY <1>4, <1>9 DEF IsChain
  <2>2. \A e \in Elem : N - e \in 1 .. N /\ N - (N - e) = e
    BY <1>4
  <2>3. \A e \in Elem : \E k \in 1 .. N : f[k] = e
    BY <1>9, <2>2
  <2> HIDE DEF f
  <2> QED
    BY <1>9, <2>1, <2>3 DEF Elems
<1>11. Linked(F.first, F.next, f, N)
  <2>1. F.first = N - 1 /\ 1 \in 1 .. N /\ f[1] = N - 1
    BY <1>3, <1>4 DEF Pushed
  <2>2. ASSUME NEW k \in 1 .. N
        PROVE  F.next[f[k]] = IF k = N THEN MaxIdx ELSE f[k + 1]
    <3>1. f[k] = N - k /\ N - k \in Elem /\ N - k < N /\ (N - k = 0 <=> k = N)
      BY <1>4, <1>9
    <3>2. F.next[N - k] = IF N - k = 0 THEN N ELSE (N - k) - 1
      BY <1>3, <3>1 DEF Pushed
    <3>3. k # N => k + 1 \in 1 .. N /\ N - (k + 1) = (N - k) - 1
      BY <1>4
    <3> HIDE DEF f
    <3> QED
      BY <1>4, <1>9, <3>1, <3>2, <3>3
  <2> QED
    BY <1>4, <2>1, <2>2 DEF Linked
<1>12. Marked(F)
  <2>1. F.first = N - 1 /\ N - 1 \in Elem /\ N - 1 < N
    BY <1>3, <1>4 DEF Pushed
  <2> QED
    BY <1>3, <1>4, <2>1 DEF Marked, Pushed
<1>13. /\ IsChain(s, 0) /\ Elems(s, 0) = {}
       /\ Linked(U.first, U.next, s, 0) /\ Backed(U, s, 0, MaxIdx)
  BY <1>3 DEF IsChain, Elems, Linked, Backed, Fresh
<1>14. InTransit = {} /\ kills = 0 /\ Cardinality(Elem \ (Elems(s, 0) \cup Elems(f, N) \cup InTransit)) = 0
  <2>1. InTransit = {}
    BY <1>1 DEF InTransit
  <2>2. Elem \ (Elems(s, 0) \cup Elems(f, N) \cup InTransit) = {}
    BY <1>10
  <2> QED
    BY <1>1, <2>1, <2>2, FS_EmptySet
<1> HIDE DEF f, s
<1>15. Idle(s, 0)
  BY <1>8, <1>12, <1>13 DEF Idle, U, F
<1>16. Shape(s, 0, f, N)
  BY <1>1, <1>10, <1>11, <1>13, <1>14, <1>15 DEF Shape, U, F
<1> QED
  BY <1>7, <1>8, <1>16 DEF HasShape

-----------------------------------------------------------------------------
(* The inductive invariant.  A process that resumed on a torn list runs,   *)
(* and is not followed.                                                    *)
IInv ==
  /\ TypeOK
  /\ torn => up
  /\ Single
  /\ torn \/ HasShape

LEMMA TypeKept ==
  ASSUME TypeOK, Next
  PROVE  TypeOK'
<1>1. CASE Create
  <2>1. cur' \in Elem
    <3>1. list["freed"].first \in Index /\ list["freed"].first # MaxIdx /\ cur' = list["freed"].first
      BY <1>1 DEF Create, TypeOK, List
    <3> QED
      BY <3>1, ElemFacts
  <2> QED
    BY <1>1, <2>1 DEF Create, TypeOK
<1>2. CASE \E e \in Elem : Destroy(e)
  <2>1. PICK e \in Elem : Destroy(e)
    BY <1>2
  <2>2. holders[e] \in 0 .. 2 /\ holders[e] > 0 /\ holders' = [holders EXCEPT ![e] = holders[e] - 1]
    BY <2>1 DEF Destroy, TypeOK
  <2>3. holders[e] - 1 \in 0 .. 2
    BY <2>2
  <2>4. holders' \in [Elem -> 0 .. 2]
    BY <2>2, <2>3 DEF TypeOK
  <2> QED
    BY <2>1, <2>4 DEF Destroy, TypeOK
<1>3. CASE Write
  <2>1. op = "create" \/ op = "destroy"
    BY <1>3 DEF Write, TypeOK
  <2>2. list' \in [{"used", "freed"} -> List]
    BY <1>3, <2>1, CreateWrites, DestroyWrites DEF Write
  <2>3. done' \in 0 .. 5
    BY <1>3 DEF Write, TypeOK
  <2> QED
    BY <1>3, <2>2, <2>3 DEF Write, TypeOK
<1>4. CASE Return
  <2>1. op = "create" \/ op = "destroy"
    BY <1>4 DEF Return, TypeOK
  <2>2. list' \in [{"used", "freed"} -> List]
    BY <1>4, <2>1, CreateWrites, DestroyWrites DEF Return
  <2>3. holders[cur] \in 0 .. 2 /\ cur \in Elem /\ holders \in [Elem -> 0 .. 2]
    BY DEF TypeOK
  <2>4. Least(holders[cur] + 1, 2) \in 0 .. 2
    BY <2>3 DEF Least
  <2>5. holders' \in [Elem -> 0 .. 2]
    BY <1>4, <2>3, <2>4 DEF Return
  <2>6. /\ op' = "none" /\ done' = 0 /\ cur' = 0 /\ UNCHANGED <<up, kills, torn>>
    BY <1>4 DEF Return
  <2> QED
    BY <2>2, <2>5, <2>6, ElemFacts DEF TypeOK
<1>5. CASE Kill
  <2>1. kills' \in 0 .. MaxKill
    BY <1>5, NAssumption DEF Kill, TypeOK
  <2> QED
    BY <1>5, <2>1 DEF Kill, TypeOK
<1>6. CASE Resume
  <2>1. holders' \in [Elem -> 0 .. 2]
    BY <1>6, ResumeHolds
  <2>2. torn' \in BOOLEAN /\ up' = TRUE
    BY <1>6 DEF Resume
  <2>3. op' = "none" /\ done' = 0 /\ cur' = 0 /\ UNCHANGED <<list, kills>>
    BY <1>6 DEF Resume
  <2> QED
    BY <2>1, <2>2, <2>3, ElemFacts DEF TypeOK
<1> QED
  BY <1>1, <1>2, <1>3, <1>4, <1>5, <1>6 DEF Next

(* One step, one action each.                                              *)
LEMMA StepKeeps ==
  ASSUME IInv, Next
  PROVE  IInv'
<1>1. ~ torn /\ TypeOK /\ Single /\ HasShape
  BY DEF IInv, Next
<1>2. TypeOK'
  BY <1>1, TypeKept
<1>3. CASE Create
  <2>1. PICK s, n, f, m : Shape(s, n, f, m)
    BY <1>1 DEF HasShape
  <2>2. Shape(s, n, f, m)'
    BY <1>1, <1>3, <2>1, CreateShape
  <2>3. HasShape'
    BY <2>2 DEF HasShape
  <2>4. holders' = holders /\ torn' = torn
    BY <1>3 DEF Create
  <2> QED
    BY <1>1, <1>2, <2>3, <2>4 DEF IInv, Single
<1>4. CASE \E e \in Elem : Destroy(e)
  <2>1. PICK e \in Elem : Destroy(e)
    BY <1>4
  <2>2. PICK s, n, f, m : Shape(s, n, f, m)
    BY <1>1 DEF HasShape
  <2>3. Shape(s, n, f, m)' /\ Single'
    BY <1>1, <2>1, <2>2, DestroyShape
  <2>4. HasShape'
    BY <2>3 DEF HasShape
  <2>5. torn' = torn
    BY <2>1 DEF Destroy
  <2> QED
    BY <1>1, <1>2, <2>3, <2>4, <2>5 DEF IInv
<1>5. CASE Write
  <2>1. op = "create" \/ op = "destroy"
    BY <1>1, <1>5 DEF Write, TypeOK
  <2>2. HasShape'
    BY <1>1, <1>5, <2>1, CreateWrite, DestroyWrite
  <2>3. holders' = holders /\ torn' = torn
    BY <1>5 DEF Write
  <2> QED
    BY <1>1, <1>2, <2>2, <2>3 DEF IInv, Single
<1>6. CASE Return
  <2>1. CASE op = "create"
    <3>1. HasShape' /\ Single'
      BY <1>1, <1>6, <2>1, CreateReturns
    <3> QED
      BY <1>1, <1>2, <1>6, <3>1 DEF IInv, Return
  <2>2. CASE op = "destroy"
    <3>1. HasShape' /\ holders' = holders
      BY <1>1, <1>6, <2>2, DestroyReturns
    <3> QED
      BY <1>1, <1>2, <1>6, <3>1 DEF IInv, Return, Single
  <2> QED
    BY <1>1, <1>6, <2>1, <2>2 DEF Return, TypeOK
<1>7. CASE Kill
  <2>1. HasShape'
    BY <1>1, <1>7, KillShape
  <2>2. holders' = holders /\ torn' = torn
    BY <1>7 DEF Kill
  <2> QED
    BY <1>1, <1>2, <2>1, <2>2 DEF IInv, Single
<1>8. CASE Resume
  <2>1. Single' /\ up' = TRUE
    BY <1>1, <1>8, ResumeHolds DEF Resume
  <2>2. ~ torn' => HasShape'
    BY <1>1, <1>8, ResumeShape
  <2> QED
    BY <1>2, <2>1, <2>2 DEF IInv
<1> QED
  BY <1>3, <1>4, <1>5, <1>6, <1>7, <1>8 DEF Next

LEMMA Invariance == Spec => []IInv
<1>1. Init => IInv
  BY Starts DEF IInv, Init
<1>2. IInv /\ [Next]_vars => IInv'
  <2>1. ASSUME IInv, vars' = vars
        PROVE  IInv'
    <3>1. /\ list' = list /\ holders' = holders /\ op' = op /\ cur' = cur /\ done' = done
          /\ up' = up /\ kills' = kills /\ torn' = torn
      BY <2>1 DEF vars
    <3>2. TypeOK' /\ Single'
      BY <2>1, <3>1 DEF IInv, TypeOK, Single
    <3>3. HasShape => HasShape'
      <4> SUFFICES ASSUME NEW s, NEW n, NEW f, NEW m, Shape(s, n, f, m)
                   PROVE  Shape(s, n, f, m)'
        BY DEF HasShape
      <4>1. held' = held /\ InTransit' = InTransit
        BY <3>1 DEF held, InTransit
      <4>2. /\ Idle(s, n) => Idle(s, n)'
            /\ Creating(s, n, f, m) => Creating(s, n, f, m)'
            /\ Destroying(s, n, f, m) => Destroying(s, n, f, m)'
        BY <3>1, <4>1 DEF Idle, Creating, Destroying
      <4> QED
        BY <3>1, <4>1, <4>2 DEF Shape
    <3> QED
      BY <2>1, <3>1, <3>2, <3>3 DEF IInv
  <2> QED
    BY <2>1, StepKeeps
<1> QED
  BY <1>1, <1>2, PTL DEF Spec

-----------------------------------------------------------------------------
(* Wherever kill -9 falls among the writes of create_##name and            *)
(* destory_##name, and however often it does, resume_##name walks a list   *)
(* that ends and finds all the program held, at most the element of the    *)
(* call under way besides, and nothing that is free.                       *)
THEOREM KillAnywhereIsSurvived == Spec => []KillIsSurvived
<1>1. IInv => KillIsSurvived
  <2> SUFFICES ASSUME IInv, ~ up
               PROVE  KillIsSurvived
    BY DEF KillIsSurvived
  <2>1. TypeOK /\ HasShape
    BY DEF IInv
  <2>2. PICK s, n, f, m : Shape(s, n, f, m)
    BY <2>1 DEF HasShape
  <2> QED
    BY <2>1, <2>2, Walked DEF KillIsSurvived, U, F
<1> QED
  BY <1>1, Invariance, PTL

(* Between two calls, with no torn link, the used list read forwards or    *)
(* backwards is what the program holds, nothing is in both lists, and each *)
(* kill has cost at most one element.                                      *)
THEOREM ListsAgree == Spec => []ListsExact
<1>1. IInv => ListsExact
  <2> SUFFICES ASSUME IInv
               PROVE  ListsExact
    OBVIOUS
  <2>1. TypeOK
    BY DEF IInv
  <2>2. ASSUME up, op = "none", ~ torn
        PROVE  /\ Ends(U) /\ Ends(F) /\ ForEachUsed = held /\ held \cap Members(F) = {}
               /\ Cardinality(Elem \ (held \cup Members(F))) <= kills
               /\ Mirrored(U) /\ Marked(F)
    <3>1. PICK s, n, f, m : Shape(s, n, f, m)
      BY <2>2 DEF IInv, HasShape
    <3>2. /\ Ends(U) /\ Ends(F) /\ ForEachUsed = Elems(s, n) /\ Members(F) = Elems(f, m)
          /\ ForEachUsed \cap Members(F) = {}
      BY <2>1, <3>1, Walked
    <3>3. held = Elems(s, n) /\ Backed(U, s, n, MaxIdx) /\ Marked(F)
      BY <2>2, <3>1 DEF Shape, Idle, U, F
    <3>4. InTransit = {}
      BY <2>2 DEF InTransit
    <3>5. Elem \ (held \cup Members(F)) = Elem \ (Elems(s, n) \cup Elems(f, m) \cup InTransit)
      BY <3>2, <3>3, <3>4
    <3>6. Cardinality(Elem \ (held \cup Members(F))) <= kills
      BY <3>1, <3>5 DEF Shape
    <3>7. Mirrored(U)
      <4>1. IsChain(s, n) /\ Linked(U.first, U.next, s, n)
        BY <3>1 DEF Shape, U
      <4> QED
        BY <3>3, <4>1, MirrorIs
    <3> QED
      BY <3>2, <3>3, <3>6, <3>7
  <2> QED
    BY <2>1, <2>2 DEF ListsExact, U, F, Marked
<1> QED
  BY <1>1, Invariance, PTL

(* The pool, with its lists, its writes and its kills, is an allocator: an *)
(* object is handed out to one holder at a time, and a restart loses none. *)
LEMMA HoldsAre ==
  ASSUME NEW h \in [Elem -> Nat], \A e \in Elem : h[e] <= 1
  PROVE  h = A!Hold({e \in Elem : h[e] > 0})
<1>1. \A e \in Elem : h[e] = IF e \in {d \in Elem : h[d] > 0} THEN 1 ELSE 0
  OBVIOUS
<1> QED
  BY <1>1 DEF A!Hold

LEMMA StepIsAllocation ==
  ASSUME IInv, Next, TypeOK', Single'
  PROVE  A!ANext \/ holders' = holders
<1>1. ~ torn /\ TypeOK /\ Single /\ HasShape
  BY DEF IInv, Next
<1>2. A!held = held /\ \A e : e \in held => e \in Elem
  BY DEF A!held, held
<1>3. holders' = A!Hold(held')
  <2>1. holders' \in [Elem -> Nat] /\ \A e \in Elem : holders'[e] <= 1
    BY DEF TypeOK, Single
  <2>2. held' = {e \in Elem : holders'[e] > 0}
    BY DEF held
  <2> QED
    BY <2>1, <2>2, HoldsAre
<1>4. CASE Create \/ Write \/ Kill
  BY <1>4 DEF Create, Write, Kill
<1>5. CASE \E e \in Elem : Destroy(e)
  <2>1. PICK e \in Elem : Destroy(e)
    BY <1>5
  <2>2. holders[e] > 0 /\ holders' = [holders EXCEPT ![e] = holders[e] - 1]
    BY <2>1 DEF Destroy
  <2>3. holders \in [Elem -> 0 .. 2] /\ holders[e] = 1
    BY <1>1, <2>2 DEF TypeOK, Single
  <2>4. held' = held \ {e} /\ e \in held
    <3>1. holders'[e] = 0 /\ \A d \in Elem : d # e => holders'[d] = holders[d]
      BY <2>2, <2>3
    <3> QED
      BY <2>2, <3>1 DEF held
  <2>5. A!Release(e)
    BY <1>2, <1>3, <2>4 DEF A!Release
  <2> QED
    BY <2>5 DEF A!ANext
<1>6. CASE Return
  <2>1. CASE op = "create"
    <3>1. cur \notin held /\ held' = held \cup {cur} /\ cur \in Elem
      BY <1>1, <1>6, <2>1, CreateReturns DEF TypeOK
    <3>2. A!Allocate(cur)
      BY <1>2, <1>3, <3>1 DEF A!Allocate
    <3> QED
      BY <3>1, <3>2 DEF A!ANext
  <2>2. CASE op # "create"
    BY <1>6, <2>2 DEF Return
  <2> QED
    BY <2>1, <2>2
<1>7. CASE Resume
  <2>1. PICK s, n, f, m : Shape(s, n, f, m)
    BY <1>1 DEF HasShape
  <2>2. /\ held \subseteq ForEachUsed
        /\ ForEachUsed \subseteq held \cup (IF op = "none" THEN {} ELSE {cur})
    BY <1>1, <2>1, Walked
  <2>3. held' = ForEachUsed \cap Elem
    BY <1>1, <1>7, ResumeHolds
  <2> DEFINE more == held' \ held
  <2>4. held' = held \cup more /\ more \in SUBSET (Elem \ held) /\ more \subseteq {cur}
    BY <1>2, <2>2, <2>3
  <2> HIDE DEF more
  <2>5. A!Cardinality(more) <= 1
    <3>1. more = {} \/ more = {cur}
      BY <2>4
    <3>2. Cardinality({}) = 0 /\ Cardinality({cur}) = 1
      BY FS_EmptySet, FS_Singleton, Zenon
    <3>3. Cardinality(more) = 0 \/ Cardinality(more) = 1
      BY <3>1, <3>2
    <3>4. Cardinality(more) <= 1
      BY <3>3
    <3>5. A!Cardinality(more) = Cardinality(more)
      BY Zenon DEF A!Cardinality, Cardinality
    <3> QED
      BY <3>4, <3>5
  <2>6. A!Recover
    BY <1>2, <1>3, <2>4, <2>5 DEF A!Recover
  <2> QED
    BY <2>6 DEF A!ANext
<1> QED
  BY <1>4, <1>5, <1>6, <1>7 DEF Next

THEOREM PoolIsAnAllocator == Spec => KeepsHolders
<1>1. Init => A!AInit
  <2> SUFFICES ASSUME Init
               PROVE  A!AInit
    OBVIOUS
  <2>1. holders = [e \in Elem |-> 0]
    BY DEF Init
  <2>2. \A e \in Elem : (IF e \in {} THEN 1 ELSE 0) = 0
    OBVIOUS
  <2> QED
    BY <2>1, <2>2 DEF A!AInit, A!Hold
<1>2. IInv /\ IInv' /\ [Next]_vars => [A!ANext]_holders
  <2> SUFFICES ASSUME IInv, IInv', [Next]_vars
               PROVE  [A!ANext]_holders
    OBVIOUS
  <2>1. CASE vars' = vars
    BY <2>1 DEF vars
  <2>2. CASE Next
    <3>1. TypeOK'
      BY DEF IInv
    <3>2. Single'
      BY DEF IInv
    <3> QED
      BY <2>2, <3>1, <3>2, StepIsAllocation
  <2> QED
    BY <2>1, <2>2
<1> QED
  BY <1>1, <1>2, Invariance, PTL DEF Spec, KeepsHolders, A!ASpec
=============================================================================
