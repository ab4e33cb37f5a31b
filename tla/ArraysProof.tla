----------------------------- MODULE ArraysProof ------------------------------
(* Theorems about the arrays in shared memory, over kills at any moment:   *)
(* SortArray, for every length and every set of integer keys, and Friends, *)
(* for every set of accounts and every size of its arrays.                 *)
EXTENDS SortArray, Friends, FiniteSetTheorems, TLAPS

(* Places in order of what they hold, and without a key twice.             *)
Ordered(S) == \A i, j \in S : i < j => mem[i] <= mem[j]
Strict(S)  == \A i, j \in S : i < j => mem[i] < mem[j]

(* The places in S lie on their side of the key.                           *)
Divided(S) == \A i \in S : (i < pos => mem[i] < key) /\ (i >= pos => key < mem[i])

Searching ==
  /\ low <= high /\ high <= n
  /\ call = "insert" => n < Cap
  /\ \A i \in 0 .. low - 1 : mem[i] < key
  /\ \A i \in high .. n - 1 : key < mem[i]

Moving ==
  /\ call = "insert" => n < Cap /\ Divided(0 .. n - 1)
  /\ call = "delete" => pos < n /\ mem[pos] = key

(* Behind the memmove of an insertion the place at pos is a copy of the    *)
(* next until it gets the key; behind that of a deletion the last place is *)
(* a copy of the one before it, or still holds the key.                    *)
Inserted ==
  /\ n < Cap
  /\ Ordered((0 .. n) \ {pos}) /\ Divided((0 .. n) \ {pos})
  /\ step = "write" => (pos < n => mem[pos] = mem[pos + 1])
  /\ step = "count" => mem[pos] = key

Deleted ==
  /\ pos < n
  /\ key <= mem[n - 1]
  /\ mem[n - 1] # key => n > 1 /\ mem[n - 2] = mem[n - 1]

InOrder  == Ordered(0 .. n - 1)
NotTwice == whole => Strict(Counted)

IInv ==
  /\ TypeOK
  /\ InOrder
  /\ NotTwice
  /\ step = "search" => Searching
  /\ step = "move" => Moving
  /\ step = "write" => call = "insert"
  /\ step \in {"write", "count"} /\ call = "insert" => Inserted
  /\ step = "count" /\ call = "delete" => Deleted

-----------------------------------------------------------------------------
LEMMA InitHolds == Init => IInv
<1> SUFFICES ASSUME Init PROVE IInv
  OBVIOUS
<1>1. key \in Key
  BY SortArrayAssumption DEF Init
<1>2. TypeOK
  BY <1>1, SortArrayAssumption DEF Init, TypeOK, Place, Calls
<1> QED BY <1>2 DEF Init, IInv, Ordered, Strict, Counted, InOrder, NotTwice

LEMMA StartKeeps ==
  ASSUME IInv, NEW c \in Calls, NEW k \in Key, Start(c, k)
  PROVE  IInv'
<1>1. TypeOK'
  BY SortArrayAssumption DEF Start, IInv, TypeOK, Calls, Place
<1>2. Searching' /\ InOrder' /\ NotTwice'
  BY DEF Start, IInv, TypeOK, Searching, Ordered, Strict, Counted, Calls, InOrder, NotTwice
<1> QED BY <1>1, <1>2 DEF Start, IInv

(* What a search that ends knows.                                          *)
LEMMA ReturnsKeeps ==
  ASSUME IInv, step = "search", NEW find \in BOOLEAN, NEW i \in 0 .. n,
         find => i < n /\ mem[i] = key,
         ~find => \A j \in 0 .. n - 1 : (j < i => mem[j] < key) /\ (j >= i => key < mem[j]),
         Returns(find, i), UNCHANGED <<mem, n, whole, kills>>
  PROVE  IInv'
<1> USE SortArrayAssumption
<1>1. /\ n \in 0 .. Cap /\ key \in Key /\ call \in {"insert", "delete"} /\ mem \in [Place -> Key]
      /\ Cap \in Nat
  BY DEF IInv, TypeOK, Calls
<1>2. UNCHANGED <<call, key, low, high>>
  BY DEF Returns, search
<1>3. Ordered(0 .. n - 1) /\ (whole => Strict(0 .. n - 1)) /\ Searching
  BY DEF IInv, InOrder, NotTwice, Counted
<1>4. Counted = 0 .. n - 1 /\ (step' \in {"idle", "move"} => Counted' = 0 .. n - 1)
  BY DEF Counted
<1>5. InOrder' /\ (step' \in {"idle", "move"} => NotTwice')
  BY <1>3, <1>4 DEF InOrder, NotTwice, Ordered, Strict
<1>6. CASE find <=> call = "insert"
  <2>1. step' = "idle" /\ pos' = pos /\ answer' = [call |-> call, key |-> key, done |-> FALSE]
    BY <1>6 DEF Returns
  <2>2. TypeOK'
    BY <1>1, <1>2, <2>1 DEF IInv, TypeOK, Calls
  <2> QED BY <1>5, <2>1, <2>2 DEF IInv
<1>7. CASE ~(find <=> call = "insert")
  <2>1. step' = "move" /\ pos' = i /\ answer' = answer
    BY <1>7 DEF Returns
  <2>2. (call = "insert" => n < Cap /\ i \in Place) /\ (call = "delete" => i < n /\ i \in Place)
    BY <1>1, <1>3, <1>7 DEF Searching, Place
  <2>3. TypeOK'
    BY <1>1, <1>2, <2>1, <2>2 DEF IInv, TypeOK
  <2>4. Moving'
    BY <1>1, <1>2, <1>7, <2>1, <2>2 DEF Moving, Divided
  <2> QED BY <1>5, <2>1, <2>3, <2>4 DEF IInv
<1> QED BY <1>6, <1>7

LEMMA SearchKeeps ==
  ASSUME IInv, Search
  PROVE  IInv'
<1> USE SortArrayAssumption
<1>1. step = "search" /\ UNCHANGED <<mem, n, whole, kills>>
  BY DEF Search
<1>2. /\ n \in 0 .. Cap /\ key \in Key /\ call \in Calls /\ mem \in [Place -> Key]
      /\ Cap \in Nat /\ low \in 0 .. Cap /\ high \in 0 .. Cap
      /\ key \in Int /\ \A i \in 0 .. Cap - 1 : mem[i] \in Int
  BY DEF IInv, TypeOK, Place
<1>3. Ordered(0 .. n - 1) /\ Searching
  BY <1>1 DEF IInv, InOrder
<1>4. CASE ~(low < high)
  <2>1. Returns(FALSE, high)
    BY <1>2, <1>4 DEF Search
  <2>2. high \in 0 .. n /\ \A j \in 0 .. n - 1 : (j < high => mem[j] < key) /\ (j >= high => key < mem[j])
    BY <1>2, <1>3, <1>4 DEF Searching
  <2> QED BY <1>1, <2>1, <2>2, ReturnsKeeps
<1>5. CASE low < high
  <2>1. Probe
    BY <1>5 DEF Search
  <2> DEFINE m == idx
  <2>2. m \in low .. high - 1 /\ m \in 0 .. n - 1 /\ m \in Place
    BY <1>2, <1>3, <1>5 DEF idx, Searching, Place
  <2>3. /\ \/ key = mem[m] /\ Returns(TRUE, m)
           \/ /\ key < mem[m] /\ (m > 0 => key > mem[m - 1])
              /\ Returns(FALSE, m)
           \/ /\ key < mem[m] /\ m > 0 /\ key <= mem[m - 1]
              /\ high' = m
              /\ UNCHANGED <<call, key, low, step, pos, answer>>
           \/ /\ key > mem[m]
              /\ low' = m + 1
              /\ UNCHANGED <<call, key, high, step, pos, answer>>
    BY <2>1 DEF Probe
  <2> HIDE DEF m
  <2>4. CASE key = mem[m] /\ Returns(TRUE, m)
    <3>1. m \in 0 .. n /\ m < n
      BY <1>2, <2>2
    <3> QED BY <1>1, <2>4, <3>1, ReturnsKeeps
  <2>5. CASE key < mem[m] /\ (m > 0 => key > mem[m - 1]) /\ Returns(FALSE, m)
    <3>1. \A j \in 0 .. n - 1 : (j < m => mem[j] < key) /\ (j >= m => key < mem[j])
      BY <1>2, <1>3, <2>2, <2>5 DEF Ordered, Place, InOrder
    <3>2. m \in 0 .. n
      BY <1>2, <2>2
    <3> QED BY <1>1, <2>5, <3>1, <3>2, ReturnsKeeps
  <2>6. CASE /\ key < mem[m] /\ m > 0 /\ key <= mem[m - 1]
             /\ high' = m
             /\ UNCHANGED <<call, key, low, step, pos, answer>>
    <3>1. TypeOK'
      BY <1>1, <1>2, <2>2, <2>6 DEF IInv, TypeOK
    <3>2. Searching'
      BY <1>1, <1>2, <1>3, <2>2, <2>6 DEF Searching, Ordered, Place, InOrder
    <3> QED BY <1>1, <2>6, <3>1, <3>2 DEF IInv, Ordered, Strict, Counted, InOrder, NotTwice
  <2>7. CASE /\ key > mem[m]
             /\ low' = m + 1
             /\ UNCHANGED <<call, key, high, step, pos, answer>>
    <3>1. TypeOK'
      BY <1>1, <1>2, <1>3, <2>2, <2>7 DEF IInv, TypeOK, Searching
    <3>2. Searching'
      BY <1>1, <1>2, <1>3, <2>2, <2>7 DEF Searching, Ordered, Place, InOrder
    <3> QED BY <1>1, <2>7, <3>1, <3>2 DEF IInv, Ordered, Strict, Counted, InOrder, NotTwice
  <2> QED BY <2>3, <2>4, <2>5, <2>6, <2>7
<1> QED BY <1>2, <1>4, <1>5

(* What the types say of the numbers.                                      *)
LEMMA InRange ==
  ASSUME IInv
  PROVE  /\ Cap \in Nat /\ n \in Nat /\ n <= Cap /\ pos \in Nat /\ pos <= Cap
         /\ mem \in [Place -> Key] /\ key \in Key /\ key \in Int
         /\ call \in {"insert", "delete"}
         /\ \A i \in 0 .. Cap - 1 : mem[i] \in Key /\ mem[i] \in Int
         /\ step \in {"move", "write", "count"} => pos <= n /\ pos < Cap /\ pos \in Place
<1>1. /\ Cap \in Nat /\ n \in 0 .. Cap /\ pos \in 0 .. Cap
      /\ mem \in [Place -> Key] /\ key \in Key /\ call \in {"insert", "delete"}
      /\ step \in {"move", "write", "count"} => pos <= n /\ pos \in Place
  BY SortArrayAssumption DEF IInv, TypeOK, Calls
<1>2. \A i \in 0 .. Cap - 1 : mem[i] \in Key
  BY <1>1, Zenon DEF Place
<1>3. key \in Int /\ \A i \in 0 .. Cap - 1 : mem[i] \in Int
  BY <1>1, <1>2, SortArrayAssumption, Zenon
<1>4. n \in Nat /\ n <= Cap /\ pos \in Nat /\ pos <= Cap
  BY <1>1
<1>5. step \in {"move", "write", "count"} => pos < Cap
  BY <1>1 DEF Place
<1> QED BY <1>1, <1>2, <1>3, <1>4, <1>5

(* What is known when memmove starts.                                      *)
LEMMA AtMove ==
  ASSUME IInv, step = "move"
  PROVE  /\ n \in Nat /\ Cap \in Nat /\ n <= Cap /\ pos \in Nat /\ pos <= n
         /\ mem \in [Place -> Key] /\ key \in Key /\ call \in {"insert", "delete"}
         /\ key \in Int /\ \A i \in 0 .. Cap - 1 : mem[i] \in Int /\ mem[i] \in Key
         /\ Counted = 0 .. n - 1 /\ Ordered(0 .. n - 1) /\ (whole => Strict(0 .. n - 1))
         /\ call = "insert" => n < Cap /\ Divided(0 .. n - 1)
         /\ call = "delete" => pos < n /\ mem[pos] = key
<1>1. Counted = 0 .. n - 1
  BY DEF Counted
<1>2. /\ Ordered(0 .. n - 1) /\ (whole => Strict(0 .. n - 1))
      /\ call = "insert" => n < Cap /\ Divided(0 .. n - 1)
      /\ call = "delete" => pos < n /\ mem[pos] = key
  BY <1>1 DEF IInv, InOrder, NotTwice, Moving
<1> QED BY <1>1, <1>2, InRange

(* Whatever part of the entries memmove has written, each holds its own    *)
(* old value or its neighbour's.                                           *)
LEMMA MovedAt ==
  ASSUME IInv, step = "move", NEW S \in SUBSET Span
  PROVE  /\ Moved(S) \in [Place -> Key]
         /\ call = "insert" =>
              /\ \A i \in S : pos < i /\ i <= n
              /\ \A i \in 0 .. Cap - 1 : Moved(S)[i] = IF i \in S THEN mem[i - 1] ELSE mem[i]
         /\ call = "delete" =>
              /\ \A i \in S : pos <= i /\ i < n - 1
              /\ \A i \in 0 .. Cap - 1 : Moved(S)[i] = IF i \in S THEN mem[i + 1] ELSE mem[i]
<1>1. /\ n \in Nat /\ Cap \in Nat /\ n <= Cap /\ pos \in Nat /\ pos <= n
      /\ \A i \in 0 .. Cap - 1 : mem[i] \in Key
      /\ call \in {"insert", "delete"} /\ (call = "insert" => n < Cap)
  BY AtMove
<1>2. CASE call = "insert"
  <2>1. \A i \in S : pos < i /\ i <= n /\ i \in Nat /\ i - 1 \in 0 .. Cap - 1
    BY <1>1, <1>2 DEF Span
  <2>2. \A i \in 0 .. Cap - 1 : Moved(S)[i] = IF i \in S THEN mem[i - 1] ELSE mem[i]
    BY <1>2 DEF Moved, Place
  <2>3. \A i \in 0 .. Cap - 1 : Moved(S)[i] \in Key
    BY <1>1, <2>1, <2>2
  <2>4. Moved(S) \in [Place -> Key]
    BY <2>3 DEF Moved, Place
  <2> QED BY <1>2, <2>1, <2>2, <2>4
<1>3. CASE call = "delete"
  <2>1. \A i \in S : pos <= i /\ i < n - 1 /\ i \in Nat /\ i + 1 \in 0 .. Cap - 1
    BY <1>1, <1>3 DEF Span
  <2>2. \A i \in 0 .. Cap - 1 : Moved(S)[i] = IF i \in S THEN mem[i + 1] ELSE mem[i]
    BY <1>3 DEF Moved, Place
  <2>3. \A i \in 0 .. Cap - 1 : Moved(S)[i] \in Key
    BY <1>1, <2>1, <2>2
  <2>4. Moved(S) \in [Place -> Key]
    BY <2>3 DEF Moved, Place
  <2> QED BY <1>3, <2>1, <2>2, <2>4
<1> QED BY <1>1, <1>2, <1>3

(* So the entries stay in order.                                           *)
LEMMA MovedOrder ==
  ASSUME IInv, step = "move", NEW S \in SUBSET Span
  PROVE  \A i, j \in 0 .. n - 1 : i < j => Moved(S)[i] <= Moved(S)[j]
<1> SUFFICES ASSUME NEW i \in 0 .. n - 1, NEW j \in 0 .. n - 1, i < j
             PROVE  Moved(S)[i] <= Moved(S)[j]
  OBVIOUS
<1>1. /\ n \in Nat /\ Cap \in Nat /\ n <= Cap /\ pos \in Nat
      /\ \A x \in 0 .. Cap - 1 : mem[x] \in Int
      /\ \A x, y \in 0 .. n - 1 : x < y => mem[x] <= mem[y]
      /\ call \in {"insert", "delete"}
  BY AtMove DEF Ordered
<1>2. \A x, y \in 0 .. n - 1 : x <= y => mem[x] <= mem[y]
  BY <1>1
<1>3. i \in 0 .. Cap - 1 /\ j \in 0 .. Cap - 1
  BY <1>1
<1>4. CASE call = "insert"
  <2>1. /\ Moved(S)[i] = IF i \in S THEN mem[i - 1] ELSE mem[i]
        /\ Moved(S)[j] = IF j \in S THEN mem[j - 1] ELSE mem[j]
        /\ i \in S => pos < i
    BY <1>3, <1>4, MovedAt
  <2>2. mem[i] <= mem[j - 1] /\ mem[j - 1] <= mem[j] /\ (i \in S => mem[i - 1] <= mem[i])
    BY <1>1, <1>2, <2>1
  <2>3. mem[i] \in Int /\ mem[j] \in Int /\ mem[j - 1] \in Int /\ (i \in S => mem[i - 1] \in Int)
    BY <1>1, <1>3, <2>1
  <2> QED BY <2>1, <2>2, <2>3
<1>5. CASE call = "delete"
  <2>1. /\ Moved(S)[i] = IF i \in S THEN mem[i + 1] ELSE mem[i]
        /\ Moved(S)[j] = IF j \in S THEN mem[j + 1] ELSE mem[j]
        /\ j \in S => j < n - 1
    BY <1>3, <1>5, MovedAt
  <2>2. mem[i + 1] <= mem[j] /\ mem[i] <= mem[i + 1] /\ (j \in S => mem[j] <= mem[j + 1])
    BY <1>1, <1>2, <2>1
  <2>3. mem[i] \in Int /\ mem[j] \in Int /\ mem[i + 1] \in Int /\ (j \in S => mem[j + 1] \in Int)
    BY <1>1, <1>3, <2>1
  <2> QED BY <2>1, <2>2, <2>3
<1> QED BY <1>1, <1>4, <1>5

LEMMA MoveKeeps ==
  ASSUME IInv, Move
  PROVE  IInv'
<1> USE SortArrayAssumption
<1>1. /\ step = "move" /\ UNCHANGED <<n, call, key, low, high, pos, answer, whole, kills>>
      /\ mem' = Moved(Span) /\ step' = IF call = "insert" THEN "write" ELSE "count"
  BY DEF Move, search
<1>2. /\ n \in Nat /\ Cap \in Nat /\ n <= Cap /\ pos \in Nat /\ pos <= n
      /\ key \in Int /\ \A i \in 0 .. Cap - 1 : mem[i] \in Int
      /\ call \in {"insert", "delete"}
      /\ \A x, y \in 0 .. n - 1 : x < y => mem[x] <= mem[y]
      /\ whole => \A x, y \in 0 .. n - 1 : x < y => mem[x] < mem[y]
  BY <1>1, AtMove DEF Ordered, Strict
<1>3. TypeOK'
  <2>1. mem' \in [Place -> Key]
    BY <1>1, MovedAt
  <2> QED BY <1>1, <2>1 DEF IInv, TypeOK
<1>4. InOrder'
  BY <1>1, MovedOrder DEF InOrder, Ordered
<1>5. CASE call = "insert"
  <2>1. /\ n < Cap
        /\ \A i \in 0 .. n - 1 : (i < pos => mem[i] < key) /\ (i >= pos => key < mem[i])
    BY <1>1, <1>5, AtMove DEF Divided
  <2>2. \A i \in 0 .. n : mem'[i] = IF i > pos THEN mem[i - 1] ELSE mem[i]
    <3>1. Span \in SUBSET Span
      OBVIOUS
    <3>2. \A i \in 0 .. Cap - 1 : Moved(Span)[i] = IF i \in Span THEN mem[i - 1] ELSE mem[i]
      BY <1>1, <1>5, <3>1, MovedAt
    <3>3. Span = pos + 1 .. n
      BY <1>5 DEF Span
    <3>4. \A i \in 0 .. Cap - 1 : mem'[i] = IF i \in pos + 1 .. n THEN mem[i - 1] ELSE mem[i]
      BY <1>1, <3>2, <3>3
    <3> QED BY <1>2, <2>1, <3>4
  <2>3. Ordered((0 .. n) \ {pos})' /\ (whole => Strict((0 .. n) \ {pos})')
    BY <1>1, <1>2, <2>2 DEF Ordered, Strict
  <2>4. Divided((0 .. n) \ {pos})'
    BY <1>1, <1>2, <2>1, <2>2 DEF Divided
  <2>5. pos < n => mem'[pos] = mem'[pos + 1]
    BY <1>2, <2>2
  <2>6. step' = "write" /\ Inserted'
    BY <1>1, <1>5, <2>1, <2>3, <2>4, <2>5 DEF Inserted
  <2>7. NotTwice'
    BY <1>1, <1>5, <2>3, <2>6 DEF NotTwice, Counted, Strict
  <2> QED BY <1>1, <1>3, <1>4, <1>5, <2>6, <2>7 DEF IInv
<1>6. CASE call = "delete"
  <2>1. pos < n /\ mem[pos] = key
    BY <1>1, <1>6, AtMove
  <2>2. \A i \in 0 .. n - 1 : mem'[i] = IF i \in pos .. n - 2 THEN mem[i + 1] ELSE mem[i]
    <3>1. Span \in SUBSET Span
      OBVIOUS
    <3>2. \A i \in 0 .. Cap - 1 : Moved(Span)[i] = IF i \in Span THEN mem[i + 1] ELSE mem[i]
      BY <1>1, <1>6, <3>1, MovedAt
    <3>3. Span = pos .. n - 2
      BY <1>6 DEF Span
    <3>4. \A i \in 0 .. Cap - 1 : mem'[i] = IF i \in pos .. n - 2 THEN mem[i + 1] ELSE mem[i]
      BY <1>1, <3>2, <3>3
    <3> QED BY <1>2, <3>4
  <2>3. whole => \A x, y \in 0 .. n - 2 : x < y => mem'[x] < mem'[y]
    <3>1. \A x \in 0 .. n - 2 : mem'[x] = IF x >= pos THEN mem[x + 1] ELSE mem[x]
      BY <1>2, <2>2
    <3> QED BY <1>2, <3>1
  <2>4. step' = "count" /\ Counted' = 0 .. n - 2
    BY <1>1, <1>6 DEF Counted
  <2>5. NotTwice'
    BY <1>1, <2>3, <2>4 DEF NotTwice, Strict
  <2>6. Deleted'
    <3>1. n - 1 \in 0 .. n - 1 /\ mem'[n - 1] = mem[n - 1] /\ key <= mem[n - 1]
      BY <1>2, <2>1, <2>2
    <3>2. mem[n - 1] # key => n > 1 /\ mem'[n - 2] = mem[n - 1]
      BY <1>2, <2>1, <2>2
    <3> QED BY <1>1, <2>1, <3>1, <3>2 DEF Deleted
  <2> QED BY <1>1, <1>3, <1>4, <1>6, <2>4, <2>5, <2>6 DEF IInv
<1> QED BY <1>2, <1>5, <1>6

LEMMA WriteKeeps ==
  ASSUME IInv, Write
  PROVE  IInv'
<1> USE SortArrayAssumption
<1>1. /\ step = "write" /\ step' = "count" /\ UNCHANGED <<n, call, key, low, high, pos, answer, whole, kills>>
      /\ mem' = [mem EXCEPT ![pos] = key]
  BY DEF Write, search
<1>2. /\ n \in 0 .. Cap /\ key \in Key /\ mem \in [Place -> Key] /\ Cap \in Nat
      /\ pos \in Place /\ pos \in 0 .. n
      /\ key \in Int /\ \A i \in 0 .. Cap - 1 : mem[i] \in Int
  BY <1>1, InRange
<1>3. /\ call = "insert" /\ Inserted
      /\ whole => Strict((0 .. n) \ {pos})
  BY <1>1 DEF IInv, NotTwice, Counted
<1>4. \A i \in 0 .. Cap - 1 : mem'[i] = IF i = pos THEN key ELSE mem[i]
  BY <1>1, <1>2 DEF Place
<1>5. TypeOK'
  BY <1>1, <1>2 DEF IInv, TypeOK
<1>6. Inserted'
  BY <1>1, <1>2, <1>3, <1>4 DEF Inserted, Ordered, Divided
<1>7. NotTwice'
  <2>1. Counted' = (0 .. n) \ {pos}
    BY <1>1, <1>3 DEF Counted
  <2> QED BY <1>1, <1>2, <1>3, <1>4, <2>1 DEF NotTwice, Strict, Inserted
<1>8. InOrder'
  BY <1>1, <1>2, <1>3, <1>4 DEF Inserted, Ordered, Divided, InOrder
<1> QED BY <1>1, <1>3, <1>5, <1>6, <1>7, <1>8 DEF IInv

LEMMA CountKeeps ==
  ASSUME IInv, Count
  PROVE  IInv'
<1> USE SortArrayAssumption
<1>1. /\ step = "count" /\ step' = "idle" /\ UNCHANGED <<mem, call, key, low, high, pos, whole, kills>>
      /\ n' = IF call = "insert" THEN n + 1 ELSE n - 1
      /\ answer' = [call |-> call, key |-> key, done |-> TRUE]
  BY DEF Count, search
<1>2. /\ n \in 0 .. Cap /\ key \in Key /\ mem \in [Place -> Key] /\ Cap \in Nat
      /\ call \in {"insert", "delete"} /\ pos \in 0 .. n
      /\ key \in Int /\ \A i \in 0 .. Cap - 1 : mem[i] \in Int
  BY <1>1, InRange
<1>3. Counted' = 0 .. n' - 1
  BY <1>1 DEF Counted
<1>4. CASE call = "insert"
  <2>1. Inserted /\ mem[pos] = key /\ (whole => Strict((0 .. n) \ {pos}))
    BY <1>1, <1>4 DEF IInv, Counted, Inserted, NotTwice
  <2>2. n' = n + 1 /\ n < Cap /\ 0 .. n' - 1 = 0 .. n
    BY <1>1, <1>2, <1>4, <2>1 DEF Inserted
  <2>3. TypeOK'
    BY <1>1, <1>2, <2>2 DEF IInv, TypeOK, Calls
  <2>4. InOrder'
    BY <1>1, <1>2, <2>1, <2>2 DEF Inserted, Ordered, Divided, InOrder
  <2>5. NotTwice'
    BY <1>1, <1>2, <1>3, <2>1, <2>2 DEF Inserted, Strict, Divided, NotTwice
  <2> QED BY <1>1, <2>3, <2>4, <2>5 DEF IInv
<1>5. CASE call = "delete"
  <2>1. Ordered(0 .. n - 1) /\ (whole => Strict(0 .. n - 2)) /\ Deleted
    BY <1>1, <1>5 DEF IInv, Counted, InOrder, NotTwice
  <2>2. n' = n - 1 /\ n > 0 /\ 0 .. n' - 1 = 0 .. n - 2
    BY <1>1, <1>2, <1>5, <2>1 DEF Deleted
  <2>3. TypeOK'
    BY <1>1, <1>2, <2>2 DEF IInv, TypeOK, Calls
  <2>4. InOrder' /\ NotTwice'
    BY <1>1, <1>2, <1>3, <2>1, <2>2 DEF Ordered, Strict, InOrder, NotTwice
  <2> QED BY <1>1, <2>3, <2>4 DEF IInv
<1> QED BY <1>2, <1>4, <1>5

LEMMA KillKeeps ==
  ASSUME IInv, Kill
  PROVE  IInv'
<1>1. /\ step' = "idle" /\ whole' = (whole /\ step = "search") /\ kills' = 1 - kills
      /\ UNCHANGED <<n, call, key, low, high, pos, answer>>
  BY DEF Kill, search
<1>2. mem' \in [Place -> Key] /\ InOrder'
  <2>1. CASE mem' = mem
    BY <1>1, <2>1 DEF IInv, TypeOK, InOrder, Ordered
  <2>2. CASE step = "move" /\ \E S \in SUBSET Span : mem' = Moved(S)
    <3>1. PICK S \in SUBSET Span : mem' = Moved(S)
      BY <2>2
    <3> QED BY <1>1, <2>2, <3>1, MovedAt, MovedOrder DEF InOrder, Ordered
  <2> QED BY <2>1, <2>2 DEF Kill
<1>3. TypeOK'
  BY <1>1, <1>2 DEF IInv, TypeOK
<1>4. NotTwice'
  <2>1. CASE step = "search"
    <3>1. mem' = mem
      BY <2>1 DEF Kill
    <3> QED BY <1>1, <2>1, <3>1 DEF IInv, Strict, Counted, NotTwice
  <2>2. CASE step # "search"
    BY <1>1, <2>2 DEF NotTwice
  <2> QED BY <2>1, <2>2
<1> QED BY <1>1, <1>2, <1>3, <1>4 DEF IInv

LEMMA StepKeeps ==
  ASSUME IInv, [Next]_vars
  PROVE  IInv'
<1>1. CASE UNCHANGED vars
  BY <1>1 DEF vars, search, IInv, TypeOK, Ordered, Strict, Divided, Counted, Searching, Moving, Inserted, Deleted, InOrder, NotTwice
<1> QED BY <1>1, StartKeeps, SearchKeeps, MoveKeeps, WriteKeeps, CountKeeps, KillKeeps DEF Next

THEOREM Invariance == Spec => []IInv
<1>1. IInv /\ [Next]_vars => IInv'
  BY StepKeeps
<1> QED BY <1>1, InitHolds, PTL DEF Spec

(* Every index of array_bsearch and memmove stays inside the array.        *)
THEOREM TypeCorrect == Spec => []TypeOK
BY Invariance, PTL DEF IInv

(* The array is in order wherever a kill falls, and without one no key is  *)
(* listed twice.                                                           *)
THEOREM SortedCorrect == Spec => []Sorted
<1>1. IInv => Sorted
  BY SortArrayAssumption DEF IInv, TypeOK, Sorted, Ordered, Strict, Counted, InOrder, NotTwice
<1> QED BY <1>1, Invariance, PTL

(* array_bsearch is right: what it finds is the key, and what it does not  *)
(* find is not there.                                                      *)
THEOREM SearchCorrect == Spec => []Found
<1>1. ASSUME IInv, step = "move", call = "insert" PROVE key \notin Entries
  BY <1>1, AtMove DEF Divided, Entries
<1>2. IInv => Found
  BY <1>1 DEF IInv, Found, Searching, Moving
<1> QED BY <1>2, Invariance, PTL

-----------------------------------------------------------------------------
(* How often a key is at the places in S of an array.                      *)
Num(m, S, k) == Cardinality({i \in S : m[i] = k})
Bit(x, k) == IF x = k THEN 1 ELSE 0
OneMore(m, S, x, k) == Num(m, S, k) \in Nat /\ Num(m, S \cup {x}, k) = Num(m, S, k) + Bit(m[x], k)

LEMMA NumAdds ==
  ASSUME NEW m, NEW S, IsFiniteSet(S), NEW x, x \notin S, NEW k
  PROVE  OneMore(m, S, x, k)
<1> DEFINE T == {i \in S : m[i] = k}
<1>1. IsFiniteSet(T) /\ Cardinality(T) \in Nat /\ x \notin T
  BY FS_Subset, FS_CardinalityType
<1>2. CASE m[x] = k
  <2>1. {i \in S \cup {x} : m[i] = k} = T \cup {x}
    BY <1>2
  <2> QED
    BY <1>1, <1>2, <2>1, FS_AddElement DEF Num, Bit, OneMore
<1>3. CASE m[x] # k
  <2>1. {i \in S \cup {x} : m[i] = k} = T
    BY <1>3
  <2>2. Num(m, S \cup {x}, k) = Num(m, S, k) /\ Num(m, S, k) \in Nat
    BY <1>1, <2>1 DEF Num
  <2> QED
    BY <1>3, <2>2 DEF Bit, OneMore
<1> QED
  BY <1>2, <1>3

LEMMA NumSame ==
  ASSUME NEW m, NEW w, NEW S, \A i \in S : m[i] = w[i], NEW k
  PROVE  Num(m, S, k) = Num(w, S, k)
<1>1. {i \in S : m[i] = k} = {i \in S : w[i] = k}
  OBVIOUS
<1> QED
  BY <1>1 DEF Num

LEMMA NumNone ==
  ASSUME NEW m, NEW S, IsFiniteSet(S), NEW k
  PROVE  Num(m, S, k) \in Nat /\ (Num(m, S, k) = 0 <=> \A i \in S : m[i] # k)
<1>1. IsFiniteSet({i \in S : m[i] = k})
  BY FS_Subset
<1> QED
  BY <1>1, FS_CardinalityType, FS_EmptySet DEF Num

(* An array that is moved one place up from p on, with a hole at p.        *)
LEMMA NumShifts ==
  ASSUME NEW l \in Nat, NEW p \in 0 .. l, NEW m, NEW w, NEW k,
         \A i \in 0 .. l - 1 : (i < p => w[i] = m[i]) /\ (i >= p => w[i + 1] = m[i])
  PROVE  Num(w, (0 .. l) \ {p}, k) = Num(m, 0 .. l - 1, k)
<1> DEFINE S == {i \in 0 .. l - 1 : m[i] = k}
           T == {i \in (0 .. l) \ {p} : w[i] = k}
           f == [i \in S |-> IF i < p THEN i ELSE i + 1]
<1>1. f \in [S -> T]
  OBVIOUS
<1>2. \A i, j \in S : f[i] = f[j] => i = j
  OBVIOUS
<1>3. \A j \in T : \E i \in S : f[i] = j
  <2> SUFFICES ASSUME NEW j \in T PROVE \E i \in S : f[i] = j
    OBVIOUS
  <2>1. CASE j < p
    <3>1. j \in S /\ f[j] = j
      BY <2>1
    <3> QED BY <3>1
  <2>2. CASE j > p
    <3>1. j - 1 \in 0 .. l - 1 /\ j - 1 >= p /\ (j - 1) + 1 = j
      BY <2>2
    <3>2. j - 1 \in S /\ f[j - 1] = j
      BY <3>1
    <3> QED BY <3>2
  <2> QED BY <2>1, <2>2
<1>4. f \in Bijection(S, T)
  <2> HIDE DEF S, T, f
  <2> QED BY <1>1, <1>2, <1>3 DEF Bijection, Injection, Surjection, IsInjective
<1>5. IsFiniteSet(S)
  <2>1. IsFiniteSet(0 .. l - 1)
    BY FS_Interval
  <2> QED BY <2>1, FS_Subset
<1>6. Cardinality(T) = Cardinality(S)
  <2> HIDE DEF S, T, f
  <2> QED BY <1>4, <1>5, FS_Bijection DEF ExistsBijection
<1> QED BY <1>6 DEF Num

(* Two sets that differ by an element at most.                             *)
LEMMA AlmostAll ==
  ASSUME NEW P, IsFiniteSet(P), NEW Q \in SUBSET P, \A a, b \in P \ Q : a = b
  PROVE  /\ Cardinality(P) \in Nat /\ Cardinality(Q) \in Nat
         /\ Cardinality(P) = Cardinality(Q) \/ Cardinality(P) = Cardinality(Q) + 1
<1>1. IsFiniteSet(Q) /\ Cardinality(P) \in Nat /\ Cardinality(Q) \in Nat
  BY FS_Subset, FS_CardinalityType
<1>2. CASE P = Q
  BY <1>1, <1>2
<1>3. CASE P # Q
  <2>1. PICK a \in P \ Q : TRUE
    BY <1>3
  <2>2. P = Q \cup {a} /\ a \notin Q
    BY <2>1
  <2> QED BY <1>1, <2>2, FS_AddElement
<1> QED BY <1>2, <1>3

(* Two arrays that differ where a run of k begins and where it ends.       *)
LEMMA NumNear ==
  ASSUME NEW m, NEW w, NEW S, IsFiniteSet(S), NEW k,
         \A i, j \in S : m[i] = k /\ w[i] # k /\ m[j] = k /\ w[j] # k => i = j,
         \A i, j \in S : w[i] = k /\ m[i] # k /\ w[j] = k /\ m[j] # k => i = j
  PROVE  /\ Num(w, S, k) \in Nat /\ Num(m, S, k) \in Nat
         /\ Num(w, S, k) \in {Num(m, S, k) - 1, Num(m, S, k), Num(m, S, k) + 1}
<1> DEFINE P == {i \in S : m[i] = k}
           W == {i \in S : w[i] = k}
           Q == P \cap W
<1>1. IsFiniteSet(P) /\ IsFiniteSet(W)
  BY FS_Subset
<1>2. (\A a, b \in P \ Q : a = b) /\ (\A a, b \in W \ Q : a = b)
  OBVIOUS
<1> HIDE DEF P, W
<1>3. /\ Cardinality(P) \in Nat /\ Cardinality(Q) \in Nat
      /\ Cardinality(P) = Cardinality(Q) \/ Cardinality(P) = Cardinality(Q) + 1
  BY <1>1, <1>2, AlmostAll
<1>4. /\ Cardinality(W) \in Nat
      /\ Cardinality(W) = Cardinality(Q) \/ Cardinality(W) = Cardinality(Q) + 1
  BY <1>1, <1>2, AlmostAll
<1> QED BY <1>3, <1>4 DEF Num, P, W

-----------------------------------------------------------------------------
LEMMA CountedIsFinite ==
  ASSUME IInv
  PROVE  IsFiniteSet(Counted) /\ Counted \subseteq 0 .. n
<1>1. n \in Nat
  BY InRange
<1>2. IsFiniteSet(0 .. n) /\ Counted \subseteq 0 .. n
  BY <1>1, FS_Interval DEF Counted
<1> QED
  BY <1>2, FS_Subset

LEMMA CopiesAre ==
  /\ Copies = [k \in Key |-> Num(mem, Counted, k) + Owed(k)]
  /\ Copies' = [k \in Key |-> Num(mem', Counted', k) + Owed(k)']
<1>1. Copies = [k \in Key |-> Num(mem, Counted, k) + Owed(k)]
  BY DEF Copies, Num
<1>2. (Copies = [k \in Key |-> Num(mem, Counted, k) + Owed(k)])'
  BY <1>1, PTL
<1> QED
  BY <1>1, <1>2

(* Only a deletion behind its memmove owes a copy.                         *)
LEMMA OwesNothing ==
  /\ step # "count" \/ call # "delete" => \A k : Owed(k) = 0
  /\ step' # "count" \/ call' # "delete" => \A k : Owed(k)' = 0
BY DEF Owed

LEMMA CopiesNow ==
  ASSUME IInv, step # "count" \/ call # "delete"
  PROVE  /\ Copies = [k \in Key |-> Num(mem, Counted, k)]
         /\ \A k \in Key : Num(mem, Counted, k) \in Nat
<1>1. \A k \in Key : Num(mem, Counted, k) \in Nat
  BY CountedIsFinite, NumNone
<1>2. \A k \in Key : Num(mem, Counted, k) + Owed(k) = Num(mem, Counted, k)
  BY <1>1, OwesNothing
<1> QED BY <1>1, <1>2, CopiesAre

LEMMA CopiesThen ==
  ASSUME IInv', step' # "count" \/ call' # "delete"
  PROVE  /\ Copies' = [k \in Key |-> Num(mem', Counted', k)]
         /\ \A k \in Key : Num(mem', Counted', k) \in Nat
<1>1. IsFiniteSet(Counted')
  <2>1. (IInv => IsFiniteSet(Counted))'
    BY CountedIsFinite, PTL
  <2> QED BY <2>1
<1>2. \A k \in Key : Num(mem', Counted', k) \in Nat
  BY <1>1, NumNone
<1>3. \A k \in Key : Num(mem', Counted', k) + Owed(k)' = Num(mem', Counted', k)
  BY <1>2, OwesNothing
<1> QED BY <1>2, <1>3, CopiesAre

-----------------------------------------------------------------------------
(* What each step is for the list.                                         *)
Stutters == Copies' = Copies /\ answer' = answer /\ kills' = kills

LEMMA InitLists == Init => L!Init
<1> SUFFICES ASSUME Init PROVE L!Init
  OBVIOUS
<1>1. Counted = {} /\ step = "idle"
  BY DEF Init, Counted
<1>2. \A k : Num(mem, {}, k) = 0
  BY FS_EmptySet DEF Num
<1>3. Copies = [k \in Key |-> 0]
  BY <1>1, <1>2, CopiesAre, OwesNothing
<1>4. answer = L!NoCall /\ kills = 0
  BY DEF Init, L!NoCall
<1> QED
  BY <1>3, <1>4 DEF L!Init

LEMMA StartLists ==
  ASSUME NEW c, NEW k, Start(c, k)
  PROVE  Stutters
<1>1. /\ Counted' = Counted /\ mem' = mem /\ answer' = answer /\ kills' = kills
      /\ step = "idle" /\ step' = "search"
  BY DEF Start, Counted
<1> QED
  BY <1>1, CopiesAre, OwesNothing DEF Stutters

LEMMA ReturnsLists ==
  ASSUME IInv, IInv', step = "search", NEW find \in BOOLEAN, NEW i \in 0 .. n,
         find => i < n /\ mem[i] = key,
         ~find => \A j \in 0 .. n - 1 : (j < i => mem[j] < key) /\ (j >= i => key < mem[j]),
         Returns(find, i), UNCHANGED <<mem, n, whole, kills>>
  PROVE  L!Next \/ Stutters
<1>1. /\ n \in Nat /\ n <= Cap /\ key \in Key /\ key \in Int /\ Cap \in Nat
      /\ call \in {"insert", "delete"}
      /\ \A j \in 0 .. Cap - 1 : mem[j] \in Int
  BY InRange
<1>2. UNCHANGED <<mem, n, call, key, low, high, kills>> /\ step' \in {"idle", "move"}
  BY DEF Returns, search
<1>3. Counted = 0 .. n - 1 /\ Counted' = 0 .. n - 1
  BY <1>2 DEF Counted
<1>4. Copies' = Copies /\ Copies[key] = Num(mem, Counted, key)
  BY <1>1, <1>2, <1>3, CopiesNow, CopiesThen
<1>5. Copies[key] \in Nat /\ (Copies[key] > 0 <=> find)
  <2>1. find <=> ~ \A j \in Counted : mem[j] # key
    BY <1>1, <1>3
  <2>2. Num(mem, Counted, key) \in Nat /\ (Num(mem, Counted, key) = 0 <=> \A j \in Counted : mem[j] # key)
    BY CountedIsFinite, NumNone
  <2> QED
    BY <1>4, <2>1, <2>2
<1>6. CASE find <=> call = "insert"
  <2>1. answer' = [call |-> call, key |-> key, done |-> FALSE]
    BY <1>6 DEF Returns
  <2>2. L!Refuse(call, key)
    BY <1>2, <1>4, <1>5, <1>6, <2>1 DEF L!Refuse
  <2> QED
    BY <1>1, <2>2 DEF L!Next, L!Calls
<1>7. CASE ~(find <=> call = "insert")
  <2>1. answer' = answer
    BY <1>7 DEF Returns
  <2> QED
    BY <1>2, <1>4, <2>1 DEF Stutters
<1> QED
  BY <1>6, <1>7

LEMMA SearchLists ==
  ASSUME IInv, IInv', Search
  PROVE  L!Next \/ Stutters
<1>1. step = "search" /\ UNCHANGED <<mem, n, whole, kills>>
  BY DEF Search
<1>2. /\ n \in Nat /\ n <= Cap /\ key \in Int /\ Cap \in Nat /\ low \in 0 .. Cap /\ high \in 0 .. Cap
      /\ \A i \in 0 .. Cap - 1 : mem[i] \in Int
  BY InRange DEF IInv, TypeOK
<1>3. Ordered(0 .. n - 1) /\ Searching
  BY <1>1 DEF IInv, InOrder
<1>4. CASE ~(low < high)
  <2>1. Returns(FALSE, high)
    BY <1>2, <1>4 DEF Search
  <2>2. high \in 0 .. n /\ \A j \in 0 .. n - 1 : (j < high => mem[j] < key) /\ (j >= high => key < mem[j])
    BY <1>2, <1>3, <1>4 DEF Searching
  <2> QED BY <1>1, <2>1, <2>2, ReturnsLists
<1>5. CASE low < high
  <2>1. Probe
    BY <1>5 DEF Search
  <2> DEFINE m == idx
  <2>2. m \in low .. high - 1 /\ m \in 0 .. n - 1
    BY <1>2, <1>3, <1>5 DEF idx, Searching
  <2>3. \/ key = mem[m] /\ Returns(TRUE, m)
        \/ key < mem[m] /\ (m > 0 => key > mem[m - 1]) /\ Returns(FALSE, m)
        \/ UNCHANGED <<step, key, answer, call>>
    BY <2>1 DEF Probe
  <2> HIDE DEF m
  <2>4. CASE key = mem[m] /\ Returns(TRUE, m)
    <3>1. m \in 0 .. n /\ m < n
      BY <1>2, <2>2
    <3> QED BY <1>1, <2>4, <3>1, ReturnsLists
  <2>5. CASE key < mem[m] /\ (m > 0 => key > mem[m - 1]) /\ Returns(FALSE, m)
    <3>1. \A j \in 0 .. n - 1 : (j < m => mem[j] < key) /\ (j >= m => key < mem[j])
      BY <1>2, <1>3, <2>2, <2>5 DEF Ordered
    <3>2. m \in 0 .. n
      BY <1>2, <2>2
    <3> QED BY <1>1, <2>5, <3>1, <3>2, ReturnsLists
  <2>6. CASE UNCHANGED <<step, key, answer, call>>
    <3>1. Counted' = Counted /\ step' = "search"
      BY <1>1, <2>6 DEF Counted
    <3> QED BY <1>1, <2>6, <3>1, CopiesAre, OwesNothing DEF Stutters
  <2> QED BY <2>3, <2>4, <2>5, <2>6
<1> QED BY <1>2, <1>4, <1>5

(* A memmove that is through takes no copy and makes none.                 *)
LEMMA MoveLists ==
  ASSUME IInv, IInv', Move
  PROVE  Stutters
<1>1. /\ step = "move" /\ UNCHANGED <<n, call, key, pos, answer, kills>>
      /\ mem' = Moved(Span) /\ step' = IF call = "insert" THEN "write" ELSE "count"
  BY DEF Move, search
<1>2. /\ n \in Nat /\ Cap \in Nat /\ n <= Cap /\ pos \in Nat /\ pos <= n
      /\ call \in {"insert", "delete"} /\ key \in Key
      /\ Counted = 0 .. n - 1
  BY <1>1, AtMove
<1>3. Span \in SUBSET Span
  OBVIOUS
<1>4. Copies = [k \in Key |-> Num(mem, 0 .. n - 1, k)]
  BY <1>1, <1>2, CopiesNow
<1>5. CASE call = "insert"
  <2>1. n < Cap
    BY <1>1, <1>5, AtMove
  <2>2. \A i \in 0 .. Cap - 1 : mem'[i] = IF i \in Span THEN mem[i - 1] ELSE mem[i]
    BY <1>1, <1>3, <1>5, MovedAt
  <2>3. Span = pos + 1 .. n
    BY <1>5 DEF Span
  <2>4. \A i \in 0 .. n - 1 : (i < pos => mem'[i] = mem[i]) /\ (i >= pos => mem'[i + 1] = mem[i])
    BY <1>2, <2>1, <2>2, <2>3
  <2>5. \A k : Num(mem', (0 .. n) \ {pos}, k) = Num(mem, 0 .. n - 1, k)
    BY <1>2, <2>4, NumShifts
  <2>6. Counted' = (0 .. n) \ {pos} /\ step' = "write"
    BY <1>1, <1>5 DEF Counted
  <2> QED BY <1>1, <1>4, <2>5, <2>6, CopiesThen DEF Stutters
<1>6. CASE call = "delete"
  <2>1. pos < n /\ mem[pos] = key
    BY <1>1, <1>6, AtMove
  <2>2. \A i \in 0 .. Cap - 1 : mem'[i] = IF i \in Span THEN mem[i + 1] ELSE mem[i]
    BY <1>1, <1>3, <1>6, MovedAt
  <2>3. Span = pos .. n - 2
    BY <1>6 DEF Span
  <2> DEFINE l == n - 1
  <2>4. l \in Nat /\ pos \in 0 .. l
    BY <1>2, <2>1
  <2>5. \A i \in 0 .. l - 1 : (i < pos => mem[i] = mem'[i]) /\ (i >= pos => mem[i + 1] = mem'[i])
    BY <1>2, <2>1, <2>2, <2>3
  <2> HIDE DEF l
  <2>6. \A k : Num(mem, (0 .. l) \ {pos}, k) = Num(mem', 0 .. l - 1, k)
    BY <2>4, <2>5, NumShifts
  <2>7. step' = "count" /\ Counted' = 0 .. l - 1 /\ (\A k : Owed(k)' = Bit(key, k))
    <3>1. step' = "count" /\ Counted' = 0 .. n - 2
      BY <1>1, <1>6 DEF Counted
    <3>2. 0 .. n - 2 = 0 .. l - 1
      BY <1>2 DEF l
    <3>3. \A k : Owed(k)' = Bit(key, k)
      BY <1>1, <1>6, <3>1 DEF Owed, Bit
    <3> QED BY <3>1, <3>2, <3>3
  <2>8. ASSUME NEW k \in Key
        PROVE  Num(mem, 0 .. l, k) = Num(mem, (0 .. l) \ {pos}, k) + Bit(key, k)
    <3> DEFINE Rest == (0 .. l) \ {pos}
    <3>1. IsFiniteSet(Rest) /\ pos \notin Rest /\ Rest \cup {pos} = 0 .. l
      <4>1. 0 \in Int /\ l \in Int
        BY <2>4
      <4>2. IsFiniteSet(0 .. l)
        BY <4>1, FS_Interval
      <4>3. IsFiniteSet(Rest)
        BY <4>2, FS_Subset
      <4> QED BY <2>4, <4>3
    <3> HIDE DEF Rest
    <3>2. OneMore(mem, Rest, pos, k)
      BY <3>1, NumAdds, Zenon
    <3> QED BY <2>1, <3>1, <3>2 DEF OneMore, Rest
  <2>9. \A k \in Key : Num(mem', Counted', k) + Owed(k)' = Num(mem, 0 .. n - 1, k)
    BY <2>6, <2>7, <2>8 DEF l
  <2>10. Copies' = Copies
    BY <1>4, <2>9, CopiesAre
  <2> QED BY <1>1, <2>10 DEF Stutters
<1> QED BY <1>2, <1>5, <1>6

LEMMA WriteLists ==
  ASSUME IInv, IInv', Write
  PROVE  Stutters
<1>1. /\ step = "write" /\ step' = "count" /\ UNCHANGED <<n, call, key, pos, answer, kills>>
      /\ mem' = [mem EXCEPT ![pos] = key] /\ call = "insert"
  BY DEF Write, search, IInv
<1>2. Counted = (0 .. n) \ {pos} /\ Counted' = (0 .. n) \ {pos}
  BY <1>1 DEF Counted
<1>3. n < Cap /\ n \in Nat /\ Cap \in Nat /\ mem \in [Place -> Key]
  BY <1>1, InRange DEF IInv, Inserted
<1>4. \A i \in (0 .. n) \ {pos} : mem'[i] = mem[i]
  BY <1>1, <1>3 DEF Place
<1>5. \A k \in Key : Num(mem', Counted', k) = Num(mem, Counted, k)
  BY <1>2, <1>4, NumSame
<1> QED BY <1>1, <1>5, CopiesNow, CopiesThen DEF Stutters

LEMMA CountLists ==
  ASSUME IInv, IInv', Count
  PROVE  L!Next
<1>1. /\ step = "count" /\ step' = "idle" /\ UNCHANGED <<mem, call, key, pos, kills>>
      /\ n' = IF call = "insert" THEN n + 1 ELSE n - 1
      /\ answer' = [call |-> call, key |-> key, done |-> TRUE]
  BY DEF Count, search
<1>2. /\ n \in Nat /\ Cap \in Nat /\ n <= Cap /\ key \in Key /\ key \in Int /\ pos \in 0 .. n
      /\ call \in {"insert", "delete"}
      /\ \A i \in 0 .. Cap - 1 : mem[i] \in Int
  BY <1>1, InRange
<1>3. CASE call = "insert"
  <2>1. Inserted /\ mem[pos] = key /\ n < Cap
    BY <1>1, <1>3 DEF IInv, Inserted
  <2> DEFINE Rest == (0 .. n) \ {pos}
  <2>2. Counted = Rest /\ Counted' = Rest \cup {pos} /\ pos \notin Rest
    <3>1. n' = n + 1 /\ 0 .. n' - 1 = 0 .. n
      BY <1>1, <1>2, <1>3
    <3> QED BY <1>1, <1>2, <1>3, <3>1 DEF Counted
  <2>3. \A i \in Rest : mem[i] # key
    BY <1>2, <2>1 DEF Inserted, Divided
  <2>4. IsFiniteSet(Rest)
    BY <2>2, CountedIsFinite
  <2> HIDE DEF Rest
  <2>5. ASSUME NEW k \in Key
        PROVE  OneMore(mem, Rest, pos, k)
    BY <2>2, <2>4, NumAdds, Zenon
  <2>6. Num(mem, Rest, key) = 0
    BY <2>3, <2>4, NumNone
  <2>7. ASSUME NEW k \in Key
        PROVE  Num(mem', Counted', k) = IF k = key THEN 1 ELSE Num(mem, Counted, k)
    <3>1. Num(mem', Counted', k) = Num(mem, Rest \cup {pos}, k)
      BY <1>1, <2>2
    <3>2. Num(mem, Rest \cup {pos}, k) = Num(mem, Rest, k) + Bit(key, k) /\ Num(mem, Rest, k) \in Nat
      BY <2>1, <2>5 DEF OneMore
    <3>3. k = key => Bit(key, k) = 1 /\ Num(mem, Rest, k) = 0
      BY <2>6 DEF Bit
    <3>4. k # key => Bit(key, k) = 0
      BY DEF Bit
    <3> QED BY <2>2, <3>1, <3>2, <3>3, <3>4
  <2>8. Copies' = [Copies EXCEPT ![key] = 1] /\ Copies[key] = 0
    <3>1. Copies = [k \in Key |-> Num(mem, Counted, k)]
      BY <1>1, <1>3, CopiesNow
    <3>2. Copies' = [k \in Key |-> Num(mem', Counted', k)]
      BY <1>1, CopiesThen
    <3>3. Num(mem, Counted, key) = 0
      BY <2>2, <2>6
    <3>4. [Copies EXCEPT ![key] = 1] = [k \in Key |-> IF k = key THEN 1 ELSE Num(mem, Counted, k)]
      BY <3>1, Zenon
    <3> QED BY <1>2, <2>7, <3>1, <3>2, <3>3, <3>4
  <2>9. L!Enter(key)
    BY <1>1, <1>3, <2>8 DEF L!Enter
  <2> QED BY <1>2, <2>9 DEF L!Next
<1>4. CASE call = "delete"
  <2>1. n' = n - 1 /\ Counted = 0 .. n - 2 /\ Counted' = 0 .. n - 2 /\ \A k : Owed(k) = Bit(key, k)
    <3>1. n' = n - 1 /\ 0 .. n' - 1 = 0 .. n - 2
      BY <1>1, <1>2, <1>4
    <3> QED BY <1>1, <1>4, <3>1 DEF Counted, Owed, Bit
  <2>2. \A k \in Key : Num(mem, Counted, k) \in Nat
    BY CountedIsFinite, NumNone
  <2>3. Copies = [k \in Key |-> Num(mem, Counted, k) + Bit(key, k)]
    BY <2>1, CopiesAre
  <2>4. Copies' = [k \in Key |-> Num(mem, Counted, k)]
    BY <1>1, <2>1, CopiesThen
  <2>5. Copies' = [Copies EXCEPT ![key] = @ - 1] /\ Copies[key] > 0
    <3>1. ASSUME NEW k \in Key
          PROVE  Num(mem, Counted, k) = IF k = key THEN Copies[k] - 1 ELSE Copies[k]
      <4>1. Copies[k] = Num(mem, Counted, k) + Bit(key, k) /\ Num(mem, Counted, k) \in Nat
        BY <2>2, <2>3
      <4> QED BY <4>1 DEF Bit
    <3>2. Copies[key] = Num(mem, Counted, key) + Bit(key, key) /\ Num(mem, Counted, key) \in Nat
      BY <1>2, <2>2, <2>3
    <3>3. Copies[key] > 0
      BY <3>2 DEF Bit
    <3>4. Copies' = [k \in Key |-> IF k = key THEN Copies[k] - 1 ELSE Copies[k]]
      BY <2>4, <3>1
    <3>5. DOMAIN Copies = Key
      BY <2>3
    <3>6. [Copies EXCEPT ![key] = @ - 1] = [k \in Key |-> IF k = key THEN Copies[k] - 1 ELSE Copies[k]]
      BY <3>5
    <3> QED BY <3>3, <3>4, <3>6
  <2>6. L!TakeOut(key)
    BY <1>1, <1>4, <2>5 DEF L!TakeOut
  <2> QED BY <1>2, <2>6 DEF L!Next
<1> QED BY <1>2, <1>3, <1>4

-----------------------------------------------------------------------------
(* What a kill may do to the number of copies of j, old before it.         *)
Spoils(new, old, j) ==
  /\ new \in Nat /\ old \in Nat
  /\ new \in {old - 1, old, old + 1}
  /\ j < key => new = old
  /\ j # key /\ old = 0 => new = 0

LEMMA CutsShort ==
  ASSUME key \in Key, kills' = 1 - kills, answer' = answer,
         \A j \in Key : Spoils(Copies'[j], Copies[j], j)
  PROVE  L!Next
<1>1. Copies' \in [Key -> Nat]
  <2>1. Copies' = [j \in Key |-> Copies'[j]]
    BY CopiesAre
  <2> QED BY <2>1 DEF Spoils
<1>2. L!CutShort(key)
  BY <1>1 DEF L!CutShort, Spoils
<1> QED BY <1>2 DEF L!Next

(* A kill inside the memmove.                                              *)
LEMMA KillInMove ==
  ASSUME IInv, step = "move", NEW S \in SUBSET Span, NEW k \in Key
  PROVE  Spoils(Num(Moved(S), 0 .. n - 1, k), Num(mem, 0 .. n - 1, k), k)
<1> DEFINE w == Moved(S)
           All == 0 .. n - 1
<1>1. /\ n \in Nat /\ Cap \in Nat /\ n <= Cap /\ pos \in Nat /\ pos <= n /\ key \in Int
      /\ \A i \in All : mem[i] \in Int /\ i \in 0 .. Cap - 1
      /\ \A i, j \in All : i < j => mem[i] <= mem[j]
      /\ call \in {"insert", "delete"}
      /\ call = "insert" => \A i \in All : (i < pos => mem[i] < key) /\ (i >= pos => key < mem[i])
      /\ call = "delete" => pos < n /\ mem[pos] = key
  BY AtMove DEF Ordered, Divided
<1>2. k \in Int
  BY SortArrayAssumption
<1>3. IsFiniteSet(All)
  BY <1>1, FS_Interval
(* Every place holds its own old value or that of a neighbour on one side. *)
<1>4. call = "insert" => \A i \in All : w[i] = mem[i] \/ (pos < i /\ w[i] = mem[i - 1])
  BY <1>1, MovedAt
<1>5. call = "delete" => \A i \in All : w[i] = mem[i] \/ (pos <= i /\ i < n - 1 /\ w[i] = mem[i + 1])
  BY <1>1, MovedAt
<1> HIDE DEF w
<1>6. \A i, j \in All : ~(mem[i] = k /\ w[i] # k /\ mem[j] = k /\ w[j] # k /\ i < j)
  <2> SUFFICES ASSUME NEW i \in All, NEW j \in All, mem[i] = k, w[i] # k, mem[j] = k, w[j] # k, i < j
               PROVE  FALSE
    OBVIOUS
  <2>1. CASE call = "insert"
    <3>1. w[j] = mem[j - 1] /\ j - 1 \in All
      BY <1>1, <1>4, <2>1
    <3>2. mem[i] <= mem[j - 1] /\ mem[j - 1] <= mem[j]
      BY <1>1, <3>1
    <3> QED BY <1>1, <1>2, <3>1, <3>2
  <2>2. CASE call = "delete"
    <3>1. w[i] = mem[i + 1] /\ i + 1 \in All
      BY <1>1, <1>5, <2>2
    <3>2. mem[i] <= mem[i + 1] /\ mem[i + 1] <= mem[j]
      BY <1>1, <3>1
    <3> QED BY <1>1, <1>2, <3>1, <3>2
  <2> QED BY <1>1, <2>1, <2>2
<1>7. \A i, j \in All : ~(w[i] = k /\ mem[i] # k /\ w[j] = k /\ mem[j] # k /\ i < j)
  <2> SUFFICES ASSUME NEW i \in All, NEW j \in All, w[i] = k, mem[i] # k, w[j] = k, mem[j] # k, i < j
               PROVE  FALSE
    OBVIOUS
  <2>1. CASE call = "insert"
    <3>1. w[i] = mem[i - 1] /\ w[j] = mem[j - 1] /\ i - 1 \in All /\ j - 1 \in All
      BY <1>1, <1>4, <2>1
    <3>2. mem[i - 1] <= mem[i] /\ mem[i] <= mem[j - 1]
      BY <1>1, <3>1
    <3> QED BY <1>1, <1>2, <3>1, <3>2
  <2>2. CASE call = "delete"
    <3>1. w[i] = mem[i + 1] /\ w[j] = mem[j + 1] /\ i + 1 \in All /\ j + 1 \in All
      BY <1>1, <1>5, <2>2
    <3>2. mem[i + 1] <= mem[j] /\ mem[j] <= mem[j + 1]
      BY <1>1, <3>1
    <3> QED BY <1>1, <1>2, <3>1, <3>2
  <2> QED BY <1>1, <2>1, <2>2
<1>8. /\ Num(w, All, k) \in Nat /\ Num(mem, All, k) \in Nat
      /\ Num(w, All, k) \in {Num(mem, All, k) - 1, Num(mem, All, k), Num(mem, All, k) + 1}
  <2>1. \A i, j \in All : mem[i] = k /\ w[i] # k /\ mem[j] = k /\ w[j] # k => i = j
    BY <1>1, <1>6
  <2>2. \A i, j \in All : w[i] = k /\ mem[i] # k /\ w[j] = k /\ mem[j] # k => i = j
    BY <1>1, <1>7
  <2> HIDE DEF All
  <2> QED BY <1>3, <2>1, <2>2, NumNear
<1>9. ASSUME k < key
      PROVE  Num(w, All, k) = Num(mem, All, k)
  <2>1. \A i \in All : mem[i] = k <=> w[i] = k
    <3> SUFFICES ASSUME NEW i \in All PROVE mem[i] = k <=> w[i] = k
      OBVIOUS
    <3>1. CASE call = "insert"
      <4>1. CASE pos < i
        <5>1. i - 1 \in All /\ key < mem[i] /\ key < mem[i - 1]
          BY <1>1, <3>1, <4>1
        <5> QED BY <1>1, <1>2, <1>4, <1>9, <3>1, <5>1
      <4> QED BY <1>4, <3>1, <4>1
    <3>2. CASE call = "delete"
      <4>1. CASE pos <= i /\ i < n - 1
        <5>1. i + 1 \in All /\ pos \in All /\ mem[pos] = key /\ pos < i + 1
          BY <1>1, <3>2, <4>1
        <5>2. key <= mem[i] /\ key <= mem[i + 1]
          BY <1>1, <4>1, <5>1
        <5> QED BY <1>1, <1>2, <1>5, <1>9, <3>2, <5>1, <5>2
      <4> QED BY <1>5, <3>2, <4>1
    <3> QED BY <1>1, <3>1, <3>2
  <2>2. {i \in All : w[i] = k} = {i \in All : mem[i] = k}
    BY <2>1
  <2> QED BY <2>2 DEF Num
<1>10. ASSUME Num(mem, All, k) = 0
       PROVE  Num(w, All, k) = 0
  <2>1. \A i \in All : mem[i] # k
    BY <1>3, <1>10, NumNone
  <2>2. \A i \in All : w[i] # k
    BY <1>1, <1>4, <1>5, <2>1
  <2> HIDE DEF All
  <2> QED BY <1>3, <2>2, NumNone
<1> QED BY <1>8, <1>9, <1>10 DEF Spoils, w

(* A kill behind the memmove of an insertion: the place it makes counts,   *)
(* and the last place does not.                                            *)
LEMMA KillInInsert ==
  ASSUME IInv, step \in {"write", "count"}, call = "insert", NEW k \in Key
  PROVE  Spoils(Num(mem, 0 .. n - 1, k), Num(mem, (0 .. n) \ {pos}, k), k)
<1>1. /\ n \in Nat /\ Cap \in Nat /\ n < Cap /\ pos \in Nat /\ pos <= n /\ key \in Int
      /\ \A i \in 0 .. n : mem[i] \in Int
      /\ \A i \in (0 .. n) \ {pos} : (i < pos => mem[i] < key) /\ (i >= pos => key < mem[i])
      /\ pos < n /\ mem[pos] # key => mem[pos] = mem[pos + 1]
  <2>1. /\ n \in Nat /\ Cap \in Nat /\ n < Cap /\ pos \in Nat /\ pos <= n /\ key \in Int
        /\ \A i \in 0 .. Cap - 1 : mem[i] \in Int
        /\ Inserted
    BY InRange DEF IInv, Inserted
  <2> QED BY <2>1 DEF Inserted, Divided
<1>2. k \in Int
  BY SortArrayAssumption
<1> DEFINE Before == (0 .. n) \ {pos}
           Rest == (0 .. n - 1) \ {pos}
<1>3. IsFiniteSet(Before) /\ IsFiniteSet(Rest)
  <2>1. 0 \in Int /\ n \in Int /\ n - 1 \in Int
    BY <1>1
  <2>2. IsFiniteSet(0 .. n)
    BY <2>1, FS_Interval
  <2>3. IsFiniteSet(0 .. n - 1)
    BY <2>1, FS_Interval
  <2>4. IsFiniteSet(Before)
    BY <2>2, FS_Subset
  <2>5. IsFiniteSet(Rest)
    BY <2>3, FS_Subset
  <2> QED BY <2>4, <2>5
<1>4. CASE pos = n
  <2>1. 0 .. n - 1 = Before
    BY <1>1, <1>4
  <2>2. Num(mem, Before, k) \in Nat
    BY <1>3, NumNone
  <2> QED BY <2>1, <2>2 DEF Spoils
<1>5. CASE pos < n
  <2>1. /\ Before = Rest \cup {n} /\ n \notin Rest
        /\ 0 .. n - 1 = Rest \cup {pos} /\ pos \notin Rest
    BY <1>1, <1>5
  <2>2. pos + 1 \in Before /\ n \in Before
    BY <1>1, <1>5
  <2>3. mem[pos] # k => mem[pos] \in Int
    BY <1>1
  <2>4. k < key => mem[n] # k /\ mem[pos] # k
    <3>1. key < mem[n] /\ key < mem[pos + 1]
      BY <1>1, <1>5, <2>2
    <3> QED BY <1>1, <1>2, <1>5, <3>1
  <2>5. k # key /\ mem[pos] = k => mem[pos + 1] = k
    BY <1>1, <1>5
  <2>6. Num(mem, Before, k) = 0 <=> \A i \in Before : mem[i] # k
    BY <1>3, NumNone
  <2> HIDE DEF Before, Rest
  <2>7. OneMore(mem, Rest, n, k) /\ OneMore(mem, Rest, pos, k)
    BY <1>3, <2>1, NumAdds, Zenon
  <2>8. /\ Num(mem, Rest, k) \in Nat
        /\ Num(mem, Before, k) = Num(mem, Rest, k) + Bit(mem[n], k)
        /\ Num(mem, 0 .. n - 1, k) = Num(mem, Rest, k) + Bit(mem[pos], k)
    BY <2>1, <2>7 DEF OneMore
  <2>9. k # key /\ Num(mem, Before, k) = 0 => mem[pos] # k
    BY <2>2, <2>5, <2>6
  <2>10. Spoils(Num(mem, 0 .. n - 1, k), Num(mem, Before, k), k)
    BY <2>4, <2>8, <2>9 DEF Bit, Spoils
  <2> QED BY <2>10 DEF Before
<1> QED BY <1>1, <1>4, <1>5

(* A kill behind the memmove of a deletion: the last place counts again,   *)
(* and the key is gone.                                                    *)
LEMMA KillInDelete ==
  ASSUME IInv, step = "count", call = "delete", NEW k \in Key
  PROVE  Spoils(Num(mem, 0 .. n - 1, k), Num(mem, 0 .. n - 2, k) + Bit(key, k), k)
<1>1. /\ n \in Nat /\ Cap \in Nat /\ n <= Cap /\ pos \in Nat /\ pos < n /\ key \in Int
      /\ mem[n - 1] \in Int /\ key <= mem[n - 1]
      /\ mem[n - 1] # key => n > 1 /\ mem[n - 2] = mem[n - 1]
  <2>1. /\ n \in Nat /\ Cap \in Nat /\ n <= Cap /\ pos \in Nat /\ pos <= n /\ key \in Int
        /\ \A i \in 0 .. Cap - 1 : mem[i] \in Int
        /\ Deleted
    BY InRange DEF IInv
  <2> QED BY <2>1 DEF Deleted
<1>2. k \in Int
  BY SortArrayAssumption
<1> DEFINE Rest == 0 .. n - 2
           l == n - 1
<1>3. IsFiniteSet(Rest) /\ l \notin Rest /\ 0 .. n - 1 = Rest \cup {l}
  <2>1. 0 \in Int /\ n - 2 \in Int
    BY <1>1
  <2>2. IsFiniteSet(Rest)
    BY <2>1, FS_Interval
  <2> QED BY <1>1, <2>2
<1>4. k < key => mem[l] # k /\ key # k
  BY <1>1, <1>2
<1>5. mem[l] # key => n - 2 \in Rest /\ mem[n - 2] = mem[l]
  BY <1>1
<1>6. Num(mem, Rest, k) \in Nat /\ (Num(mem, Rest, k) = 0 <=> \A i \in Rest : mem[i] # k)
  BY <1>3, NumNone
<1> HIDE DEF Rest, l
<1>7. OneMore(mem, Rest, l, k)
  BY <1>3, NumAdds, Zenon
<1>8. Num(mem, 0 .. n - 1, k) = Num(mem, Rest, k) + Bit(mem[l], k)
  BY <1>3, <1>7 DEF OneMore
<1>9. k # key /\ Num(mem, Rest, k) = 0 => mem[l] # k
  BY <1>5, <1>6
<1>10. Spoils(Num(mem, 0 .. n - 1, k), Num(mem, Rest, k) + Bit(key, k), k)
  BY <1>4, <1>6, <1>8, <1>9 DEF Bit, Spoils
<1> QED BY <1>10 DEF Rest

LEMMA KillLists ==
  ASSUME IInv, IInv', Kill
  PROVE  L!Next
<1>1. /\ step' = "idle" /\ step \in {"search", "move", "write", "count"} /\ kills' = 1 - kills
      /\ UNCHANGED <<n, call, key, pos, answer>>
      /\ step # "move" => mem' = mem
  BY DEF Kill, search, IInv, TypeOK
<1>2. key \in Key /\ call \in {"insert", "delete"}
  BY InRange
<1>3. Copies' = [k \in Key |-> Num(mem', 0 .. n - 1, k)]
  <2>1. Counted' = 0 .. n - 1
    BY <1>1 DEF Counted
  <2> QED BY <1>1, <2>1, CopiesThen
<1>4. CASE step = "search"
  <2>1. Counted = 0 .. n - 1
    BY <1>4 DEF Counted
  <2>2. \A k \in Key : Copies'[k] = Copies[k] /\ Copies[k] \in Nat
    BY <1>1, <1>3, <1>4, <2>1, CopiesNow
  <2> QED BY <1>1, <1>2, <2>2, CutsShort DEF Spoils
<1>5. CASE step = "move"
  <2>1. PICK S \in SUBSET Span : mem' = Moved(S)
    BY <1>5 DEF Kill
  <2>2. Copies = [k \in Key |-> Num(mem, 0 .. n - 1, k)]
    BY <1>5, AtMove, CopiesNow
  <2>3. \A k \in Key : Spoils(Copies'[k], Copies[k], k)
    BY <1>3, <1>5, <2>1, <2>2, KillInMove
  <2> QED BY <1>1, <1>2, <2>3, CutsShort
<1>6. CASE step \in {"write", "count"} /\ call = "insert"
  <2>1. Counted = (0 .. n) \ {pos}
    BY <1>6 DEF Counted
  <2>2. Copies = [k \in Key |-> Num(mem, (0 .. n) \ {pos}, k)]
    BY <1>6, <2>1, CopiesNow
  <2>3. \A k \in Key : Spoils(Copies'[k], Copies[k], k)
    BY <1>1, <1>3, <1>6, <2>2, KillInInsert
  <2> QED BY <1>1, <1>2, <2>3, CutsShort
<1>7. CASE step = "count" /\ call = "delete"
  <2>1. Counted = 0 .. n - 2 /\ \A k : Owed(k) = Bit(key, k)
    BY <1>7 DEF Counted, Owed, Bit
  <2>2. Copies = [k \in Key |-> Num(mem, 0 .. n - 2, k) + Bit(key, k)]
    BY <2>1, CopiesAre
  <2>3. \A k \in Key : Spoils(Copies'[k], Copies[k], k)
    BY <1>1, <1>3, <1>7, <2>2, KillInDelete
  <2> QED BY <1>1, <1>2, <2>3, CutsShort
<1> QED
  <2>1. step = "write" => call = "insert"
    BY DEF IInv
  <2> QED BY <1>1, <1>2, <1>4, <1>5, <1>6, <1>7, <2>1

(* Search by bisection, memmove, write and count: without a kill the array *)
(* is a list that enters a key it does not have, takes one out or refuses, *)
(* and a kill costs or doubles one copy of a key at most, of none below    *)
(* the key of the call, and brings in no other key.                        *)
THEOREM ImplementsListing == Spec => KeepsListing
<1>1. IInv /\ IInv' /\ [Next]_vars => [L!Next]_<<Copies, answer, kills>>
  <2> SUFFICES ASSUME IInv, IInv', [Next]_vars PROVE L!Next \/ Stutters
    BY DEF Stutters
  <2>1. CASE UNCHANGED vars
    <3>1. Counted' = Counted /\ mem' = mem /\ answer' = answer /\ kills' = kills /\ \A k : Owed(k)' = Owed(k)
      BY <2>1 DEF vars, search, Counted, Owed
    <3> QED BY <3>1, CopiesAre DEF Stutters
  <2>2. CASE Next
    BY <2>2, StartLists, SearchLists, MoveLists, WriteLists, CountLists, KillLists DEF Next
  <2> QED BY <2>1, <2>2
<1> QED BY <1>1, InitLists, Invariance, PTL DEF Spec, KeepsListing, L!Spec

-----------------------------------------------------------------------------
(* The friends and the blacklist.                                          *)
-----------------------------------------------------------------------------
(* The variables keep their types.                                         *)
LEMMA TypeStep == FriendsTypeOK /\ [FriendsNext]_friendsvars => FriendsTypeOK'
<1> SUFFICES ASSUME FriendsTypeOK, [FriendsNext]_friendsvars PROVE FriendsTypeOK'
  OBVIOUS
<1> USE FriendsAssumption DEF FriendsTypeOK, Entry
<1>1. ASSUME NEW l \in Kind, NEW id \in Id \cup {None}, Add(l, id) PROVE FriendsTypeOK'
  <2>1. PICK i \in Entry : array' = [array EXCEPT ![l][i] = id]
    BY <1>1 DEF Add, Stop
  <2>2. array' \in [Kind -> [Entry -> Id \cup {None}]]
    BY <2>1
  <2>3. of' \in Kind /\ at' \in 0 .. Max
    BY <1>1 DEF Add, StartRemoval, Stop, Kind, OtherThan
  <2> QED BY <1>1, <2>2, <2>3 DEF Add
<1>2. ASSUME NEW l \in Kind, NEW id \in Id \cup {None}, Remove(l, id) PROVE FriendsTypeOK'
  BY <1>2 DEF Remove, StartRemoval, Stop
<1>3. CASE Shift
  BY <1>3 DEF Shift
<1>4. CASE KillRequest
  <2>1. at' \in 0 .. Max /\ array' = array /\ of' = of
    BY <1>4 DEF KillRequest
  <2>2. unbroken' \in BOOLEAN
    BY <1>4, Zenon DEF KillRequest
  <2> QED BY <2>1, <2>2
<1>5. CASE Reload
  BY <1>5 DEF Reload, Restored
<1>6. CASE UNCHANGED friendsvars
  BY <1>6 DEF friendsvars
<1> QED BY <1>1, <1>2, <1>3, <1>4, <1>5, <1>6 DEF FriendsNext

THEOREM FriendsTypeCorrect == FriendsSpec => []FriendsTypeOK
<1>1. FriendsInit => FriendsTypeOK
  BY FriendsAssumption DEF FriendsInit, FriendsTypeOK, Entry, Kind
<1>2. QED BY <1>1, TypeStep, PTL DEF FriendsSpec

-----------------------------------------------------------------------------
(* Where the loop that looks for id stops: at most one place; on a list    *)
(* without gaps id is there or nowhere.                                    *)
LEMMA StopsAtId ==
  ASSUME FriendsTypeOK, NoGaps, NEW l \in Kind, NEW id \in Id, NEW i \in Entry, array[l][i] = id,
         NEW k \in Stop(l, id)
  PROVE  array[l][k] = id
<1> USE FriendsAssumption DEF FriendsTypeOK, Entry, Stop
<1>1. CASE k < i
  <2>1. array[l][k] # None
    BY <1>1 DEF NoGaps
  <2> QED BY <2>1
<1>2. CASE i < k
  BY <1>2
<1> QED BY <1>1, <1>2

(* On a list without gaps a store and a load change nothing.               *)
LEMMA RestoresAll ==
  ASSUME FriendsTypeOK, NoGaps, NEW l \in Kind
  PROVE  Restored(array[l]) = array[l]
<1> USE FriendsAssumption DEF FriendsTypeOK, Entry
<1>1. \A i \in Entry : Restored(array[l])[i] = array[l][i]
  BY DEF NoGaps, Restored
<1> QED BY <1>1 DEF Restored

(* No list ever has a gap.                                                 *)
LEMMA NoGapsStep == FriendsTypeOK /\ NoGaps /\ [FriendsNext]_friendsvars => NoGaps'
<1> SUFFICES ASSUME FriendsTypeOK, NoGaps, [FriendsNext]_friendsvars PROVE NoGaps'
  OBVIOUS
<1> USE FriendsAssumption DEF FriendsTypeOK, Entry, NoGaps
<1>1. ASSUME NEW l \in Kind, NEW id \in Id \cup {None}, Add(l, id) PROVE NoGaps'
  <2>1. PICK i \in Stop(l, id) : array[l][i] # id /\ array' = [array EXCEPT ![l][i] = id]
    BY <1>1 DEF Add
  <2>2. \A j \in 1 .. i - 1 : array[l][j] # None
    BY <2>1 DEF Stop
  <2>3. id # None
    BY <2>1 DEF Stop
  <2> QED BY <2>1, <2>2, <2>3 DEF Stop
<1>2. ASSUME NEW l \in Kind, NEW id \in Id \cup {None}, Remove(l, id) PROVE NoGaps'
  BY <1>2 DEF Remove
<1>3. CASE Shift
  BY <1>3 DEF Shift
<1>4. CASE KillRequest
  BY <1>4 DEF KillRequest
<1>5. CASE Reload
  BY <1>5, RestoresAll DEF Reload
<1>6. CASE UNCHANGED friendsvars
  BY <1>6 DEF friendsvars
<1> QED BY <1>1, <1>2, <1>3, <1>4, <1>5, <1>6 DEF FriendsNext

(* No list of friends or blacklist has an entry behind its end, whatever   *)
(* removals a kill has cut short.                                          *)
THEOREM ListsHaveNoGaps == FriendsSpec => []NoGaps
<1>1. FriendsInit => NoGaps
  BY DEF FriendsInit, NoGaps, Entry
<1>2. QED BY <1>1, FriendsTypeCorrect, NoGapsStep, PTL DEF FriendsSpec

-----------------------------------------------------------------------------
(* An account has at most one entry.                                       *)
LEMMA OnceStep == FriendsTypeOK /\ NoGaps /\ Once /\ [FriendsNext]_friendsvars => Once'
<1> SUFFICES ASSUME FriendsTypeOK, NoGaps, Once, [FriendsNext]_friendsvars PROVE Once'
  OBVIOUS
<1> USE FriendsAssumption DEF FriendsTypeOK, Entry
<1>1. ASSUME NEW l \in Kind, NEW id \in Id \cup {None}, Add(l, id) PROVE Once'
  <2>1. PICK i \in Stop(l, id) : array[l][i] # id /\ array' = [array EXCEPT ![l][i] = id]
    BY <1>1 DEF Add
  <2>2. id \in Id /\ array[l][i] = None /\ i \in Entry
    BY <2>1 DEF Stop
  <2>3. \A j \in Entry : array[l][j] # id
    BY <2>1, <2>2, StopsAtId
  <2>4. of' = OtherThan(l) /\ OtherThan(l) \in Kind /\ OtherThan(l) # l /\ at = 0 /\ unbroken' = unbroken
    BY <1>1 DEF Add, StartRemoval, OtherThan, Kind
  <2>5. \A j \in Entry : array[OtherThan(l)][j] = id /\ unbroken => j = at'
    <3> SUFFICES ASSUME NEW j \in Entry, array[OtherThan(l)][j] = id, unbroken PROVE j = at'
      OBVIOUS
    <3>1. \A k \in Stop(OtherThan(l), id) : array[OtherThan(l)][k] = id
      BY <2>2, <2>4, StopsAtId
    <3>2. \A k \in Entry : array[OtherThan(l)][k] = id => k = j
      BY <2>2, <2>4 DEF Once, Counts
    <3>3. j \in Stop(OtherThan(l), id)
      BY <3>2, <2>2, <2>4 DEF Stop, NoGaps
    <3> QED BY <3>1, <3>2, <3>3, <1>1 DEF Add, StartRemoval, Stop
  <2>6. \A k \in Kind : k = l \/ k = OtherThan(l)
    BY DEF Kind, OtherThan
  <2> SUFFICES ASSUME unbroken, NEW k \in Kind, NEW m \in Kind, NEW a \in Counts(k)', NEW b \in Counts(m)',
                      array'[k][a] = array'[m][b], array'[k][a] # None
               PROVE  k = m /\ a = b
    BY <2>4 DEF Once
  <2>7. a \in Entry /\ b \in Entry
    BY DEF Counts
  <2>8. CASE array'[k][a] = id
    <3>1. \A x \in Kind, c \in Entry : array'[x][c] = id /\ c \in Counts(x)' => x = l /\ c = i
      BY <2>1, <2>2, <2>3, <2>4, <2>5, <2>6 DEF Counts
    <3> QED BY <3>1, <2>7, <2>8
  <2>9. CASE array'[k][a] # id
    <3>1. array'[k][a] = array[k][a] /\ array'[m][b] = array[m][b]
      BY <2>1, <2>2, <2>7, <2>9
    <3>2. a \in Counts(k) /\ b \in Counts(m)
      BY <2>4, <2>7 DEF Counts
    <3>3. array[k][a] = array[m][b] /\ array[k][a] # None
      BY <3>1
    <3> QED BY <3>2, <3>3, Zenon DEF Once
  <2> QED BY <2>8, <2>9
<1>2. ASSUME NEW l \in Kind, NEW id \in Id \cup {None}, Remove(l, id) PROVE Once'
  <2>1. \A k \in Kind : Counts(k)' \subseteq Counts(k)
    BY <1>2 DEF Remove, Counts
  <2> QED BY <1>2, <2>1 DEF Remove, Once
<1>3. CASE Shift
  <2>1. at \in Entry /\ of \in Kind /\ unbroken' = unbroken /\ of' = of
    BY <1>3 DEF Shift
  <2> DEFINE Old(k, a) == IF k = of /\ a = at THEN at + 1 ELSE a
  <2>2. ASSUME NEW k \in Kind, NEW a \in Counts(k)', array'[k][a] # None
        PROVE  Old(k, a) \in Counts(k) /\ array[k][Old(k, a)] = array'[k][a]
    BY <1>3, <2>1, <2>2 DEF Shift, Counts
  <2>3. ASSUME NEW k \in Kind, NEW a \in Counts(k)', NEW b \in Counts(k)', Old(k, a) = Old(k, b)
        PROVE  a = b \/ array'[k][a] = None
    BY <1>3, <2>1, <2>3 DEF Shift, Counts
  <2> HIDE DEF Old
  <2> QED BY <2>1, <2>2, <2>3 DEF Once
<1>4. CASE KillRequest
  BY <1>4 DEF KillRequest, Once
<1>5. CASE Reload
  <2>1. \A l \in Kind : array'[l] = array[l]
    BY <1>5, RestoresAll DEF Reload
  <2> QED BY <1>5, <2>1 DEF Reload, Once, Counts
<1>6. CASE UNCHANGED friendsvars
  BY <1>6 DEF friendsvars, Once, Counts
<1> QED BY <1>1, <1>2, <1>3, <1>4, <1>5, <1>6 DEF FriendsNext

(* Unless a kill has fallen into a request, no account is on a list twice  *)
(* and no friend is on the blacklist.                                      *)
THEOREM OnceCorrect == FriendsSpec => []Once
<1>1. FriendsInit => Once
  BY DEF FriendsInit, Once, Counts, Entry
<1>2. QED BY <1>1, FriendsTypeCorrect, ListsHaveNoGaps, OnceStep, PTL DEF FriendsSpec

-----------------------------------------------------------------------------
(* The two arrays are the two lists of Relations.                          *)
Lists == [l \in Kind |-> OnList(l)]

(* Looking for an account and not finding it, or finding it and leaving    *)
(* its entry out, takes at most that account off the list.                 *)
LEMMA RemovalStarts ==
  ASSUME FriendsTypeOK, NoGaps, at = 0, NEW l \in Kind, NEW id \in Id \cup {None}, StartRemoval(l, id),
         array'[l] = array[l]
  PROVE  /\ OnList(l)' \in {OnList(l), OnList(l) \ {id}}
         /\ Once /\ unbroken => OnList(l)' = OnList(l) \ {id}
<1> USE FriendsAssumption DEF FriendsTypeOK, Entry
<1>1. Counts(l) = Entry
  BY DEF Counts
<1>2. CASE \A i \in Stop(l, id) : array[l][i] # id
  <2>1. at' = 0
    BY <1>2 DEF StartRemoval
  <2>2. OnList(l)' = OnList(l)
    BY <2>1, <1>1 DEF OnList, Counts
  <2>3. ASSUME Once, unbroken PROVE id \notin OnList(l)
    <3>1. CASE id = None
      BY <3>1 DEF OnList
    <3>2. ASSUME id \in Id, NEW i \in Entry, array[l][i] = id PROVE FALSE
      <4>1. \A j \in Entry : array[l][j] = id => j = i
        BY <2>3, <3>2, <1>1 DEF Once
      <4>2. ASSUME NEW j \in 1 .. i - 1 PROVE array[l][j] \notin {id, None}
        <5>1. j \in Entry /\ j # i /\ j < i
          OBVIOUS
        <5>2. array[l][i] # None
          BY <3>2
        <5>3. array[l][j] # None
          BY <5>1, <5>2 DEF NoGaps
        <5> QED BY <4>1, <5>1, <5>3
      <4>3. i \in Stop(l, id)
        BY <3>2, <4>2 DEF Stop
      <4> QED BY <3>2, <4>3, <1>2
    <3> QED BY <3>1, <3>2, <1>1 DEF OnList
  <2> QED BY <2>2, <2>3
<1>3. ASSUME NEW i \in Stop(l, id), array[l][i] = id, at' = i
      PROVE  /\ OnList(l)' \in {OnList(l), OnList(l) \ {id}}
             /\ Once /\ unbroken => OnList(l)' = OnList(l) \ {id}
  <2>1. i \in Entry /\ of' = l
    BY DEF Stop, StartRemoval
  <2>2. Counts(l)' = Entry \ {i}
    BY <2>1, <1>3 DEF Counts
  <2>3. OnList(l)' = {array[l][j] : j \in Entry \ {i}} \ {None}
    BY <2>2 DEF OnList
  <2>4. OnList(l) = {array[l][j] : j \in Entry} \ {None}
    BY <1>1 DEF OnList
  <2>5. ASSUME Once, unbroken, NEW j \in Entry \ {i} PROVE array[l][j] # id \/ array[l][j] = None
    BY <2>5, <2>1, <1>1, <1>3 DEF Once
  <2>6. OnList(l)' = OnList(l) \/ OnList(l)' = OnList(l) \ {id}
    <3>1. CASE \E j \in Entry \ {i} : array[l][j] = id
      BY <3>1, <2>1, <2>3, <2>4, <1>3
    <3>2. CASE ~ \E j \in Entry \ {i} : array[l][j] = id
      BY <3>2, <2>1, <2>3, <2>4, <1>3
    <3> QED BY <3>1, <3>2
  <2>7. Once /\ unbroken => OnList(l)' = OnList(l) \ {id}
    <3> SUFFICES ASSUME Once, unbroken PROVE OnList(l)' = OnList(l) \ {id}
      OBVIOUS
    <3> QED BY <2>1, <2>3, <2>4, <2>5, <1>3
  <2> QED BY <2>6, <2>7
<1> QED BY <1>2, <1>3 DEF StartRemoval

(* Every step is a step of Relations or changes neither list.              *)
LEMMA RelationsStep ==
  FriendsTypeOK /\ NoGaps /\ Once /\ [FriendsNext]_friendsvars => [R!RNext]_<<Lists, unbroken>>
<1> SUFFICES ASSUME FriendsTypeOK, NoGaps, Once, [FriendsNext]_friendsvars
             PROVE  R!RNext \/ UNCHANGED <<Lists, unbroken>>
  BY DEF Lists
<1> USE FriendsAssumption DEF FriendsTypeOK, Entry
<1>1. ASSUME NEW l \in Kind, NEW id \in Id \cup {None}, Add(l, id) PROVE R!RNext
  <2>1. PICK i \in Stop(l, id) : array[l][i] # id /\ array' = [array EXCEPT ![l][i] = id]
    BY <1>1 DEF Add
  <2>2. id \in Id /\ array[l][i] = None /\ i \in Entry
    BY <2>1 DEF Stop
  <2> DEFINE o == OtherThan(l)
  <2>3. of' = o /\ o \in Kind /\ o # l /\ at = 0 /\ unbroken' = unbroken /\ Kind = {l, o}
    BY <1>1 DEF Add, StartRemoval, OtherThan, Kind
  <2>4. OnList(l)' = OnList(l) \cup {id}
    <3>1. OnList(l)' = {array'[l][j] : j \in Entry} \ {None}
      BY <2>3 DEF OnList, Counts
    <3>2. OnList(l) = {array[l][j] : j \in Entry} \ {None}
      BY <2>3 DEF OnList, Counts
    <3>3. \A j \in Entry : array'[l][j] = IF j = i THEN id ELSE array[l][j]
      BY <2>1, <2>2
    <3> QED BY <2>2, <3>1, <3>2, <3>3
  <2>5. /\ OnList(o)' \in {OnList(o), OnList(o) \ {id}}
        /\ unbroken => OnList(o)' = OnList(o) \ {id}
    <3>1. array'[o] = array[o] /\ StartRemoval(o, id)
      BY <1>1, <2>1, <2>3 DEF Add
    <3> HIDE DEF o
    <3> QED BY <3>1, <2>3, RemovalStarts
  <2> HIDE DEF o
  <2>6. R!EnterOn(l, id)
    BY <2>3, <2>4, <2>5 DEF R!EnterOn
  <2> QED BY <2>2, <2>6 DEF R!RNext
<1>2. ASSUME NEW l \in Kind, NEW id \in Id \cup {None}, Remove(l, id)
      PROVE  R!RNext \/ UNCHANGED <<Lists, unbroken>>
  <2>1. at = 0 /\ array' = array /\ unbroken' = unbroken /\ of' = l
    BY <1>2 DEF Remove, StartRemoval
  <2>2. OnList(l)' \in {OnList(l), OnList(l) \ {id}}
    BY <1>2, <2>1, RemovalStarts DEF Remove
  <2>3. \A k \in Kind \ {l} : OnList(k)' = OnList(k)
    BY <2>1 DEF OnList, Counts
  <2>4. CASE OnList(l)' = OnList(l)
    BY <2>1, <2>3, <2>4 DEF Lists
  <2>5. CASE id \in Id /\ OnList(l)' = OnList(l) \ {id}
    <3>1. R!TakeOff(l, id)
      BY <2>1, <2>3, <2>5 DEF R!TakeOff
    <3> QED BY <3>1, <2>5 DEF R!RNext
  <2>6. CASE id = None /\ OnList(l)' = OnList(l) \ {id}
    <3>1. OnList(l)' = OnList(l)
      BY <2>6 DEF OnList
    <3> QED BY <3>1, <2>4
  <2> QED BY <2>2, <2>4, <2>5, <2>6
<1>3. CASE Shift
  <2>1. at \in Entry /\ of \in Kind /\ unbroken' = unbroken /\ of' = of
    BY <1>3 DEF Shift
  <2>2. \A k \in Kind \ {of} : OnList(k)' = OnList(k)
    BY <1>3, <2>1 DEF Shift, OnList, Counts
  <2>3. OnList(of) \subseteq OnList(of)'
    <3> SUFFICES ASSUME NEW j \in Entry, j # at, array[of][j] # None
                 PROVE  \E i \in Entry : i # at' /\ array'[of][i] = array[of][j]
      BY <2>1 DEF OnList, Counts
    <3>1. CASE j = at + 1
      BY <1>3, <2>1, <3>1 DEF Shift
    <3>2. CASE j # at + 1
      BY <1>3, <2>1, <3>2 DEF Shift
    <3> QED BY <3>1, <3>2
  <2>4. OnList(of)' \subseteq OnList(of)
    <3> SUFFICES ASSUME NEW j \in Entry, j # at', array'[of][j] # None
                 PROVE  \E i \in Entry : i # at /\ array[of][i] = array'[of][j]
      BY <2>1 DEF OnList, Counts
    <3>1. CASE j = at
      BY <1>3, <2>1, <3>1 DEF Shift
    <3>2. CASE j # at
      BY <1>3, <2>1, <3>2 DEF Shift
    <3> QED BY <3>1, <3>2
  <2>5. OnList(of)' = OnList(of)
    BY <2>3, <2>4
  <2>6. \A k \in Kind : OnList(k)' = OnList(k)
    <3> SUFFICES ASSUME NEW k \in Kind PROVE OnList(k)' = OnList(k)
      OBVIOUS
    <3>1. CASE k = of
      BY <3>1, <2>1, <2>5 DEF OnList, Counts
    <3>2. CASE k # of
      BY <3>2, <2>2
    <3> QED BY <3>1, <3>2
  <2> QED BY <2>1, <2>6 DEF Lists
<1>4. CASE KillRequest
  <2>1. at \in Entry /\ of \in Kind /\ array' = array /\ of' = of /\ at' = 0 /\ unbroken' = FALSE
    BY <1>4 DEF KillRequest
  <2>2. \A k \in Kind \ {of} : OnList(k)' = OnList(k)
    BY <2>1 DEF OnList, Counts
  <2>3. OnList(of)' = OnList(of) \cup ({array[of][at]} \ {None})
    BY <2>1 DEF OnList, Counts
  <2>4. R!CutShort(of)
    <3>1. CASE array[of][at] = None
      BY <3>1, <2>1, <2>2, <2>3 DEF R!CutShort
    <3>2. CASE array[of][at] \in Id
      <4>1. Lists' = [Lists EXCEPT ![of] = Lists[of] \cup {array[of][at]}]
        BY <3>2, <2>1, <2>2, <2>3 DEF Lists
      <4> QED BY <3>2, <4>1, <2>1 DEF R!CutShort, Lists
    <3> QED BY <3>1, <3>2, <2>1
  <2> QED BY <2>1, <2>4 DEF R!RNext
<1>5. CASE Reload
  <2>1. \A l \in Kind : array'[l] = array[l]
    BY <1>5, RestoresAll DEF Reload
  <2>2. \A l \in Kind : OnList(l)' = OnList(l)
    BY <1>5, <2>1 DEF Reload, OnList, Counts
  <2> QED BY <1>5, <2>2 DEF Reload, Lists
<1>6. CASE UNCHANGED friendsvars
  BY <1>6 DEF friendsvars, Lists, OnList, Counts
<1> QED BY <1>1, <1>2, <1>3, <1>4, <1>5, <1>6 DEF FriendsNext

(* The two arrays behave like the two lists of Relations, with kills       *)
(* between any two writes.                                                 *)
THEOREM ImplementsRelations == FriendsSpec => KeepsRelations
<1>1. FriendsInit => R!RInit
  <2> SUFFICES ASSUME FriendsInit PROVE R!RInit
    OBVIOUS
  <2>1. \A l \in Kind : OnList(l) = {}
    BY DEF FriendsInit, OnList, Counts
  <2> QED BY <2>1 DEF FriendsInit, R!RInit
<1>2. QED
  BY <1>1, FriendsTypeCorrect, ListsHaveNoGaps, OnceCorrect, RelationsStep, PTL
     DEF FriendsSpec, KeepsRelations, R!RSpec, Lists
=============================================================================
