------------------------------ MODULE SortArray ------------------------------
(* The sorted arrays of a scene, an instance or a role in shared memory:   *)
(* array_insert and array_delete with the search they begin with, one      *)
(* action per comparison, memmove or write.  A kill falls between any two  *)
(* of them and anywhere into a memmove.                                    *)
EXTENDS Integers, FiniteSets

CONSTANTS
  Key,   \* what is compared
  Cap    \* the length of the array; every caller compares with it first

ASSUME SortArrayAssumption ==
  /\ Key \subseteq Int /\ Key # {}
  /\ Cap \in Nat \ {0}

VARIABLES
  mem,     \* the array; behind the last entry is what was there before
  n,       \* *pnmemb
  step,    \* where the call under way is
  call,    \* which call it is
  key,     \* its key
  low,     \* l
  high,    \* u
  pos,     \* index
  answer,  \* history: the last call that returned
  whole,   \* history: no kill has fallen behind a search
  kills    \* history: 1 after an odd number of kills

search == <<call, key, low, high>>
vars   == <<mem, n, step, search, pos, answer, whole, kills>>

Place   == 0 .. Cap - 1
Calls   == {"insert", "delete"}
Entries == {mem[i] : i \in 0 .. n - 1}

Init ==
  /\ \E k \in Key : mem = [i \in Place |-> k]
  /\ n = 0
  /\ step = "idle" /\ call = "delete" /\ key = CHOOSE k \in Key : TRUE
  /\ low = 0 /\ high = 0 /\ pos = 0
  /\ answer = [call |-> "delete", key |-> key, done |-> FALSE]
  /\ whole = TRUE /\ kills = 0

-----------------------------------------------------------------------------
Start(c, k) ==
  /\ step = "idle"
  /\ c = "insert" => n < Cap
  /\ step' = "search" /\ call' = c /\ key' = k
  /\ low' = 0 /\ high' = n
  /\ UNCHANGED <<mem, n, pos, answer, whole, kills>>

(* array_bsearch returns i; both calls look at find first.                 *)
ReturnsTwice(find, i) ==                           \* mutant: a key that is there is put in again
  /\ step' = "move" /\ pos' = i
  /\ UNCHANGED <<search, answer>>
Returns(find, i) ==
  /\ IF find <=> call = "insert"
     THEN /\ step' = "idle"
          /\ answer' = [call |-> call, key |-> key, done |-> FALSE]
          /\ UNCHANGED pos
     ELSE /\ step' = "move" /\ pos' = i
          /\ UNCHANGED answer
  /\ UNCHANGED search

idx == (low + high) \div 2

(* The body of the loop.                                                   *)
Probe ==
  \/ key = mem[idx] /\ Returns(TRUE, idx)
  \/ /\ key < mem[idx] /\ (idx > 0 => key > mem[idx - 1])
     /\ Returns(FALSE, idx)
  \/ /\ key < mem[idx] /\ idx > 0 /\ key <= mem[idx - 1]
     /\ high' = idx
     /\ UNCHANGED <<call, key, low, step, pos, answer>>
  \/ /\ key > mem[idx]
     /\ low' = idx + 1
     /\ UNCHANGED <<call, key, high, step, pos, answer>>

Search ==
  /\ step = "search"
  /\ IF low < high THEN Probe ELSE Returns(FALSE, high)
  /\ UNCHANGED <<mem, n, whole, kills>>

(* What memmove writes, and the array once it has written the entries in   *)
(* S: libc is free in their order, and each gets its last value at once.   *)
SpanShort ==                                       \* mutant: nmemb - index - 1 entries in both
  IF call = "insert" THEN pos + 1 .. n - 1 ELSE pos .. n - 2
Span ==
  IF call = "insert" THEN pos + 1 .. n ELSE pos .. n - 2
Moved(S) ==
  [i \in Place |-> IF i \notin S THEN mem[i]
                   ELSE IF call = "insert" THEN mem[i - 1] ELSE mem[i + 1]]

Move ==
  /\ step = "move"
  /\ mem' = Moved(Span)
  /\ step' = IF call = "insert" THEN "write" ELSE "count"
  /\ UNCHANGED <<n, search, pos, answer, whole, kills>>

Write ==
  /\ step = "write"
  /\ mem' = [mem EXCEPT ![pos] = key]
  /\ step' = "count"
  /\ UNCHANGED <<n, search, pos, answer, whole, kills>>

Count ==
  /\ step = "count"
  /\ n' = IF call = "insert" THEN n + 1 ELSE n - 1
  /\ step' = "idle"
  /\ answer' = [call |-> call, key |-> key, done |-> TRUE]
  /\ UNCHANGED <<mem, search, pos, whole, kills>>

(* kill -9; the restarted process finds the array and its length.          *)
Kill ==
  /\ step # "idle"
  /\ step' = "idle"
  /\ \/ step = "move" /\ \E S \in SUBSET Span : mem' = Moved(S)
     \/ step # "move" /\ UNCHANGED mem
  /\ whole' = (whole /\ step = "search")
  /\ kills' = 1 - kills
  /\ UNCHANGED <<n, search, pos, answer>>

Next ==
  \/ \E c \in Calls, k \in Key : Start(c, k)
  \/ Search \/ Move \/ Write \/ Count \/ Kill

Spec == Init /\ [][Next]_vars

-----------------------------------------------------------------------------
TypeOK ==
  /\ mem \in [Place -> Key] /\ n \in 0 .. Cap
  /\ step \in {"idle", "search", "move", "write", "count"} /\ call \in Calls /\ key \in Key
  /\ low \in 0 .. Cap /\ high \in 0 .. Cap /\ pos \in 0 .. Cap
  /\ answer \in [call : Calls, key : Key, done : BOOLEAN]
  /\ whole \in BOOLEAN /\ kills \in {0, 1}
  /\ step \in {"move", "write", "count"} => pos \in Place /\ pos <= n

(* Wherever kills fall, the entries are in order, so that every later      *)
(* search is right about what is listed; without a kill no key is there    *)
(* twice.                                                                  *)
Sorted ==
  /\ \A i \in 1 .. n - 1 : mem[i - 1] <= mem[i]
  /\ (whole /\ step \in {"idle", "search"}) => \A i \in 1 .. n - 1 : mem[i - 1] < mem[i]

(* Bisection never rules out the place where the key is or belongs: a call *)
(* that goes on knows where its key is, or that it is nowhere.             *)
Found ==
  /\ step = "search" =>
       /\ low <= high /\ high <= n
       /\ \A i \in 0 .. low - 1 : mem[i] < key
       /\ \A i \in high .. n - 1 : key < mem[i]
  /\ (step = "move" /\ call = "delete") => mem[pos] = key
  /\ (step = "move" /\ call = "insert") => key \notin Entries

(* The places that count: once memmove is through, an insertion has the    *)
(* place it makes room for and not yet the key; a deletion has lost one    *)
(* copy of its key until it counts it off.                                 *)
Counted ==
  IF step \notin {"write", "count"} THEN 0 .. n - 1
  ELSE IF call = "insert" THEN (0 .. n) \ {pos} ELSE 0 .. n - 2
Owed(k) == IF step = "count" /\ call = "delete" /\ k = key THEN 1 ELSE 0
Copies == [k \in Key |-> Cardinality({i \in Counted : mem[i] = k}) + Owed(k)]

(* The arrays implement Listing: without a kill no key is lost or listed   *)
(* twice, and a kill spoils no more than Listing's CutShort says.          *)
L == INSTANCE Listing WITH copies <- Copies
KeepsListing == L!Spec
=============================================================================
