------------------------------- MODULE MemPool -------------------------------
(* An object pool in shared memory: POOL_DEF of mempool.h over the linked  *)
(* lists of game_queue.h.  kill -9 may fall between any two writes; the    *)
(* restarted process goes on with what it finds.                           *)
(*                                                                         *)
(* Every link is written twice, as a pointer and as an index.  The running *)
(* process follows the pointers, a restarted one rebuilds them from the    *)
(* indices; only the indices are kept here.  The build is -O0 with a       *)
(* single thread: memory sees the writes in the order of the source.       *)
EXTENDS Naturals, Sequences, FiniteSets

CONSTANTS
  N,        \* max_##name##_in_game
  MaxKill   \* bound of the model: number of kills

ASSUME NAssumption == N \in Nat \ {0} /\ MaxKill \in Nat

Elem   == 0 .. N - 1
MaxIdx == N                    \* any index without an element stands for the head
Index  == 0 .. N

VARIABLES
  list,    \* list["used"], list["freed"]: the two lists in shared memory
  holders, \* how often each element was handed out and not given back
  op,      \* "create", "destroy", or "none" between two calls
  cur,     \* the element the call is about
  done,    \* how many of its writes have been made
  up,      \* the process runs
  kills,   \* kills so far
  torn     \* a kill left a wrong backward link behind: it fell between the
           \* two statements of a removal from the used list, or between the
           \* third and the fourth statement of an insertion

vars == <<list, holders, op, cur, done, up, kills, torn>>

held == {e \in Elem : holders[e] > 0}

List == [first : Index, last : Index, next : [Elem -> Index], prev : [Elem -> Index]]

-----------------------------------------------------------------------------
(* GAME_CIRCLEQ_REMOVE: two statements.                                    *)
Remove1(L, e) ==
  IF L.next[e] = MaxIdx THEN [L EXCEPT !.last = L.prev[e]]
  ELSE [L EXCEPT !.prev[L.next[e]] = L.prev[e]]

Remove2Inner(L, e) ==                                    \* mutant: the head is forgotten
  IF L.prev[e] = MaxIdx THEN L
  ELSE [L EXCEPT !.next[L.prev[e]] = L.next[e]]
Remove2(L, e) ==
  IF L.prev[e] = MaxIdx THEN [L EXCEPT !.first = L.next[e]]
  ELSE [L EXCEPT !.next[L.prev[e]] = L.next[e]]

(* GAME_CIRCLEQ_INSERT_HEAD: four statements.                              *)
Insert1(L, e) == [L EXCEPT !.next[e] = L.first]
Insert2(L, e) == [L EXCEPT !.prev[e] = MaxIdx]
Insert3Inner(L, e) ==                                    \* mutant: the empty list is forgotten
  IF L.first = MaxIdx THEN L ELSE [L EXCEPT !.prev[L.first] = e]
Insert3(L, e) ==
  IF L.last = MaxIdx THEN [L EXCEPT !.last = e]
  ELSE [L EXCEPT !.prev[L.first] = e]
Insert4(L, e) == [L EXCEPT !.first = e]

Push(L, e) == Insert4(Insert3(Insert2(Insert1(L, e), e), e), e)

(* GAME_CIRCLEQ_FOREACH: the elements in order; a list with a cycle gives  *)
(* a walk that is too long.                                                *)
WalkOf(start, link) ==
  LET at[k \in 1 .. N + 1] ==
        IF k = 1 THEN start
        ELSE IF at[k - 1] = MaxIdx THEN MaxIdx ELSE link[at[k - 1]]
      len == Cardinality({k \in 1 .. N + 1 : at[k] # MaxIdx})
  IN  [k \in 1 .. len |-> at[k]]

Walk(L)    == WalkOf(L.first, L.next)
Ends(L)    == Len(Walk(L)) <= N
Members(L) == {Walk(L)[k] : k \in DOMAIN Walk(L)}

-----------------------------------------------------------------------------
Fresh == [first |-> MaxIdx, last |-> MaxIdx,
          next |-> [e \in Elem |-> 0], prev |-> [e \in Elem |-> 0]]

(* init_##name: every element goes to the head of the free list.           *)
Init ==
  /\ list = LET filled[k \in 0 .. N] ==
                  IF k = 0 THEN Fresh ELSE Push(filled[k - 1], k - 1)
            IN  [l \in {"used", "freed"} |-> IF l = "used" THEN Fresh ELSE filled[N]]
  /\ holders = [e \in Elem |-> 0]
  /\ op = "none"
  /\ cur = 0
  /\ done = 0
  /\ up = TRUE
  /\ kills = 0
  /\ torn = FALSE

(* create_##name: the first of the free list, unless it is empty.          *)
Create ==
  /\ up /\ op = "none"
  /\ list["freed"].first # MaxIdx
  /\ op' = "create"
  /\ cur' = list["freed"].first
  /\ done' = 0
  /\ UNCHANGED <<list, holders, up, kills, torn>>

(* destory_##name of an element the program holds.                         *)
Destroy(e) ==
  /\ up /\ op = "none"
  /\ holders[e] > 0
  /\ holders' = [holders EXCEPT ![e] = @ - 1]
  /\ op' = "destroy"
  /\ cur' = e
  /\ done' = 0
  /\ UNCHANGED <<list, up, kills, torn>>

From == IF op = "create" THEN "freed" ELSE "used"
To   == IF op = "create" THEN "used" ELSE "freed"

WriteInsertFirst ==                                      \* mutant: insertion before removal
  CASE done = 0 -> [list EXCEPT ![To] = Insert1(@, cur)]
    [] done = 1 -> [list EXCEPT ![To] = Insert2(@, cur)]
    [] done = 2 -> [list EXCEPT ![To] = Insert3(@, cur)]
    [] done = 3 -> [list EXCEPT ![To] = Insert4(@, cur)]
    [] done = 4 -> [list EXCEPT ![From] = Remove1(@, cur)]
    [] done = 5 -> [list EXCEPT ![From] = Remove2(@, cur)]
(* Both calls remove the element from one list, then insert it at the head *)
(* of the other.                                                           *)
WriteOne ==
  CASE done = 0 -> [list EXCEPT ![From] = Remove1(@, cur)]
    [] done = 1 -> [list EXCEPT ![From] = Remove2(@, cur)]
    [] done = 2 -> [list EXCEPT ![To] = Insert1(@, cur)]
    [] done = 3 -> [list EXCEPT ![To] = Insert2(@, cur)]
    [] done = 4 -> [list EXCEPT ![To] = Insert3(@, cur)]
    [] done = 5 -> [list EXCEPT ![To] = Insert4(@, cur)]

(* The next statement of the call under way.                               *)
Write ==
  /\ up /\ op # "none" /\ done < 5
  /\ list' = WriteOne
  /\ done' = done + 1
  /\ UNCHANGED <<holders, op, cur, up, kills, torn>>

Least(x, y) == IF x < y THEN x ELSE y

(* The last one, and the return to the caller; a third holder is not       *)
(* counted.                                                                *)
Return ==
  /\ up /\ op # "none" /\ done = 5
  /\ list' = WriteOne
  /\ holders' = IF op = "create" THEN [holders EXCEPT ![cur] = Least(@ + 1, 2)]
                ELSE holders
  /\ op' = "none"
  /\ done' = 0
  /\ cur' = 0
  /\ UNCHANGED <<up, kills, torn>>

(* kill -9 *)
Kill ==
  /\ up
  /\ kills < MaxKill
  /\ up' = FALSE
  /\ kills' = kills + 1
  /\ UNCHANGED <<list, holders, op, cur, done, torn>>

(* resume_##name walks the used list; what it finds is what the new        *)
(* process holds.  A cycle would keep it busy for ever.                    *)
ForEachUsed == Members(list["used"])

Resume ==
  /\ ~up
  /\ Ends(list["used"])
  /\ holders' = [e \in Elem |-> IF e \in ForEachUsed THEN 1 ELSE 0]
  /\ torn' = (torn \/ (done = 1 /\ op = "destroy") \/ done = 5)
  /\ up' = TRUE
  /\ op' = "none"
  /\ done' = 0
  /\ cur' = 0
  /\ UNCHANGED <<list, kills>>

(* A process that resumed on a wrong backward link will write to the wrong *)
(* place in some later removal; it is not followed.                        *)
Next ==
  /\ ~torn
  /\ Create \/ (\E e \in Elem : Destroy(e)) \/ Write \/ Return \/ Kill \/ Resume

Spec == Init /\ [][Next]_vars

-----------------------------------------------------------------------------
(* Every link names an element or the head, and a call is at one of its    *)
(* six writes.                                                             *)
TypeOK ==
  /\ list \in [{"used", "freed"} -> List]
  /\ holders \in [Elem -> 0 .. 2]
  /\ op \in {"create", "destroy", "none"}
  /\ cur \in Elem
  /\ done \in 0 .. 5
  /\ up \in BOOLEAN
  /\ kills \in 0 .. MaxKill
  /\ torn \in BOOLEAN

(* Wherever a kill falls, resume walks a used list that ends, finds every  *)
(* object the program held and at most the one it was creating or          *)
(* destroying, and nothing it finds is in the free list.                   *)
KillIsSurvived ==
  ~up =>
    /\ Ends(list["used"]) /\ Ends(list["freed"])
    /\ held \subseteq ForEachUsed
    /\ ForEachUsed \subseteq held \cup (IF op = "none" THEN {} ELSE {cur})
    /\ ForEachUsed \cap Members(list["freed"]) = {}

(* Between two calls the used list holds exactly what the program holds,   *)
(* no element is in both lists, a kill costs at most one element, and no   *)
(* call can follow a link to the wrong place: a used element's neighbours  *)
(* point back at it, and the first free element's backward link is the     *)
(* head.                                                                   *)
Mirrored(L) == Walk(L) = LET back == WalkOf(L.last, L.prev)
                         IN  [k \in DOMAIN back |-> back[Len(back) + 1 - k]]

ListsExact ==
  /\ TypeOK
  /\ up /\ op = "none" /\ ~torn =>
    /\ Ends(list["used"]) /\ Ends(list["freed"])
    /\ ForEachUsed = held
    /\ held \cap Members(list["freed"]) = {}
    /\ Cardinality(Elem \ (held \cup Members(list["freed"]))) <= kills
    /\ Mirrored(list["used"])
    /\ list["freed"].first # MaxIdx => list["freed"].prev[list["freed"].first] = MaxIdx

A == INSTANCE Allocator WITH Obj <- Elem

(* Nothing is handed out twice, and nothing held is lost over a restart.   *)
KeepsHolders == A!ASpec
=============================================================================
