------------------------------ MODULE Allocator ------------------------------
(* What a pool promises the code that uses it: an object is handed out to  *)
(* one holder at a time, and a restart finds every object that was held,   *)
(* with at most the one more that was being created or destroyed.          *)
EXTENDS Naturals, FiniteSets

CONSTANTS Obj

VARIABLE holders               \* how often each object was handed out

held == {e \in Obj : holders[e] > 0}

Hold(h) == [e \in Obj |-> IF e \in h THEN 1 ELSE 0]

Allocate(e) == e \notin held /\ holders' = Hold(held \cup {e})
Release(e)  == e \in held /\ holders' = Hold(held \ {e})
Recover     == \E more \in SUBSET (Obj \ held) :
                 Cardinality(more) <= 1 /\ holders' = Hold(held \cup more)

AInit == holders = Hold({})
ANext == Recover \/ \E e \in Obj : Allocate(e) \/ Release(e)
ASpec == AInit /\ [][ANext]_holders
=============================================================================
