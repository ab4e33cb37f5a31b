------------------------------ MODULE MCGameSrv ------------------------------
(* Instances of GameSrv for TLC.                                           *)
EXTENDS GameSrv, TLC

\* One login area for most runs; the second one is never looked up.
OneArea  == {0}
TwoAreas == {0, 1}

\* Slots, bags, instances, sessions and accounts are interchangeable; a run
\* that checks no liveness property may use this.
Symmetry == Permutations(Slot) \cup Permutations(Bag) \cup Permutations(Session) \cup Permutations(RoleId)
\* The fields of a free slot are overwritten before they are read again, and
\* the money of a role without a name is never read; failed is history, which
\* only LoadEnds reads, and the run that checks it uses no view.
OfUsed(f) == [r \in used |-> f[r]]
View == <<proc, crashes, used, indexes, OfUsed(roleId), OfUsed(session), OfUsed(named),
          OfUsed(scene), OfUsed(bag), OfUsed(inst), [r \in {q \in used : named[q]} |-> money[r]],
          things, row, toDb, fromDb>>
=============================================================================
