--------------------------- MODULE MCOrderlyClients ---------------------------
(* Instances of OrderlyClients for TLC.                                    *)
EXTENDS OrderlyClients, TLC

OneArea == {0}

\* Slots, bags, connections and instances are interchangeable.
Symmetry == Permutations(Slot) \cup Permutations(Bag) \cup Permutations(Session) \cup Permutations(RoleId)

\* The fields of a free slot are overwritten before they are read again, and
\* the money of a role without a name is never read.
OfUsed(f) == [r \in used |-> f[r]]
View == <<proc, crashes, used, indexes, OfUsed(roleId), OfUsed(session), OfUsed(named),
          OfUsed(scene), OfUsed(bag), OfUsed(inst), [r \in {q \in used : named[q]} |-> money[r]],
          things, row, failed, toDb, fromDb>>
=============================================================================
