----------------------------- MODULE MCGameSystem -----------------------------
(* Instances of GameSystem for TLC.                                        *)
EXTENDS GameSystem, TLC

Symmetry == Permutations(Slot) \cup Permutations(Session) \cup Permutations(RoleId)

\* The fields of a free slot are overwritten before they are read again.
OfUsed(f) == [r \in used |-> f[r]]
View == <<proc, used, idIdx, fdIdx, OfUsed(roleId), OfUsed(session), OfUsed(owner),
          gate, logins, crashes>>
=============================================================================
