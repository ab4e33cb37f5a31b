------------------------------- MODULE MCSight --------------------------------
(* Instances of Sight for TLC.                                             *)
EXTENDS Sight, TLC

\* Accounts, descriptors and scenes are interchangeable.
Symmetry == Permutations(Role) \cup Permutations(Fd) \cup Permutations(Scene)
=============================================================================
