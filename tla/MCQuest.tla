------------------------------- MODULE MCQuest -------------------------------
(* Instances of Quest for TLC.                                             *)
EXTENDS Quest

CONSTANTS sword, herb, wolf

One(id, num) == [id |-> id, num |-> num]

Kinds  == {sword, herb}
Worn   == {sword}
Stacks == [id \in Kinds |-> IF id = herb THEN 2 ELSE 1]
Gifts  == {<<One(sword, 1), One(herb, 1)>>, <<One(herb, 1), One(herb, 1)>>}

(* One quest to kill for, one to collect for and one for both.             *)
Kills    == <<wolf, None, wolf>>
Collects == <<None, sword, sword>>
Awards   == << <<One(sword, 1), One(herb, 1)>>, << >>, <<One(herb, 1), One(herb, 1)>> >>
Pays     == <<1, 2, 4>>
=============================================================================
