------------------------------ MODULE MCDungeon ------------------------------
(* A board for TLC: from the start over a fight and a transport cell to    *)
(* the boss at a dead end, with a cell that sends back beside the start    *)
(* and a healing or trap cell next to the lair.                            *)
EXTENDS Dungeon

CONSTANTS start, wolf, gate, back, lair

Board == {start, wolf, gate, back, lair}
What  == [c \in Board |-> CASE c = start -> "heal" [] c = wolf -> "fight" [] c = gate -> "transport"
                            [] c = back -> "backward" [] c = lair -> "boss"]
Near  == [c \in Board |-> CASE c = start -> {wolf, back} [] c = wolf -> {start, gate}
                            [] c = gate -> {wolf, lair} [] c = back -> {start, lair} [] c = lair -> {back}]
Sends == [c \in Board |-> IF c = back THEN 2 ELSE 0]

Heals == {-2, 1}

(* Begin overwrites what the last fight left.                              *)
View == <<vars, pc, hp, IF pc = "rest" THEN <<>> ELSE <<foe, turn, round, opening, told, verdict>>>>
=============================================================================
