---------------------------- MODULE MCIntegrity -----------------------------
(* Small instances of Integrity for TLC: two files, contents of which two   *)
(* have the same size, one another size and one is empty.                   *)
EXTENDS Integrity, TLC

CONSTANTS empty, x, y, z, v, w

TwoFiles == {1, 2}
AllContents == {empty, x, y, z}
ThreeContents == {empty, x, y}
Sizes == [c \in Contents |-> IF c = empty THEN 0 ELSE IF c = z THEN 9 ELSE 5]
TwoVersions == {v, w}
Symmetry == Permutations({x, y}) \cup Permutations({v, w})
=============================================================================
