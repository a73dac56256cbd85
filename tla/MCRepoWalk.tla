----------------------------- MODULE MCRepoWalk -----------------------------
(* Small instances of RepoWalk for TLC: every graph of a few directories.   *)
EXTENDS RepoWalk

CONSTANTS r, a, b

TwoDirs == {r, a}
ThreeDirs == {r, a, b}
TwoNames == {1, 2}
=============================================================================
