---------------------------- MODULE MCPackaging -----------------------------
(* The packet of a repository with one file, in two versions.              *)
EXTENDS Packaging, TLC

CONSTANTS v1, v2

MCDocs == <<"files/a.md">>
MCVersion == {v1, v2}
Symmetry == Permutations(MCVersion)
=============================================================================
