-------------------------- MODULE MCActionManifest --------------------------
(***************************************************************************)
(* Small instances of ActionManifest.  Three invocations are the fewest    *)
(* that show an `init`, a command that fails or is killed, and a command   *)
(* that runs after it; a batch of two is the fewest that can fail half-way.*)
(***************************************************************************)
EXTENDS ActionManifest, TLC

CONSTANTS i1, i2, i3, i4

Three == {i1, i2, i3}
Four == {i1, i2, i3, i4}

\* One good record, two, a good one followed by a bad one.
SomeBatches == {<<TRUE>>, <<TRUE, TRUE>>, <<TRUE, FALSE>>}

\* The same, the empty list and a single bad record.
AllBatches == SomeBatches \cup {<<>>, <<FALSE>>}

\* The invocations differ in nothing but their names.
Symmetry == Permutations(Invocation)
=============================================================================
