---------------------------- MODULE TreeListing ----------------------------
\* inventory.render_tree: the directories and files of a repository as one
\* indented list.
EXTENDS Integers, Sequences, FiniteSets, SequencesExt

CONSTANT TreeLimit   \* limit

ASSUME TreeAssumption == TreeLimit \in Nat

Slash == 47   \* the byte between two components; "-" and "." come before it

\* A path is the sequence of its components, a component a sequence of bytes.
Bytes(path) ==
  FoldLeft(LAMBDA text, part : text \o <<Slash>> \o part, Head(path), Tail(path))

\* sort_key: the order of the bytes of the whole path.
Before(p, q) ==
  LET a == Bytes(p)
      b == Bytes(q)
  IN \/ IsStrictPrefix(a, b)
     \/ \E i \in DOMAIN a \cap DOMAIN b : a[i] < b[i] /\ SubSeq(a, 1, i - 1) = SubSeq(b, 1, i - 1)

\* The elements of a set in an order: each where as many come before it.
InOrder(S, Less(_, _)) ==
  [i \in 1 .. Cardinality(S) |-> CHOOSE x \in S : Cardinality({y \in S : Less(y, x)}) = i - 1]

\* Mutant: the directories are listed before the files.
CombinedApart(dirs, files) == InOrder(dirs, Before) \o InOrder(files, Before)

\* combined, sorted.
Combined(dirs, files) == InOrder(dirs \cup files, Before)

\* render_tree: a line shows how deep its entry is, its name, and whether it is a
\* directory; the listing ends at the limit and says so.
RenderTree(dirs, files) ==
  LET combined   == Combined(dirs, files)
      Line(path) == [depth |-> Len(path), name |-> Last(path), dir |-> path \in dirs]
  IN [lines |-> [i \in 1 .. Min({Len(combined), TreeLimit}) |-> Line(combined[i])],
      truncated |-> Len(combined) > TreeLimit]
=============================================================================
