------------------------------ MODULE RepoWalk ------------------------------
(***************************************************************************)
(* inventory.walk: the depth-first traversal of the repository that both   *)
(* `inventory` and `verify` rest on.                                       *)
(*                                                                         *)
(* The repository is a graph, not a tree: an entry that lstat calls a      *)
(* directory may resolve to a directory that another path also reaches (a  *)
(* directory junction, or a drive or folder mapped a second time), so a    *)
(* directory may even contain itself.  Symbolic links are entries that     *)
(* lstat does not call directories, so they are leaves here.               *)
(*                                                                         *)
(* The walk runs in one process; what varies is the graph and which of the *)
(* calls scandir, lstat and resolve fail.                                  *)
(***************************************************************************)
EXTENDS Integers, Sequences, FiniteSets

CONSTANTS
  Dir,           \* the physical directories, as resolve() names them
  Root,          \* REPO_ROOT
  Name,          \* entry names, ordered as sort_key orders them
  NoEntry,       \* what a name a directory does not hold leads to
  Leaf,          \* what a name of a file, link or special file leads to
  ResolveBudget  \* bound: how often resolve() of a directory may fail

ASSUME DirAssumption == Root \in Dir /\ NoEntry \notin Dir /\ Leaf \notin Dir
ASSUME NameAssumption == Name \subseteq Int
ASSUME BudgetAssumption == ResolveBudget \in Nat

VARIABLES
  tree,      \* tree[d][n]: what entry n of directory d is
  stack,     \* the directories still to be scanned, the next one last
  seen,      \* seen_dirs, as physical directories
  here,      \* the directory of the entries in hand, as a place
  items,     \* the names in `here` that the inner loop has not reached
  errors,    \* the error rows: stage and path
  yielded,   \* the paths handed to the caller
  scans,     \* history: the places taken from the stack, in order
  listed,    \* history: the places whose scandir succeeded
  unresolved \* how many resolve() calls have failed

vars == <<tree, stack, seen, here, items, errors, yielded, scans, listed, unresolved>>

\* A place is a directory together with the path that led the walk there.
Place(d, path) == [dir |-> d, path |-> path]
Error(stage, path) == [stage |-> stage, path |-> path]

Entries(d) == {n \in Name : tree[d][n] # NoEntry}

Init ==
  /\ tree \in [Dir -> [Name -> Dir \cup {NoEntry, Leaf}]]
  /\ stack = <<Place(Root, <<>>)>>
  /\ seen = {Root}
  /\ here = Place(Root, <<>>) /\ items = {}
  /\ errors = {} /\ yielded = {}
  /\ scans = <<>> /\ listed = {}
  /\ unresolved = 0
-----------------------------------------------------------------------------
\* Mutant: the loop asks for more than one place on the stack.
PopAllButLast ==
  /\ items = {}
  /\ Len(stack) > 1
  /\ here' = stack[Len(stack)]
  /\ stack' = SubSeq(stack, 1, Len(stack) - 1)
  /\ scans' = Append(scans, here')

\* stack.pop()
Pop ==
  /\ items = {}
  /\ stack # <<>>
  /\ here' = stack[Len(stack)]
  /\ stack' = SubSeq(stack, 1, Len(stack) - 1)
  /\ scans' = Append(scans, here')

\* The entries are listed; they are taken in the order of NextItem.
Scan ==
  /\ Pop
  /\ items' = Entries(here'.dir)
  /\ listed' = listed \cup {here'}
  /\ UNCHANGED <<tree, seen, errors, yielded, unresolved>>

ScanError ==
  /\ Pop
  /\ errors' = errors \cup {Error("scandir", here'.path)}
  /\ UNCHANGED <<tree, seen, items, yielded, listed, unresolved>>

\* Mutant: the items are sorted upwards.
AscendingItem(n) == n \in items /\ \A m \in items : n <= m

\* items.sort(reverse=True): the greatest name comes first, so that the stack
\* gives the smallest one back first.
NextItem(n) == n \in items /\ \A m \in items : m <= n

PathOf(n) == Append(here.path, n)

\* Mutant: an entry that cannot be examined ends the loop over its directory.
LstatErrorBreaks(n) ==
  /\ NextItem(n)
  /\ items' = {}
  /\ errors' = errors \cup {Error("lstat", PathOf(n))}
  /\ UNCHANGED <<tree, stack, seen, here, yielded, scans, listed, unresolved>>

LstatError(n) ==
  /\ NextItem(n)
  /\ items' = items \ {n}
  /\ errors' = errors \cup {Error("lstat", PathOf(n))}
  /\ UNCHANGED <<tree, stack, seen, here, yielded, scans, listed, unresolved>>

Yield(n) ==
  /\ NextItem(n)
  /\ items' = items \ {n}
  /\ yielded' = yielded \cup {PathOf(n)}
  /\ UNCHANGED <<tree, here, scans, listed>>

YieldLeaf(n) ==
  /\ Yield(n)
  /\ tree[here.dir][n] \notin Dir
  /\ UNCHANGED <<stack, seen, errors, unresolved>>

Push(n) == stack' = Append(stack, Place(tree[here.dir][n], PathOf(n)))

\* Mutant: the path is noted in place of the resolved directory.
DescendByPath(n) ==
  /\ Yield(n)
  /\ tree[here.dir][n] \in Dir \ seen
  /\ seen' = seen \cup {PathOf(n)}
  /\ Push(n)
  /\ UNCHANGED <<errors, unresolved>>

\* Mutant: no check of seen_dirs.
DescendAlways(n) ==
  /\ Yield(n)
  /\ tree[here.dir][n] \in Dir
  /\ seen' = seen \cup {tree[here.dir][n]}
  /\ Push(n)
  /\ UNCHANGED <<errors, unresolved>>

\* A directory met for the first time is yielded, noted and pushed.
Descend(n) ==
  /\ Yield(n)
  /\ tree[here.dir][n] \in Dir \ seen
  /\ seen' = seen \cup {tree[here.dir][n]}
  /\ Push(n)
  /\ UNCHANGED <<errors, unresolved>>

\* A directory seen before is yielded and reported, but not pushed.
Alias(n) ==
  /\ Yield(n)
  /\ tree[here.dir][n] \in seen
  /\ errors' = errors \cup {Error("traverse", PathOf(n))}
  /\ UNCHANGED <<stack, seen, unresolved>>

\* resolve() fails, and the path itself becomes the key.  Where that path is
\* the resolved one the outcome is that of Descend or Alias; any other path is
\* new to seen_dirs, and no later key will equal it.
DescendUnresolved(n) ==
  /\ Yield(n)
  /\ tree[here.dir][n] \in Dir
  /\ unresolved < ResolveBudget
  /\ unresolved' = unresolved + 1
  /\ Push(n)
  /\ UNCHANGED <<seen, errors>>

Visit(n) ==
  \/ LstatError(n) \/ YieldLeaf(n) \/ Descend(n) \/ Alias(n) \/ DescendUnresolved(n)

Next == Scan \/ ScanError \/ \E n \in Name : Visit(n)

Spec == Init /\ [][Next]_vars

\* One process runs the generator to its end; the file system answers.
FairSpec == Spec /\ WF_vars(Next)
-----------------------------------------------------------------------------
(* Properties                                                              *)

PathType == Seq(Name)
PlaceType == [dir : Dir, path : PathType]
Stages == {"scandir", "lstat", "traverse"}

\* Every variable keeps its range; what is noted in seen is a directory.
TypeOK ==
  /\ tree \in [Dir -> [Name -> Dir \cup {NoEntry, Leaf}]]
  /\ stack \in Seq(PlaceType) /\ scans \in Seq(PlaceType)
  /\ here \in PlaceType /\ listed \subseteq PlaceType
  /\ seen \subseteq Dir /\ items \subseteq Entries(here.dir)
  /\ yielded \subseteq PathType
  /\ errors \subseteq [stage : Stages, path : PathType]
  /\ unresolved \in 0..ResolveBudget

\* "no directory is traversed twice through an alias": unless a resolve failed,
\* no physical directory is scanned a second time, and none that was scanned is
\* waiting to be, whatever cycles and aliases the repository holds.
ScannedOnce ==
  LET all == scans \o stack
  IN  unresolved = 0 =>
        \A i, j \in 1..Len(all) : all[i].dir = all[j].dir => i = j

\* In a listing of the tree, path p comes before path q: it is an ancestor of
\* q, or the two part at a smaller name.
Before(p, q) ==
  \/ Len(p) < Len(q) /\ \A i \in 1..Len(p) : p[i] = q[i]
  \/ \E i \in 1..Len(p) :
       /\ i <= Len(q) /\ p[i] < q[i]
       /\ \A j \in 1..(i - 1) : p[j] = q[j]

\* Determinism: directories are scanned in the one order of a sorted listing of
\* the tree, each path once, whatever order scandir returned the entries in.
ScanOrder ==
  \A j \in 1..Len(scans) : \A i \in 1..(j - 1) : Before(scans[i].path, scans[j].path)

Finished == items = {} /\ stack = <<>>

Scanned(d) == \E i \in 1..Len(scans) : scans[i].dir = d

\* Nothing is lost: at the end, every entry of every listed directory has been
\* yielded or has an lstat error; every yielded directory has been scanned under
\* some path; a place taken from the stack is listed or has a scandir error.
Complete ==
  Finished =>
    /\ \A pl \in listed : \A n \in Entries(pl.dir) :
         LET path == Append(pl.path, n)
         IN  /\ path \in yielded \/ Error("lstat", path) \in errors
             /\ path \in yielded /\ tree[pl.dir][n] \in Dir => Scanned(tree[pl.dir][n])
    /\ \A i \in 1..Len(scans) :
         scans[i] \in listed \/ Error("scandir", scans[i].path) \in errors

\* The walk ends, also on a repository whose directories form a cycle.
Termination == <>Finished
=============================================================================
