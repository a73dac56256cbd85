--------------------------- MODULE RepoWalkProofs ---------------------------
(***************************************************************************)
(* Theorems about RepoWalk, for every set of directories and names, every  *)
(* graph they form and every failure of scandir, lstat and resolve:        *)
(* TypeCorrect, NeverScannedTwice, ScannedInOrder and NothingLost.         *)
(***************************************************************************)
EXTENDS RepoWalk, SequenceTheorems, TLAPS

Distinct(s) == \A i, j \in 1..Len(s) : s[i].dir = s[j].dir => i = j

Noted(s) == \A i \in 1..Len(s) : s[i].dir \in seen

Apart(s, t) == \A i \in 1..Len(s), j \in 1..Len(t) : s[i].dir # t[j].dir

\* While every resolve has succeeded, the places scanned and waiting stand for
\* different directories, all of them in seen.
OnceInv ==
  /\ TypeOK
  /\ unresolved = 0 =>
       /\ Distinct(scans) /\ Distinct(stack) /\ Apart(scans, stack)
       /\ Noted(scans) /\ Noted(stack)
-----------------------------------------------------------------------------
\* What Pop does to the two sequences: the last place of the stack moves to the
\* end of scans.
LEMMA PopFacts ==
  ASSUME TypeOK, Pop
  PROVE  /\ here' \in PlaceType /\ here' = stack[Len(stack)]
         /\ stack' \in Seq(PlaceType) /\ Len(stack') = Len(stack) - 1
         /\ Len(stack) \in Nat \ {0}
         /\ \A i \in 1..Len(stack') : stack'[i] = stack[i]
         /\ scans' \in Seq(PlaceType) /\ Len(scans') = Len(scans) + 1
         /\ \A i \in 1..Len(scans) : scans'[i] = scans[i]
         /\ scans'[Len(scans) + 1] = here'
<1>1. Len(stack) \in Nat \ {0}
  BY DEF TypeOK, Pop
<1>2. here' = stack[Len(stack)] /\ here' \in PlaceType
  BY <1>1 DEF TypeOK, Pop
<1>3. /\ stack' \in Seq(PlaceType) /\ Len(stack') = Len(stack) - 1
      /\ \A i \in 1..Len(stack') : stack'[i] = stack[i]
  <2>1. \A i \in 1..(Len(stack) - 1) : stack[i] \in PlaceType
    BY <1>1, ElementOfSeq DEF TypeOK
  <2>2. stack' = SubSeq(stack, 1, Len(stack) - 1)
    BY DEF Pop
  <2> DEFINE n == Len(stack) - 1
  <2>3. n \in Nat /\ n \in Int /\ 1 \in Int /\ n - 1 + 1 = n
    BY <1>1
  <2> HIDE DEF n
  <2>4. \A i \in 1..n : stack[i] \in PlaceType
    BY <2>1 DEF n
  <2>5. /\ SubSeq(stack, 1, n) \in Seq(PlaceType)
        /\ Len(SubSeq(stack, 1, n)) = IF 1 <= n THEN n - 1 + 1 ELSE 0
        /\ \A i \in 1..(n - 1 + 1) : SubSeq(stack, 1, n)[i] = stack[1 + i - 1]
    BY <2>3, <2>4, SubSeqProperties
  <2>6. /\ stack' \in Seq(PlaceType) /\ Len(stack') = n
        /\ \A i \in 1..n : stack'[i] = stack[i]
    BY <2>2, <2>3, <2>5 DEF n
  <2> QED
    BY <2>6 DEF n
<1>4. /\ scans' \in Seq(PlaceType) /\ Len(scans') = Len(scans) + 1
      /\ \A i \in 1..Len(scans) : scans'[i] = scans[i]
      /\ scans'[Len(scans) + 1] = here'
  BY <1>2 DEF TypeOK, Pop
<1> QED
  BY <1>1, <1>2, <1>3, <1>4

\* The path of an entry of the directory in hand is a path.
LEMMA PathOfType ==
  ASSUME TypeOK, NEW n \in Name
  PROVE  PathOf(n) \in PathType
BY DEF TypeOK, PathOf, PathType, PlaceType

\* What Push does to the stack.
LEMMA PushFacts ==
  ASSUME TypeOK, NEW n \in Name, tree[here.dir][n] \in Dir, Push(n)
  PROVE  /\ stack' \in Seq(PlaceType) /\ Len(stack') = Len(stack) + 1
         /\ \A i \in 1..Len(stack) : stack'[i] = stack[i]
         /\ stack'[Len(stack) + 1].dir = tree[here.dir][n]
         /\ stack'[Len(stack) + 1].path = PathOf(n)
<1>1. Place(tree[here.dir][n], PathOf(n)) \in PlaceType
  BY PathOfType DEF Place, PlaceType
<1>2. /\ Place(tree[here.dir][n], PathOf(n)).dir = tree[here.dir][n]
      /\ Place(tree[here.dir][n], PathOf(n)).path = PathOf(n)
  BY DEF Place
<1> QED
  BY <1>1, <1>2 DEF TypeOK, Push
-----------------------------------------------------------------------------
LEMMA InitType == Init => TypeOK
<1> SUFFICES ASSUME Init PROVE TypeOK
  OBVIOUS
<1>1. Place(Root, <<>>) \in PlaceType
  BY DirAssumption DEF Place, PlaceType, PathType
<1>2. here \in PlaceType /\ stack \in Seq(PlaceType) /\ scans \in Seq(PlaceType)
  BY <1>1 DEF Init
<1> QED
  BY <1>2, DirAssumption, BudgetAssumption DEF Init, TypeOK

LEMMA ScanType == TypeOK /\ (Scan \/ ScanError) => TypeOK'
<1> SUFFICES ASSUME TypeOK, Scan \/ ScanError PROVE TypeOK'
  OBVIOUS
<1>0. Pop
  BY DEF Scan, ScanError
<1>1. /\ here' \in PlaceType /\ stack' \in Seq(PlaceType) /\ scans' \in Seq(PlaceType)
      /\ items = {}
  BY <1>0, PopFacts DEF Pop
<1>2. tree' = tree /\ seen' = seen /\ yielded' = yielded /\ unresolved' = unresolved
  BY DEF Scan, ScanError
<1>3. items' \subseteq Entries(here.dir)'
  BY <1>1, <1>2 DEF Scan, ScanError, Entries
<1>4. listed' \subseteq PlaceType
  BY <1>1 DEF TypeOK, Scan, ScanError
<1>5. errors' \subseteq [stage : Stages, path : PathType]
  BY <1>1 DEF TypeOK, Scan, ScanError, Error, Stages, PlaceType
<1> QED
  BY <1>1, <1>2, <1>3, <1>4, <1>5 DEF TypeOK

LEMMA VisitType == ASSUME TypeOK, NEW n \in Name, Visit(n) PROVE TypeOK'
<1>0. NextItem(n) /\ n \in items /\ PathOf(n) \in PathType
  BY PathOfType DEF Visit, LstatError, Yield, YieldLeaf, Descend, Alias, DescendUnresolved, NextItem
<1>1. /\ tree' = tree /\ here' = here /\ scans' = scans /\ listed' = listed
      /\ items' = items \ {n}
  BY DEF Visit, LstatError, Yield, YieldLeaf, Descend, Alias, DescendUnresolved
<1>2. items' \subseteq Entries(here.dir)'
  BY <1>1 DEF TypeOK, Entries
<1>3. yielded' \subseteq PathType
  BY <1>0 DEF TypeOK, Visit, LstatError, Yield, YieldLeaf, Descend, Alias, DescendUnresolved
<1>4. errors' \subseteq [stage : Stages, path : PathType]
  BY <1>0 DEF TypeOK, Visit, LstatError, Yield, YieldLeaf, Descend, Alias, DescendUnresolved,
              Error, Stages
<1>5. seen' \subseteq Dir
  BY DEF TypeOK, Visit, LstatError, Yield, YieldLeaf, Descend, Alias, DescendUnresolved
<1>6. unresolved' \in 0..ResolveBudget
  BY BudgetAssumption
  DEF TypeOK, Visit, LstatError, Yield, YieldLeaf, Descend, Alias, DescendUnresolved
<1>7. stack' \in Seq(PlaceType)
  <2>1. CASE Push(n) /\ tree[here.dir][n] \in Dir
    BY <2>1, PushFacts
  <2>2. CASE stack' = stack
    BY <2>2 DEF TypeOK
  <2> QED
    BY <2>1, <2>2 DEF Visit, LstatError, YieldLeaf, Descend, Alias, DescendUnresolved
<1> QED
  BY <1>1, <1>2, <1>3, <1>4, <1>5, <1>6, <1>7 DEF TypeOK

\* Every variable keeps its range.
THEOREM TypeCorrect == Spec => []TypeOK
<1>1. TypeOK /\ [Next]_vars => TypeOK'
  <2> SUFFICES ASSUME TypeOK, [Next]_vars PROVE TypeOK'
    OBVIOUS
  <2>1. CASE Scan \/ ScanError
    BY <2>1, ScanType
  <2>2. CASE \E n \in Name : Visit(n)
    BY <2>2, VisitType
  <2>3. CASE UNCHANGED vars
    BY <2>3 DEF TypeOK, vars, Entries
  <2> QED
    BY <2>1, <2>2, <2>3 DEF Next
<1> QED
  BY <1>1, InitType, PTL DEF Spec
-----------------------------------------------------------------------------
LEMMA InitOnce == Init => OnceInv
<1> SUFFICES ASSUME Init PROVE OnceInv
  OBVIOUS
<1>1. scans = <<>> /\ Len(scans) = 0
  BY DEF Init
<1>2. stack = <<Place(Root, <<>>)>> /\ Len(stack) = 1 /\ stack[1].dir = Root
  BY DEF Init, Place
<1>3. seen = {Root}
  BY DEF Init
<1> QED
  BY <1>1, <1>2, <1>3, InitType DEF OnceInv, Distinct, Apart, Noted

\* Taking a place from the stack moves it, and notes nothing.
LEMMA ScanOnce == OnceInv /\ (Scan \/ ScanError) => OnceInv'
<1> SUFFICES ASSUME OnceInv, Scan \/ ScanError PROVE OnceInv'
  OBVIOUS
<1>0. TypeOK /\ TypeOK' /\ Pop /\ seen' = seen /\ unresolved' = unresolved
  BY ScanType DEF OnceInv, Scan, ScanError
<1>1. /\ Len(stack) \in Nat \ {0} /\ Len(stack') = Len(stack) - 1
      /\ \A i \in 1..Len(stack') : stack'[i] = stack[i]
      /\ Len(scans') = Len(scans) + 1 /\ Len(scans) \in Nat
      /\ \A i \in 1..Len(scans) : scans'[i] = scans[i]
      /\ scans'[Len(scans) + 1] = stack[Len(stack)]
  BY <1>0, PopFacts DEF TypeOK
<1> SUFFICES ASSUME unresolved = 0
             PROVE  /\ Distinct(scans)' /\ Distinct(stack)' /\ Apart(scans, stack)'
                    /\ Noted(scans)' /\ Noted(stack)'
  BY <1>0 DEF OnceInv
<1>2. Distinct(scans) /\ Distinct(stack) /\ Apart(scans, stack) /\ Noted(scans) /\ Noted(stack)
  BY DEF OnceInv
<1>3. Distinct(scans)'
  <2> SUFFICES ASSUME NEW i \in 1..Len(scans'), NEW j \in 1..Len(scans'),
                      scans'[i].dir = scans'[j].dir
               PROVE  i = j
    BY DEF Distinct
  <2>1. CASE i \in 1..Len(scans) /\ j \in 1..Len(scans)
    BY <1>1, <1>2, <2>1 DEF Distinct
  <2>2. CASE i = Len(scans) + 1 /\ j \in 1..Len(scans)
    BY <1>1, <1>2, <2>2 DEF Apart
  <2>3. CASE i \in 1..Len(scans) /\ j = Len(scans) + 1
    BY <1>1, <1>2, <2>3 DEF Apart
  <2> QED
    BY <1>1, <2>1, <2>2, <2>3
<1>4. Distinct(stack)'
  BY <1>1, <1>2 DEF Distinct
<1>5. Apart(scans, stack)'
  <2> SUFFICES ASSUME NEW i \in 1..Len(scans'), NEW j \in 1..Len(stack')
               PROVE  scans'[i].dir # stack'[j].dir
    BY DEF Apart
  <2>1. CASE i \in 1..Len(scans)
    BY <1>1, <1>2, <2>1 DEF Apart
  <2>2. CASE i = Len(scans) + 1
    BY <1>1, <1>2, <2>2 DEF Distinct
  <2> QED
    BY <1>1, <2>1, <2>2
<1>6. Noted(scans)'
  BY <1>0, <1>1, <1>2 DEF Noted
<1>7. Noted(stack)'
  BY <1>0, <1>1, <1>2 DEF Noted
<1> QED
  BY <1>3, <1>4, <1>5, <1>6, <1>7

\* Only Descend pushes while no resolve has failed, and what it pushes was not
\* in seen.
LEMMA VisitOnce == ASSUME OnceInv, NEW n \in Name, Visit(n) PROVE OnceInv'
<1>0. TypeOK /\ TypeOK' /\ scans' = scans
  BY VisitType DEF OnceInv, Visit, LstatError, Yield, YieldLeaf, Descend, Alias, DescendUnresolved
<1> SUFFICES ASSUME unresolved' = 0
             PROVE  /\ Distinct(scans)' /\ Distinct(stack)' /\ Apart(scans, stack)'
                    /\ Noted(scans)' /\ Noted(stack)'
  BY <1>0 DEF OnceInv
<1>1. unresolved = 0 /\ ~DescendUnresolved(n)
  BY <1>0 DEF TypeOK, Visit, LstatError, Yield, YieldLeaf, Descend, Alias, DescendUnresolved
<1>2. Distinct(scans) /\ Distinct(stack) /\ Apart(scans, stack) /\ Noted(scans) /\ Noted(stack)
  BY <1>1 DEF OnceInv
<1>3. CASE stack' = stack /\ seen' = seen
  BY <1>0, <1>2, <1>3 DEF Distinct, Apart, Noted
<1>4. CASE Descend(n)
  <2> DEFINE d == tree[here.dir][n]
  <2>1. d \in Dir /\ d \notin seen /\ seen' = seen \cup {d} /\ Push(n)
    BY <1>4 DEF Descend
  <2>2. /\ Len(stack) \in Nat /\ Len(scans) \in Nat
        /\ Len(stack') = Len(stack) + 1
        /\ \A i \in 1..Len(stack) : stack'[i] = stack[i]
        /\ stack'[Len(stack) + 1].dir = d
    BY <1>0, <2>1, PushFacts DEF TypeOK
  <2> HIDE DEF d
  <2>3. Distinct(stack)'
    BY <1>2, <2>1, <2>2 DEF Distinct, Noted
  <2>4. Apart(scans, stack)'
    BY <1>0, <1>2, <2>1, <2>2 DEF Apart, Noted
  <2>5. Noted(stack)' /\ Noted(scans)' /\ Distinct(scans)'
    BY <1>0, <1>2, <2>1, <2>2 DEF Noted, Distinct
  <2> QED
    BY <2>3, <2>4, <2>5
<1> QED
  BY <1>1, <1>3, <1>4 DEF Visit, LstatError, YieldLeaf, Alias

\* Whatever cycles and aliases the directories form, and whatever scandir and
\* lstat calls fail: while resolve answers, no directory is scanned twice.
THEOREM NeverScannedTwice == Spec => []ScannedOnce
<1>1. OnceInv /\ [Next]_vars => OnceInv'
  <2> SUFFICES ASSUME OnceInv, [Next]_vars PROVE OnceInv'
    OBVIOUS
  <2>1. CASE Scan \/ ScanError
    BY <2>1, ScanOnce
  <2>2. CASE \E n \in Name : Visit(n)
    BY <2>2, VisitOnce
  <2>3. CASE UNCHANGED vars
    BY <2>3 DEF OnceInv, TypeOK, vars, Entries, Distinct, Apart, Noted
  <2> QED
    BY <2>1, <2>2, <2>3 DEF Next
<1>2. OnceInv => ScannedOnce
  <2> SUFFICES ASSUME OnceInv, unresolved = 0,
                      NEW i \in 1..Len(scans \o stack), NEW j \in 1..Len(scans \o stack),
                      (scans \o stack)[i].dir = (scans \o stack)[j].dir
               PROVE  i = j
    BY DEF ScannedOnce
  <2>1. /\ Len(scans) \in Nat /\ Len(stack) \in Nat
        /\ Len(scans \o stack) = Len(scans) + Len(stack)
        /\ \A k \in 1..Len(scans) : (scans \o stack)[k] = scans[k]
        /\ \A k \in (Len(scans) + 1)..(Len(scans) + Len(stack)) :
             (scans \o stack)[k] = stack[k - Len(scans)]
    BY DEF OnceInv, TypeOK
  <2>2. Distinct(scans) /\ Distinct(stack) /\ Apart(scans, stack)
    BY DEF OnceInv
  <2>3. CASE i <= Len(scans) /\ j <= Len(scans)
    BY <2>1, <2>2, <2>3 DEF Distinct
  <2>4. CASE i > Len(scans) /\ j > Len(scans)
    <3>1. i - Len(scans) \in 1..Len(stack) /\ j - Len(scans) \in 1..Len(stack)
      BY <2>1, <2>4
    <3>2. stack[i - Len(scans)].dir = stack[j - Len(scans)].dir
      BY <2>1, <2>4
    <3>3. i - Len(scans) = j - Len(scans)
      BY <2>2, <3>1, <3>2 DEF Distinct
    <3> QED
      BY <2>1, <3>3
  <2>5. CASE i <= Len(scans) /\ j > Len(scans)
    <3>1. j - Len(scans) \in 1..Len(stack) /\ i \in 1..Len(scans)
      BY <2>1, <2>5
    <3> QED
      BY <2>1, <2>2, <2>5, <3>1 DEF Apart
  <2>6. CASE i > Len(scans) /\ j <= Len(scans)
    <3>1. i - Len(scans) \in 1..Len(stack) /\ j \in 1..Len(scans)
      BY <2>1, <2>6
    <3> QED
      BY <2>1, <2>2, <2>6, <3>1 DEF Apart
  <2> QED
    BY <2>1, <2>3, <2>4, <2>5, <2>6
<1> QED
  BY <1>1, <1>2, InitOnce, PTL DEF Spec
-----------------------------------------------------------------------------
\* Two paths part at a smaller name of the first one.
Parts(p, q) ==
  \E i \in 1..Len(p) :
    /\ i <= Len(q) /\ p[i] < q[i]
    /\ \A j \in 1..(i - 1) : p[j] = q[j]

\* What is on the stack is behind the directory in hand, or in it and then behind
\* all its entries that have not been reached.
Waits(q) ==
  \/ Parts(here.path, q)
  \/ \E m \in Name : q = Append(here.path, m) /\ \A n \in items : n < m

\* The places on the stack stand in opposite order, none below another, all of
\* them behind those that were scanned.
OrderInv ==
  /\ TypeOK
  /\ ScanOrder
  /\ Len(scans) > 0 => here = scans[Len(scans)]
  /\ items # {} => Len(scans) > 0
  /\ \A i \in 1..Len(scans) : \A k \in 1..Len(stack) : Before(scans[i].path, stack[k].path)
  /\ \A k \in 1..Len(stack) : \A i \in 1..(k - 1) : Parts(stack[k].path, stack[i].path)
  /\ Len(scans) > 0 => \A k \in 1..Len(stack) : Waits(stack[k].path)

\* A directory has been scanned, or a place on the stack stands for it.
Reached(d) == Scanned(d) \/ \E k \in 1..Len(stack) : stack[k].dir = d

\* What Complete says at the end of an entry, for one that the loop has passed.
Settled(pl, n) ==
  LET path == Append(pl.path, n)
  IN  /\ path \in yielded \/ Error("lstat", path) \in errors
      /\ path \in yielded /\ tree[pl.dir][n] \in Dir => Reached(tree[pl.dir][n])

\* Every entry of a listed directory is in hand or settled; a path is yielded by one
\* place only, because no other place with it is ever scanned.
CompleteInv ==
  /\ OrderInv
  /\ \A pl \in listed : \E i \in 1..Len(scans) : scans[i] = pl
  /\ items # {} => here \in listed
  /\ \A d \in seen : Reached(d)
  /\ \A y \in yielded : \E pl \in listed, n \in Name : y = Append(pl.path, n)
  /\ \A n \in items : PathOf(n) \notin yielded
  /\ \A pl \in listed : \A n \in Entries(pl.dir) : (pl = here /\ n \in items) \/ Settled(pl, n)
  /\ \A i \in 1..Len(scans) :
       scans[i] \in listed \/ Error("scandir", scans[i].path) \in errors
-----------------------------------------------------------------------------
\* Paths: a step down keeps the order, two steps down from one place part.
LEMMA ChildFacts ==
  ASSUME NEW p \in PathType, NEW n \in Name
  PROVE  /\ Append(p, n) \in PathType /\ Len(p) \in Nat
         /\ Len(Append(p, n)) = Len(p) + 1
         /\ \A i \in 1..Len(p) : Append(p, n)[i] = p[i]
         /\ Append(p, n)[Len(p) + 1] = n
BY DEF PathType

LEMMA BeforeChild ==
  ASSUME NEW p \in PathType, NEW q \in PathType, NEW n \in Name, Before(p, q) \/ p = q
  PROVE  Before(p, Append(q, n))
<1>1. /\ Len(p) \in Nat /\ Len(q) \in Nat /\ Len(Append(q, n)) = Len(q) + 1
      /\ \A i \in 1..Len(q) : Append(q, n)[i] = q[i]
  BY ChildFacts
<1>2. CASE p = q
  BY <1>1, <1>2 DEF Before
<1>3. CASE Len(p) < Len(q) /\ \A i \in 1..Len(p) : p[i] = q[i]
  BY <1>1, <1>3 DEF Before
<1>4. ASSUME NEW i \in 1..Len(p), i <= Len(q), p[i] < q[i], \A j \in 1..(i - 1) : p[j] = q[j]
      PROVE  Before(p, Append(q, n))
  <2>1. /\ i <= Len(Append(q, n)) /\ p[i] < Append(q, n)[i]
        /\ \A j \in 1..(i - 1) : p[j] = Append(q, n)[j]
    BY <1>1, <1>4
  <2> QED
    BY <2>1 DEF Before
<1> QED
  BY <1>2, <1>3, <1>4 DEF Before

LEMMA PartsChild ==
  ASSUME NEW p \in PathType, NEW q \in PathType, NEW n \in Name, Parts(p, q)
  PROVE  Parts(Append(p, n), q)
<1>1. /\ Len(p) \in Nat /\ Len(Append(p, n)) = Len(p) + 1
      /\ \A i \in 1..Len(p) : Append(p, n)[i] = p[i]
  BY ChildFacts
<1>2. PICK i \in 1..Len(p) :
        i <= Len(q) /\ p[i] < q[i] /\ \A j \in 1..(i - 1) : p[j] = q[j]
  BY DEF Parts
<1>3. /\ i \in 1..Len(Append(p, n)) /\ i <= Len(q) /\ Append(p, n)[i] < q[i]
      /\ \A j \in 1..(i - 1) : Append(p, n)[j] = q[j]
  BY <1>1, <1>2
<1> QED
  BY <1>3 DEF Parts

LEMMA SiblingsPart ==
  ASSUME NEW p \in PathType, NEW m \in Name, NEW n \in Name, m < n
  PROVE  Parts(Append(p, m), Append(p, n))
<1>1. Len(p) + 1 \in 1..Len(Append(p, m)) /\ Len(p) + 1 <= Len(Append(p, n))
  BY ChildFacts
<1>2. /\ Append(p, m)[Len(p) + 1] < Append(p, n)[Len(p) + 1]
      /\ \A j \in 1..((Len(p) + 1) - 1) : Append(p, m)[j] = Append(p, n)[j]
  BY ChildFacts
<1> QED
  BY <1>1, <1>2 DEF Parts

LEMMA PartsBefore ==
  ASSUME NEW p, NEW q, Parts(p, q)
  PROVE  Before(p, q)
BY DEF Parts, Before

LEMMA BeforeDiffers ==
  ASSUME NEW p \in PathType, NEW q \in PathType, Before(p, q)
  PROVE  p # q
<1> SUFFICES ASSUME p = q PROVE FALSE
  OBVIOUS
<1>1. p \in Seq(Name) /\ Len(p) \in Nat
  BY DEF PathType
<1>2. \A i \in 1..Len(p) : p[i] \in Int
  BY <1>1, ElementOfSeq, NameAssumption
<1> QED
  BY <1>1, <1>2 DEF Before

LEMMA SameChild ==
  ASSUME NEW p \in PathType, NEW q \in PathType, NEW m \in Name, NEW n \in Name,
         Append(p, m) = Append(q, n)
  PROVE  p = q /\ m = n
<1> DEFINE r == Append(q, n)
<1>0. /\ Len(p) \in Nat /\ Len(r) = Len(p) + 1
      /\ \A i \in 1..Len(p) : r[i] = p[i]
      /\ r[Len(p) + 1] = m
  <2>1. /\ Len(p) \in Nat /\ Len(Append(p, m)) = Len(p) + 1
        /\ \A i \in 1..Len(p) : Append(p, m)[i] = p[i]
        /\ Append(p, m)[Len(p) + 1] = m
    BY ChildFacts
  <2>2. r = Append(p, m)
    OBVIOUS
  <2> HIDE DEF r
  <2> QED
    BY <2>1, <2>2
<1>1. /\ Len(q) \in Nat /\ Len(r) = Len(q) + 1
      /\ \A i \in 1..Len(q) : r[i] = q[i]
      /\ r[Len(q) + 1] = n
  BY ChildFacts
<1> HIDE DEF r
<1>2. Len(p) = Len(q) /\ \A i \in 1..Len(p) : p[i] = q[i]
  BY <1>0, <1>1
<1>3. m = n
  BY <1>0, <1>1
<1>4. p \in Seq(Name) /\ q \in Seq(Name)
  BY DEF PathType
<1> QED
  BY <1>2, <1>3, <1>4, SeqEqual
-----------------------------------------------------------------------------
LEMMA InitOrder == Init => OrderInv
<1> SUFFICES ASSUME Init PROVE OrderInv
  OBVIOUS
<1>1. scans = <<>> /\ Len(scans) = 0 /\ items = {}
  BY DEF Init
<1>2. Len(stack) = 1
  BY DEF Init
<1> QED
  BY <1>1, <1>2, InitType DEF OrderInv, ScanOrder

\* The place taken from the stack is behind all that were scanned, and before
\* all that stay.
LEMMA ScanKeepsOrder == OrderInv /\ (Scan \/ ScanError) => OrderInv'
<1> SUFFICES ASSUME OrderInv, Scan \/ ScanError PROVE OrderInv'
  OBVIOUS
<1>0. TypeOK /\ TypeOK' /\ Pop
  BY ScanType DEF OrderInv, Scan, ScanError
<1>1. /\ Len(stack) \in Nat \ {0} /\ Len(stack') = Len(stack) - 1
      /\ \A i \in 1..Len(stack') : stack'[i] = stack[i]
      /\ Len(scans') = Len(scans) + 1 /\ Len(scans) \in Nat
      /\ \A i \in 1..Len(scans) : scans'[i] = scans[i]
      /\ scans'[Len(scans) + 1] = here' /\ here' = stack[Len(stack)]
  BY <1>0, PopFacts DEF TypeOK
<1>2. \A k \in 1..Len(stack') : Parts(here'.path, stack'[k].path)
  BY <1>1 DEF OrderInv
<1>3. ScanOrder'
  <2> SUFFICES ASSUME NEW j \in 1..Len(scans'), NEW i \in 1..(j - 1)
               PROVE  Before(scans'[i].path, scans'[j].path)
    BY DEF ScanOrder, Before
  <2>1. CASE j \in 1..Len(scans)
    BY <1>1, <2>1 DEF OrderInv, ScanOrder
  <2>2. CASE j = Len(scans) + 1
    BY <1>1, <2>2 DEF OrderInv
  <2> QED
    BY <1>1, <2>1, <2>2
<1>4. ASSUME NEW i \in 1..Len(scans'), NEW k \in 1..Len(stack')
      PROVE  Before(scans'[i].path, stack'[k].path)
  <2>1. CASE i \in 1..Len(scans)
    BY <1>1, <2>1 DEF OrderInv
  <2>2. CASE i = Len(scans) + 1
    BY <1>1, <1>2, <2>2, PartsBefore
  <2> QED
    BY <1>1, <2>1, <2>2
<1>5. \A k \in 1..Len(stack') : \A i \in 1..(k - 1) : Parts(stack'[k].path, stack'[i].path)
  BY <1>1 DEF OrderInv
<1>6. \A k \in 1..Len(stack') : Waits(stack[k].path)'
  BY <1>2 DEF Waits, Parts
<1>7. here' = scans'[Len(scans')] /\ Len(scans') > 0
  BY <1>1
<1> QED
  BY <1>0, <1>3, <1>4, <1>5, <1>6, <1>7 DEF OrderInv, Before, Parts

\* The entry taken has the greatest name of those in hand: what has been pushed of this
\* directory has a greater one.
LEMMA VisitKeepsOrder == ASSUME OrderInv, NEW n \in Name, Visit(n) PROVE OrderInv'
<1>0. TypeOK /\ TypeOK' /\ n \in items /\ Len(scans) > 0
  BY VisitType
  DEF OrderInv, Visit, LstatError, Yield, YieldLeaf, Descend, Alias, DescendUnresolved, NextItem
<1>1. /\ here' = here /\ scans' = scans /\ items' = items \ {n}
      /\ \A m \in items : m <= n
  BY DEF Visit, LstatError, Yield, YieldLeaf, Descend, Alias, DescendUnresolved, NextItem
<1>2. here.path \in PathType /\ items \subseteq Name /\ Name \subseteq Int
  BY <1>0, NameAssumption DEF TypeOK, PlaceType, Entries
<1>3. ASSUME NEW k \in 1..Len(stack), stack'[k] = stack[k]
      PROVE  Waits(stack[k].path)'
  <2>1. Waits(stack[k].path)
    BY <1>0 DEF OrderInv
  <2> QED
    BY <1>1, <1>3, <2>1 DEF Waits, Parts
<1>4. ScanOrder'
  BY <1>1 DEF OrderInv, ScanOrder, Before
<1>5. CASE stack' = stack
  <2>1. \A k \in 1..Len(stack') : Waits(stack[k].path)'
    BY <1>3, <1>5
  <2>2. /\ \A i \in 1..Len(scans') : \A k \in 1..Len(stack') : Before(scans'[i].path, stack'[k].path)
        /\ \A k \in 1..Len(stack') : \A i \in 1..(k - 1) : Parts(stack'[k].path, stack'[i].path)
    BY <1>1, <1>5 DEF OrderInv
  <2> QED
    BY <1>0, <1>1, <1>4, <2>1, <2>2 DEF OrderInv, Before, Parts
<1>6. CASE Push(n) /\ tree[here.dir][n] \in Dir
  <2> DEFINE q == PathOf(n)
  <2>1. /\ Len(stack) \in Nat /\ Len(stack') = Len(stack) + 1
        /\ \A i \in 1..Len(stack) : stack'[i] = stack[i]
        /\ stack'[Len(stack) + 1].path = q
    BY <1>0, <1>6, PushFacts DEF TypeOK
  <2>0. \A i \in 1..Len(stack) : stack[i].path \in PathType
    <3> TAKE i \in 1..Len(stack)
    <3>1. stack[i] \in PlaceType
      BY <1>0, ElementOfSeq DEF TypeOK
    <3> QED
      BY <3>1 DEF PlaceType
  <2>2. q = Append(here.path, n)
    BY DEF PathOf
  <2> HIDE DEF q
  <2>3. ASSUME NEW i \in 1..Len(stack) PROVE Parts(q, stack[i].path)
    <3>1. Waits(stack[i].path)
      BY <1>0 DEF OrderInv
    <3>2. CASE Parts(here.path, stack[i].path)
      BY <1>2, <2>0, <2>2, <3>2, PartsChild
    <3>3. ASSUME NEW m \in Name, stack[i].path = Append(here.path, m), \A k \in items : k < m
          PROVE  Parts(q, stack[i].path)
      BY <1>0, <1>2, <2>2, <3>3, SiblingsPart
    <3> QED
      BY <3>1, <3>2, <3>3 DEF Waits
  <2>4. ASSUME NEW i \in 1..Len(scans) PROVE Before(scans[i].path, q)
    <3>0. scans[i] \in PlaceType
      BY <1>0, ElementOfSeq DEF TypeOK
    <3>1. scans[i].path \in PathType /\ here = scans[Len(scans)] /\ Len(scans) \in Nat
      BY <1>0, <3>0 DEF OrderInv, TypeOK, PlaceType
    <3>2. Before(scans[i].path, here.path) \/ scans[i].path = here.path
      BY <3>1 DEF OrderInv, ScanOrder
    <3> QED
      BY <1>2, <2>2, <3>1, <3>2, BeforeChild
  <2>5. q = Append(here'.path, n) /\ \A m \in items' : m < n
    BY <1>0, <1>1, <1>2, <2>2
  <2>6. ASSUME NEW i \in 1..Len(scans), NEW k \in 1..Len(stack')
        PROVE  Before(scans[i].path, stack'[k].path)
    <3>1. CASE k \in 1..Len(stack)
      BY <2>1, <3>1 DEF OrderInv
    <3>2. CASE k = Len(stack) + 1
      BY <2>1, <2>4, <3>2
    <3> QED
      BY <2>1, <3>1, <3>2
  <2>7. ASSUME NEW k \in 1..Len(stack'), NEW i \in 1..(k - 1)
        PROVE  Parts(stack'[k].path, stack'[i].path)
    <3>1. CASE k \in 1..Len(stack)
      BY <2>1, <3>1 DEF OrderInv
    <3>2. CASE k = Len(stack) + 1
      BY <2>1, <2>3, <3>2
    <3> QED
      BY <2>1, <3>1, <3>2
  <2>8. ASSUME NEW k \in 1..Len(stack') PROVE Waits(stack[k].path)'
    <3>1. CASE k \in 1..Len(stack)
      BY <1>3, <2>1, <3>1
    <3>2. CASE k = Len(stack) + 1
      BY <2>1, <2>5, <3>2 DEF Waits
    <3> QED
      BY <2>1, <3>1, <3>2
  <2> QED
    BY <1>0, <1>1, <1>4, <2>6, <2>7, <2>8 DEF OrderInv, Before, Parts
<1> QED
  BY <1>5, <1>6 DEF Visit, LstatError, YieldLeaf, Descend, Alias, DescendUnresolved

LEMMA OrderStutters == OrderInv /\ UNCHANGED vars => OrderInv'
<1> SUFFICES ASSUME OrderInv, UNCHANGED vars PROVE OrderInv'
  OBVIOUS
<1>1. UNCHANGED <<stack, scans, here, items>>
  BY DEF vars
<1>2. TypeOK' /\ ScanOrder'
  BY DEF OrderInv, TypeOK, vars, Entries, ScanOrder, Before
<1>3. Len(scans) > 0 => \A k \in 1..Len(stack) : Waits(stack[k].path)'
  BY <1>1 DEF OrderInv, Waits, Parts
<1> QED
  BY <1>1, <1>2, <1>3 DEF OrderInv, Before, Parts

LEMMA OrderInvariant == Spec => []OrderInv
<1>1. OrderInv /\ [Next]_vars => OrderInv'
  <2> SUFFICES ASSUME OrderInv, [Next]_vars PROVE OrderInv'
    OBVIOUS
  <2>1. CASE Scan \/ ScanError
    BY <2>1, ScanKeepsOrder
  <2>2. CASE \E n \in Name : Visit(n)
    BY <2>2, VisitKeepsOrder
  <2>3. CASE UNCHANGED vars
    BY <2>3, OrderStutters
  <2> QED
    BY <2>1, <2>2, <2>3 DEF Next
<1> QED
  BY <1>1, InitOrder, PTL DEF Spec

\* On every graph, whatever calls fail, resolve among them: the directories are
\* scanned in the order of a sorted listing, each path once.
THEOREM ScannedInOrder == Spec => []ScanOrder
<1>1. OrderInv => ScanOrder
  BY DEF OrderInv
<1> QED
  BY <1>1, OrderInvariant, PTL
-----------------------------------------------------------------------------
\* No step takes a directory back that was scanned or is waiting.
LEMMA PopReached == ASSUME TypeOK, Pop, NEW d, Reached(d) PROVE Reached(d)'
<1>1. /\ Len(stack) \in Nat \ {0} /\ Len(stack') = Len(stack) - 1
      /\ \A i \in 1..Len(stack') : stack'[i] = stack[i]
      /\ Len(scans') = Len(scans) + 1 /\ Len(scans) \in Nat
      /\ \A i \in 1..Len(scans) : scans'[i] = scans[i]
      /\ scans'[Len(scans) + 1] = stack[Len(stack)]
  BY PopFacts DEF TypeOK
<1>2. CASE Scanned(d)
  BY <1>1, <1>2 DEF Reached, Scanned
<1>3. ASSUME NEW k \in 1..Len(stack), stack[k].dir = d PROVE Reached(d)'
  <2>1. CASE k = Len(stack)
    BY <1>1, <1>3, <2>1 DEF Reached, Scanned
  <2>2. CASE k < Len(stack)
    <3>1. k \in 1..Len(stack') /\ stack'[k].dir = d
      BY <1>1, <1>3, <2>2
    <3> QED
      BY <3>1 DEF Reached
  <2> QED
    BY <1>1, <2>1, <2>2
<1> QED
  BY <1>2, <1>3 DEF Reached

LEMMA VisitReached ==
  ASSUME TypeOK, NEW n \in Name, Visit(n)
  PROVE  /\ \A d : Reached(d) => Reached(d)'
         /\ Push(n) /\ tree[here.dir][n] \in Dir => Reached(tree[here.dir][n])'
<1>1. scans' = scans
  BY DEF Visit, LstatError, Yield, YieldLeaf, Descend, Alias, DescendUnresolved
<1>2. CASE stack' = stack /\ ~(Push(n) /\ tree[here.dir][n] \in Dir)
  BY <1>1, <1>2 DEF Reached, Scanned
<1>3. CASE Push(n) /\ tree[here.dir][n] \in Dir
  <2>1. /\ Len(stack) \in Nat /\ Len(stack') = Len(stack) + 1
        /\ \A i \in 1..Len(stack) : stack'[i] = stack[i]
        /\ stack'[Len(stack) + 1].dir = tree[here.dir][n]
    BY <1>3, PushFacts DEF TypeOK
  <2>2. \A i \in 1..Len(stack) : i \in 1..Len(stack')
    BY <2>1
  <2>3. Len(stack) + 1 \in 1..Len(stack')
    BY <2>1
  <2>4. \A d : Reached(d) => Reached(d)'
    BY <1>1, <2>1, <2>2 DEF Reached, Scanned
  <2>5. \E k \in 1..Len(stack') : stack'[k].dir = tree[here.dir][n]
    BY <2>1, <2>3
  <2>6. tree' = tree /\ here' = here
    BY DEF Visit, LstatError, Yield, YieldLeaf, Descend, Alias, DescendUnresolved
  <2> QED
    BY <2>4, <2>5, <2>6 DEF Reached
<1> QED
  BY <1>2, <1>3 DEF Visit, LstatError, YieldLeaf, Descend, Alias, DescendUnresolved
-----------------------------------------------------------------------------
LEMMA InitComplete == Init => CompleteInv
<1> SUFFICES ASSUME Init PROVE CompleteInv
  OBVIOUS
<1>1. /\ scans = <<>> /\ Len(scans) = 0 /\ listed = {} /\ yielded = {} /\ items = {}
      /\ seen = {Root}
  BY DEF Init
<1>2. Len(stack) = 1 /\ stack[1].dir = Root
  BY DEF Init, Place
<1>3. Reached(Root)
  BY <1>2 DEF Reached
<1> QED
  BY <1>1, <1>3, InitOrder DEF CompleteInv

\* The place taken from the stack has a path that no place had before, so that nothing
\* below it has been yielded.
LEMMA ScanKeepsComplete == CompleteInv /\ (Scan \/ ScanError) => CompleteInv'
<1> SUFFICES ASSUME CompleteInv, Scan \/ ScanError PROVE CompleteInv'
  OBVIOUS
<1>0. OrderInv /\ OrderInv' /\ TypeOK /\ Pop /\ items = {}
  BY ScanKeepsOrder DEF CompleteInv, OrderInv, Scan, ScanError, Pop
<1>1. /\ Len(stack) \in Nat \ {0}
      /\ Len(scans') = Len(scans) + 1 /\ Len(scans) \in Nat
      /\ \A i \in 1..Len(scans) : scans'[i] = scans[i]
      /\ scans'[Len(scans) + 1] = here' /\ here' = stack[Len(stack)] /\ here' \in PlaceType
  BY <1>0, PopFacts DEF TypeOK
<1>2. /\ tree' = tree /\ seen' = seen /\ yielded' = yielded
      /\ listed \subseteq listed' /\ listed' \subseteq listed \cup {here'}
      /\ errors \subseteq errors' /\ items' \subseteq Name
      /\ here' \in listed' => items' = Entries(here'.dir)
      /\ here' \in listed' \/ Error("scandir", here'.path) \in errors'
      /\ items' # {} => here' \in listed'
  <2>1. here' \notin listed
    <3> SUFFICES ASSUME NEW i \in 1..Len(scans), scans[i] = here' PROVE FALSE
      BY DEF CompleteInv
    <3>1. Before(here'.path, here'.path)
      BY <1>0, <1>1 DEF OrderInv
    <3> QED
      BY <1>1, <3>1, BeforeDiffers DEF PlaceType
  <2> QED
    BY <1>0, <2>1 DEF Scan, ScanError, Entries
<1>3. \A d : Reached(d) => Reached(d)'
  BY <1>0, PopReached
<1>4. ASSUME NEW pl \in listed PROVE pl \in PlaceType /\ pl.path # here'.path
  <2>1. PICK i \in 1..Len(scans) : scans[i] = pl
    BY DEF CompleteInv
  <2>2. Before(pl.path, here'.path)
    BY <1>0, <1>1, <2>1 DEF OrderInv
  <2>3. pl \in PlaceType
    BY <1>0 DEF TypeOK
  <2> QED
    BY <1>1, <2>2, <2>3, BeforeDiffers DEF PlaceType
<1>5. \A pl \in listed' : \E i \in 1..Len(scans') : scans'[i] = pl
  <2> TAKE pl \in listed'
  <2>1. CASE pl = here'
    BY <1>1, <2>1
  <2>2. CASE pl \in listed
    <3>1. PICK i \in 1..Len(scans) : scans[i] = pl
      BY <2>2 DEF CompleteInv
    <3> QED
      BY <1>1, <3>1
  <2> QED
    BY <1>2, <2>1, <2>2
<1>6. \A d \in seen' : Reached(d)'
  BY <1>2, <1>3 DEF CompleteInv
<1>7. \A y \in yielded' : \E pl \in listed', n \in Name : y = Append(pl.path, n)
  BY <1>2 DEF CompleteInv
<1>8. \A n \in items' : PathOf(n)' \notin yielded'
  <2> SUFFICES ASSUME NEW n \in items', Append(here'.path, n) \in yielded PROVE FALSE
    BY <1>2 DEF PathOf
  <2>1. PICK pl \in listed, m \in Name : Append(here'.path, n) = Append(pl.path, m)
    BY DEF CompleteInv
  <2>2. here'.path \in PathType /\ pl.path \in PathType /\ n \in Name
    BY <1>1, <1>2, <1>4 DEF PlaceType
  <2>3. here'.path = pl.path
    BY <2>1, <2>2, SameChild
  <2> QED
    BY <1>4, <2>3
<1>9. \A pl \in listed' : \A n \in Entries(pl.dir)' :
        (pl = here' /\ n \in items') \/ Settled(pl, n)'
  <2> TAKE pl \in listed'
  <2> TAKE n \in Entries(pl.dir)'
  <2>1. CASE pl = here'
    BY <1>2, <2>1 DEF Entries
  <2>2. CASE pl \in listed
    <3>1. n \in Entries(pl.dir)
      BY <1>2 DEF Entries
    <3>2. Settled(pl, n)
      BY <1>0, <2>2, <3>1 DEF CompleteInv
    <3> QED
      BY <1>2, <1>3, <3>2 DEF Settled
  <2> QED
    BY <1>2, <2>1, <2>2
<1>10. \A i \in 1..Len(scans') :
         scans'[i] \in listed' \/ Error("scandir", scans'[i].path) \in errors'
  <2> TAKE i \in 1..Len(scans')
  <2>1. CASE i \in 1..Len(scans)
    BY <1>1, <1>2, <2>1 DEF CompleteInv
  <2>2. CASE i = Len(scans) + 1
    BY <1>1, <1>2, <2>2
  <2> QED
    BY <1>1, <2>1, <2>2
<1> QED
  BY <1>0, <1>2, <1>5, <1>6, <1>7, <1>8, <1>9, <1>10 DEF CompleteInv, Error

\* The entry taken is settled, and no other entry had its path.
LEMMA VisitKeepsComplete == ASSUME CompleteInv, NEW n \in Name, Visit(n) PROVE CompleteInv'
<1>0. OrderInv /\ OrderInv' /\ TypeOK /\ n \in items /\ here \in listed
  BY VisitKeepsOrder
  DEF CompleteInv, OrderInv,
      Visit, LstatError, Yield, YieldLeaf, Descend, Alias, DescendUnresolved, NextItem
<1>1. /\ tree' = tree /\ here' = here /\ scans' = scans /\ listed' = listed
      /\ items' = items \ {n} /\ errors \subseteq errors'
      /\ yielded \subseteq yielded' /\ yielded' \subseteq yielded \cup {PathOf(n)}
      /\ seen' \subseteq seen \cup {tree[here.dir][n]}
      /\ seen' # seen => Push(n) /\ tree[here.dir][n] \in Dir
  BY DEF Visit, LstatError, Yield, YieldLeaf, Descend, Alias, DescendUnresolved
<1>2. /\ \A d : Reached(d) => Reached(d)'
      /\ Push(n) /\ tree[here.dir][n] \in Dir => Reached(tree[here.dir][n])'
  BY <1>0, VisitReached
<1>3. here \in PlaceType /\ here.path \in PathType /\ items \subseteq Name
  BY <1>0 DEF TypeOK, PlaceType, Entries
<1>4. \A d \in seen' : Reached(d)'
  BY <1>1, <1>2 DEF CompleteInv
<1>5. \A y \in yielded' : \E pl \in listed', m \in Name : y = Append(pl.path, m)
  BY <1>0, <1>1 DEF CompleteInv, PathOf
<1>6. \A m \in items' : PathOf(m)' \notin yielded'
  <2> TAKE m \in items'
  <2>1. PathOf(m)' = PathOf(m) /\ PathOf(m) \notin yielded /\ m \in Name /\ m # n
    BY <1>1, <1>3 DEF PathOf, CompleteInv
  <2>2. PathOf(m) # PathOf(n)
    BY <1>3, <2>1, SameChild DEF PathOf
  <2> QED
    BY <1>1, <2>1, <2>2
<1>7. Settled(here, n)'
  <2> DEFINE path == Append(here.path, n)
             entry == tree[here.dir][n]
  <2>1. path = PathOf(n) /\ path \notin yielded
    BY <1>0 DEF PathOf, CompleteInv
  <2>2. CASE LstatError(n)
    BY <2>1, <2>2 DEF LstatError, Settled
  <2>3. CASE YieldLeaf(n) \/ Descend(n) \/ Alias(n) \/ DescendUnresolved(n)
    <3>1. path \in yielded'
      BY <2>1, <2>3 DEF Yield, YieldLeaf, Descend, Alias, DescendUnresolved
    <3>2. entry \in Dir => Reached(entry)'
      <4>1. CASE YieldLeaf(n)
        BY <4>1 DEF YieldLeaf
      <4>2. CASE Descend(n) \/ DescendUnresolved(n)
        BY <1>2, <4>2 DEF Descend, DescendUnresolved
      <4>3. CASE Alias(n)
        <5>1. Reached(entry) /\ entry' = entry
          BY <1>1, <4>3 DEF Alias, CompleteInv
        <5> HIDE DEF entry
        <5> QED
          BY <1>2, <5>1 DEF Reached, Scanned
      <4> QED
        BY <2>3, <4>1, <4>2, <4>3
    <3> QED
      BY <1>1, <3>1, <3>2 DEF Settled
  <2> QED
    BY <2>2, <2>3 DEF Visit
<1>8. \A pl \in listed' : \A m \in Entries(pl.dir)' :
        (pl = here' /\ m \in items') \/ Settled(pl, m)'
  <2> TAKE pl \in listed'
  <2> TAKE m \in Entries(pl.dir)'
  <2>0. pl \in listed /\ m \in Entries(pl.dir) /\ m \in Name /\ pl \in PlaceType /\ pl.path \in PathType
    BY <1>0, <1>1 DEF Entries, TypeOK, PlaceType
  <2>1. CASE pl = here /\ m \in items
    BY <1>1, <1>7, <2>1
  <2>2. CASE Settled(pl, m) /\ Append(pl.path, m) # PathOf(n)
    BY <1>1, <1>2, <2>2 DEF Settled
  <2>3. CASE Append(pl.path, m) = PathOf(n)
    <3>1. pl.path = here.path /\ m = n
      BY <1>3, <2>0, <2>3, SameChild DEF PathOf
    <3>2. PICK i \in 1..Len(scans) : scans[i] = pl
      BY <2>0 DEF CompleteInv
    <3>3. Len(scans) \in Nat /\ here = scans[Len(scans)]
      BY <1>0, <3>2 DEF OrderInv, TypeOK
    <3>4. ~Before(pl.path, here.path)
      BY <1>3, <2>0, <3>1, BeforeDiffers
    <3>5. i = Len(scans)
      <4>1. \A j \in 1..Len(scans) : \A k \in 1..(j - 1) : Before(scans[k].path, scans[j].path)
        BY <1>0 DEF OrderInv, ScanOrder
      <4>2. i \in 1..(Len(scans) - 1) => Before(scans[i].path, scans[Len(scans)].path)
        BY <3>3, <4>1
      <4>3. i # Len(scans) => Before(pl.path, here.path)
        BY <3>2, <3>3, <4>2
      <4> QED
        BY <3>4, <4>3
    <3> QED
      BY <1>1, <1>7, <3>1, <3>2, <3>3, <3>5 DEF Settled
  <2> QED
    BY <2>0, <2>1, <2>2, <2>3 DEF CompleteInv
<1>9. \A i \in 1..Len(scans') :
         scans'[i] \in listed' \/ Error("scandir", scans'[i].path) \in errors'
  BY <1>1 DEF CompleteInv
<1>10. \A pl \in listed' : \E i \in 1..Len(scans') : scans'[i] = pl
  BY <1>1 DEF CompleteInv
<1> QED
  BY <1>0, <1>1, <1>4, <1>5, <1>6, <1>8, <1>9, <1>10 DEF CompleteInv, Error

LEMMA CompleteInvariant == Spec => []CompleteInv
<1>1. CompleteInv /\ [Next]_vars => CompleteInv'
  <2> SUFFICES ASSUME CompleteInv, [Next]_vars PROVE CompleteInv'
    OBVIOUS
  <2>1. CASE Scan \/ ScanError
    BY <2>1, ScanKeepsComplete
  <2>2. CASE \E n \in Name : Visit(n)
    BY <2>2, VisitKeepsComplete
  <2>3. CASE UNCHANGED vars
    <3>1. UNCHANGED <<tree, stack, seen, here, items, errors, yielded, scans, listed>>
      BY <2>3 DEF vars
    <3>2. OrderInv'
      BY <2>3, OrderStutters DEF CompleteInv
    <3>3. \A d : Reached(d) => Reached(d)'
      BY <3>1 DEF Reached, Scanned
    <3>4. \A pl \in listed' : \A n \in Entries(pl.dir)' :
            (pl = here' /\ n \in items') \/ Settled(pl, n)'
      BY <3>1, <3>3 DEF CompleteInv, Settled, Entries
    <3>5. \A d \in seen' : Reached(d)'
      BY <3>1, <3>3 DEF CompleteInv
    <3> QED
      BY <3>1, <3>2, <3>4, <3>5 DEF CompleteInv, PathOf, Error
  <2> QED
    BY <2>1, <2>2, <2>3 DEF Next
<1> QED
  BY <1>1, InitComplete, PTL DEF Spec

\* On every graph, whatever calls fail: at the end every entry of a listed directory
\* is yielded or has an error, and every yielded directory has been scanned.
THEOREM NothingLost == Spec => []Complete
<1>1. CompleteInv => Complete
  <2> SUFFICES ASSUME CompleteInv, Finished PROVE Complete
    BY DEF Complete
  <2>1. \A d : Reached(d) => Scanned(d)
    BY DEF Finished, Reached
  <2>2. \A pl \in listed : \A n \in Entries(pl.dir) : Settled(pl, n)
    BY DEF CompleteInv, Finished
  <2>3. \A i \in 1..Len(scans) :
          scans[i] \in listed \/ Error("scandir", scans[i].path) \in errors
    BY DEF CompleteInv
  <2> QED
    BY <2>1, <2>2, <2>3 DEF Complete, Settled
<1> QED
  BY <1>1, CompleteInvariant, PTL
=============================================================================
