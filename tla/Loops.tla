------------------------------- MODULE Loops -------------------------------
(***************************************************************************)
(* What a loop of the code does, turn by turn: a FoldLeft over a sequence  *)
(* of any length. The induction theorems of the library take the operator  *)
(* of a step as a parameter of the theorem; here it is a constant of the   *)
(* module, to which an INSTANCE of it gives a value, and the induction     *)
(* comes from the order of finite sets, which has no infinite descent. A   *)
(* loop has an instance of its own: X == INSTANCE Loops WITH Op <- its     *)
(* turn; X!Start, X!Turn and X!Finish say what it has before, during and   *)
(* after, and X!UpTo leads from one turn to all.                           *)
(***************************************************************************)
EXTENDS SequencesExt, FiniteSetTheorems, TLAPS

CONSTANT Op(_, _, _)   \* a turn: what surrounds the loop, what it has so far, the element

\* FoldLeft, with its definition written out.
Run(c, base, seq) ==
  LET iter[s \in SUBSET DOMAIN seq] ==
        IF s = {} THEN base ELSE LET x == Max(s) IN Op(c, iter[s \ {x}], seq[x])
  IN iter[DOMAIN seq]
-----------------------------------------------------------------------------
(* Induction                                                                *)

\* A set of naturals that is not empty has a least element.
LEMMA Least ==
  ASSUME NEW T \in SUBSET Nat, T # {}
  PROVE  \E x \in T : \A y \in T : x <= y
<1> DEFINE Below(x) == 0..(x - 1)
           U == {Below(x) : x \in T}
<1>1. \A x \in Nat : Below(x) \in FiniteSubsetsOf(Nat)
  <2> TAKE x \in Nat
  <2>1. IsFiniteSet(0..(x - 1))
    BY FS_Interval
  <2> QED
    BY <2>1 DEF FiniteSubsetsOf
<1>2. U \subseteq FiniteSubsetsOf(Nat) /\ U # {}
  BY <1>1
<1>3. PICK u \in U : \A v \in U : ~(<<v, u>> \in StrictSubsetOrdering(Nat))
  <2> HIDE DEF U
  <2> QED
    BY <1>2, FS_StrictSubsetOrderingWellFounded, WFMin
<1>4. PICK x \in T : u = Below(x)
  BY <1>3
<1>5. \A y \in T : ~(y < x)
  <2> SUFFICES ASSUME NEW y \in T, y < x PROVE FALSE
    OBVIOUS
  <2>1. Below(y) \subseteq Below(x) /\ Below(y) # Below(x)
    <3>1. y \in Below(x) /\ y \notin Below(y)
      OBVIOUS
    <3> QED
      BY <3>1
  <2>2. <<Below(y), Below(x)>> \in StrictSubsetOrdering(Nat)
    BY <2>1 DEF StrictSubsetOrdering
  <2> QED
    BY <1>3, <1>4, <2>2
<1> QED
  BY <1>5

\* What holds at 0, and after each turn if it holds before it, holds after all.
LEMMA UpTo ==
  ASSUME NEW n \in Nat, NEW T, 0 \in T, \A i \in 1..n : i - 1 \in T => i \in T
  PROVE  \A i \in 0..n : i \in T
<1> DEFINE Missing == {i \in 0..n : i \notin T}
<1> SUFFICES ASSUME Missing # {} PROVE FALSE
  OBVIOUS
<1>1. PICK x \in Missing : \A y \in Missing : x <= y
  <2>1. Missing \in SUBSET Nat
    OBVIOUS
  <2> HIDE DEF Missing
  <2> QED
    BY <2>1, Least
<1>2. x \in 1..n /\ x - 1 \notin Missing
  BY <1>1
<1> QED
  BY <1>2
-----------------------------------------------------------------------------
\* The greatest of the numbers up to k.
LEMMA TopMax ==
  ASSUME NEW k \in Nat, NEW s \in SUBSET (1..k), k \in s
  PROVE  Max(s) = k
<1>1. \A x \in s : (\A y \in s : x >= y) => x = k
  OBVIOUS
<1>2. \A y \in s : k >= y
  OBVIOUS
<1> QED
  BY <1>1, <1>2 DEF Max

\* h is a table of the loop over the first k elements: what it has after any of them.
Solves(h, c, base, seq, k) ==
  h = [s \in SUBSET (1..k) |->
         IF s = {} THEN base ELSE Op(c, h[s \ {Max(s)}], seq[Max(s)])]

\* The equation of a loop's table has a solution for a sequence of any length.
LEMMA Solvable ==
  ASSUME NEW c, NEW base, NEW seq, NEW n \in Nat
  PROVE  \E h : Solves(h, c, base, seq, n)
<1> DEFINE T == {k \in Nat : \E h : Solves(h, c, base, seq, k)}
<1>1. 0 \in T
  <2> DEFINE h == [s \in SUBSET (1..0) |-> base]
  <2>1. Solves(h, c, base, seq, 0)
    <3>1. SUBSET (1..0) = {{}}
      OBVIOUS
    <3>2. [s \in SUBSET (1..0) |->
         IF s = {} THEN base ELSE Op(c, h[s \ {Max(s)}], seq[Max(s)])] = [s \in SUBSET (1..0) |-> base]
      BY <3>1, Zenon
    <3> QED
      BY <3>2 DEF Solves
  <2> QED
    BY <2>1
<1>2. \A k \in 1..n : k - 1 \in T => k \in T
  <2> SUFFICES ASSUME NEW k \in 1..n, NEW h, Solves(h, c, base, seq, k - 1) PROVE k \in T
    OBVIOUS
  <2> DEFINE g == [s \in SUBSET (1..k) |->
                     IF k \in s THEN Op(c, h[s \ {k}], seq[k]) ELSE h[s]]
  <2>0. k \in Nat /\ k - 1 \in Nat
    OBVIOUS
  <2>1. ASSUME NEW s \in SUBSET (1..k)
        PROVE  g[s] = IF s = {} THEN base ELSE Op(c, g[s \ {Max(s)}], seq[Max(s)])
    <3>1. CASE k \in s
      <4>1. Max(s) = k
        BY <2>0, <3>1, TopMax
      <4>2. s \ {k} \in SUBSET (1..k) /\ k \notin s \ {k} /\ s # {}
        BY <3>1
      <4>3. g[s \ {k}] = h[s \ {k}] /\ g[s] = Op(c, h[s \ {k}], seq[k])
        BY <3>1, <4>2
      <4> QED
        BY <4>1, <4>2, <4>3
    <3>2. CASE k \notin s
      <4>1. s \in SUBSET (1..(k - 1))
        BY <3>2
      <4>2. g[s] = h[s]
        BY <3>2
      <4>3. h[s] = IF s = {} THEN base ELSE Op(c, h[s \ {Max(s)}], seq[Max(s)])
        BY <4>1 DEF Solves
      <4>4. s \ {Max(s)} \in SUBSET (1..k) /\ k \notin s \ {Max(s)}
        BY <3>2
      <4>5. g[s \ {Max(s)}] = h[s \ {Max(s)}]
        BY <4>4
      <4> QED
        BY <4>2, <4>3, <4>5
    <3> QED
      BY <3>1, <3>2
  <2>2. g = [s \in SUBSET (1..k) |->
         IF s = {} THEN base ELSE Op(c, g[s \ {Max(s)}], seq[Max(s)])]
    <3>1. g = [s \in SUBSET (1..k) |-> g[s]]
      OBVIOUS
    <3> HIDE DEF g
    <3> QED
      BY <2>1, <3>1
  <2>3. Solves(g, c, base, seq, k)
    BY <2>2 DEF Solves
  <2> QED
    BY <2>0, <2>3
<1> HIDE DEF T
<1>3. n \in T
  BY <1>1, <1>2, UpTo
<1> QED
  BY <1>3 DEF T
-----------------------------------------------------------------------------
(* The turns of a loop                                                      *)

\* The table of a loop over seq, as Run chooses it.
Table(c, base, seq) ==
  CHOOSE h : h = [s \in SUBSET DOMAIN seq |->
                    IF s = {} THEN base ELSE LET x == Max(s) IN Op(c, h[s \ {x}], seq[x])]

\* The result of a loop is the last entry of its table.
LEMMA RunTable ==
  ASSUME NEW c, NEW base, NEW seq
  PROVE  Run(c, base, seq) = Table(c, base, seq)[DOMAIN seq]
BY DEF Run, Table

\* The table that CHOOSE gives is a solution: there is one.
LEMMA TableSolves ==
  ASSUME NEW c, NEW base, NEW seq, NEW n \in Nat, DOMAIN seq = 1..n
  PROVE  Solves(Table(c, base, seq), c, base, seq, n)
<1> DEFINE P(h) == h = [s \in SUBSET DOMAIN seq |->
                    IF s = {} THEN base ELSE LET x == Max(s) IN Op(c, h[s \ {x}], seq[x])]
<1>1. \A h : P(h) <=> Solves(h, c, base, seq, n)
  BY DEF Solves
<1>2. \E h : P(h)
  BY <1>1, Solvable
<1>3. Table(c, base, seq) = CHOOSE h : P(h)
  BY DEF Table
<1>4. P(Table(c, base, seq))
  <2> HIDE DEF P
  <2> QED
    BY <1>2, <1>3
<1> QED
  BY <1>1, <1>4

\* The table on the first numbers.
LEMMA TableTurns ==
  ASSUME NEW c, NEW base, NEW seq, NEW n \in Nat, DOMAIN seq = 1..n
  PROVE  /\ Table(c, base, seq)[1..0] = base
         /\ \A i \in 1..n :
              Table(c, base, seq)[1..i] = Op(c, Table(c, base, seq)[1..(i - 1)], seq[i])
<1> DEFINE h == Table(c, base, seq)
<1>0. Solves(h, c, base, seq, n)
  BY TableSolves
<1> HIDE DEF h
<1>1. \A s \in SUBSET (1..n) :
        h[s] = IF s = {} THEN base ELSE Op(c, h[s \ {Max(s)}], seq[Max(s)])
  BY <1>0 DEF Solves
<1>2. h[1..0] = base
  <2>1. 1..0 \in SUBSET (1..n) /\ 1..0 = {}
    OBVIOUS
  <2> QED
    BY <1>1, <2>1
<1>3. ASSUME NEW i \in 1..n
      PROVE  h[1..i] = Op(c, h[1..(i - 1)], seq[i])
  <2>1. 1..i \in SUBSET (1..n) /\ 1..i # {}
    OBVIOUS
  <2>2. Max(1..i) = i
    BY TopMax
  <2>3. (1..i) \ {i} = 1..(i - 1)
    OBVIOUS
  <2> QED
    BY <1>1, <2>1, <2>2, <2>3
<1> QED
  BY <1>2, <1>3 DEF h

\* What a loop over the first k elements has is in the table of the whole loop.
LEMMA Part ==
  ASSUME NEW c, NEW base, NEW S, NEW seq \in Seq(S), NEW k \in 0..Len(seq)
  PROVE  Run(c, base, SubSeq(seq, 1, k)) = Table(c, base, seq)[1..k]
<1> DEFINE n == Len(seq)
           h == Table(c, base, seq)
           part == SubSeq(seq, 1, k)
           g == Table(c, base, part)
           T == {i \in 0..k : g[1..i] = h[1..i]}
<1>0. n \in Nat /\ DOMAIN seq = 1..n
  OBVIOUS
<1>1. /\ h[1..0] = base
      /\ \A i \in 1..n : h[1..i] = Op(c, h[1..(i - 1)], seq[i])
  BY <1>0, TableTurns
<1>2. k \in Nat /\ DOMAIN part = 1..k /\ \A i \in 1..k : part[i] = seq[i]
  BY <1>0
<1>3. /\ g[1..0] = base
      /\ \A i \in 1..k : g[1..i] = Op(c, g[1..(i - 1)], part[i])
  <2> HIDE DEF part
  <2> QED
    BY <1>2, TableTurns
<1> HIDE DEF part, g, h
<1>4. 0 \in T
  BY <1>2, <1>3, <1>1
<1>5. \A i \in 1..k : i - 1 \in T => i \in T
  <2> TAKE i \in 1..k
  <2> HAVE i - 1 \in T
  <2>1. i \in 1..n /\ i \in 0..k
    BY <1>0
  <2>2. g[1..i] = Op(c, g[1..(i - 1)], seq[i]) /\ h[1..i] = Op(c, h[1..(i - 1)], seq[i])
    BY <1>1, <1>2, <1>3, <2>1
  <2>3. g[1..(i - 1)] = h[1..(i - 1)]
    OBVIOUS
  <2> QED
    BY <2>1, <2>2, <2>3
<1>6. k \in T
  <2> HIDE DEF T
  <2>1. \A i \in 0..k : i \in T
    BY <1>2, <1>4, <1>5, UpTo
  <2> QED
    BY <1>2, <2>1
<1>7. Run(c, base, part) = g[1..k]
  BY <1>2, RunTable DEF g
<1> QED
  BY <1>6, <1>7 DEF part, h

\* Before its first turn a loop has what it starts with.
LEMMA Start ==
  ASSUME NEW c, NEW base, NEW S, NEW seq \in Seq(S)
  PROVE  Run(c, base, SubSeq(seq, 1, 0)) = base
<1>1. Run(c, base, SubSeq(seq, 1, 0)) = Table(c, base, seq)[1..0]
  BY Part
<1> QED
  BY <1>1, TableTurns

\* A turn leads from what a loop over the first i - 1 elements has to what one
\* over the first i has.
LEMMA Turn ==
  ASSUME NEW c, NEW base, NEW S, NEW seq \in Seq(S), NEW i \in 1..Len(seq)
  PROVE  Run(c, base, SubSeq(seq, 1, i)) = Op(c, Run(c, base, SubSeq(seq, 1, i - 1)), seq[i])
<1> DEFINE h == Table(c, base, seq)
<1>1. h[1..i] = Op(c, h[1..(i - 1)], seq[i])
  BY TableTurns
<1>2. /\ Run(c, base, SubSeq(seq, 1, i)) = h[1..i]
      /\ Run(c, base, SubSeq(seq, 1, i - 1)) = h[1..(i - 1)]
  <2>1. i \in 0..Len(seq) /\ i - 1 \in 0..Len(seq)
    OBVIOUS
  <2> QED
    BY <2>1, Part
<1> HIDE DEF h
<1> QED
  BY <1>1, <1>2

\* After its last turn a loop has its result.
LEMMA Finish ==
  ASSUME NEW c, NEW base, NEW S, NEW seq \in Seq(S)
  PROVE  Run(c, base, SubSeq(seq, 1, Len(seq))) = Run(c, base, seq)
<1>1. Run(c, base, SubSeq(seq, 1, Len(seq))) = Table(c, base, seq)[1..Len(seq)]
  BY Part
<1> QED
  BY <1>1, RunTable

\* A loop over one element more takes one turn more.
LEMMA Longer ==
  ASSUME NEW c, NEW base, NEW S, NEW seq \in Seq(S), NEW x
  PROVE  Run(c, base, Append(seq, x)) = Op(c, Run(c, base, seq), x)
<1> DEFINE more == Append(seq, x)
           n == Len(seq)
           T == S \cup {x}
<1>1. /\ n \in Nat /\ more \in Seq(T) /\ Len(more) = n + 1 /\ more[n + 1] = x
      /\ seq \in Seq(T) /\ \A i \in 1 .. n : more[i] = seq[i]
  OBVIOUS
<1> HIDE DEF T, more
<1>2. SubSeq(more, 1, n) = seq
  <2> DEFINE part == SubSeq(more, 1, n)
  <2>1. part \in Seq(T) /\ Len(part) = n /\ \A i \in 1 .. n : part[i] = seq[i]
    BY <1>1
  <2> HIDE DEF part
  <2>2. part = seq
    BY <1>1, <2>1
  <2> QED
    BY <2>2 DEF part
<1>3. Run(c, base, SubSeq(more, 1, n + 1)) = Op(c, Run(c, base, SubSeq(more, 1, n)), x)
  <2> DEFINE i == n + 1
  <2>1. i \in 1 .. Len(more) /\ i - 1 = n /\ more[i] = x
    BY <1>1
  <2> HIDE DEF i
  <2>2. Run(c, base, SubSeq(more, 1, i)) = Op(c, Run(c, base, SubSeq(more, 1, i - 1)), more[i])
    <3>1. more \in Seq(T) /\ i \in 1 .. Len(more)
      BY <1>1, <2>1
    <3> QED
      BY <3>1, Turn, Zenon
  <2> QED
    BY <2>1, <2>2 DEF i
<1>4. Run(c, base, SubSeq(more, 1, n + 1)) = Run(c, base, more)
  BY <1>1, Finish
<1> QED
  BY <1>2, <1>3, <1>4 DEF more
=============================================================================
