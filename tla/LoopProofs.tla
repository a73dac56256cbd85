----------------------------- MODULE LoopProofs -----------------------------
(***************************************************************************)
(* Theorems about the loops of archives.py, scan.py, coverage.py and       *)
(* cmd_render, the tree of inventory.py, and what it says of the encoding  *)
(* and the line ends of a file, for inputs of any number and any length:   *)
(* the invariants of Algorithms about them. Each loop is an instance of    *)
(* Loops; for each there is a statement of what it has after k turns,      *)
(* which holds at 0, is kept by a turn, and gives the invariant at the     *)
(* end. What is sorted gets its places from the ranks of its elements.     *)
(***************************************************************************)
EXTENDS Algorithms, SequenceTheorems, FiniteSetTheorems, FunctionTheorems, TLAPS

\* A loop of the code and what it is in Loops: the turn with what surrounds it.
ReadTurn(file, read, i) == NextMember(file, read, i)
Reads == INSTANCE Loops WITH Op <- ReadTurn

SumTurn(c, total, member) == total + member.size
Sums == INSTANCE Loops WITH Op <- SumTurn

\* A prefix of a sequence.
LEMMA PrefixOf ==
  ASSUME NEW S, NEW s \in Seq(S), NEW k \in 0 .. Len(s)
  PROVE  /\ SubSeq(s, 1, k) \in Seq(S) /\ Len(SubSeq(s, 1, k)) = k
         /\ DOMAIN SubSeq(s, 1, k) = 1 .. k
         /\ \A i \in 1 .. k : SubSeq(s, 1, k)[i] = s[i]
OBVIOUS

\* A sequence without its last element.
LEMMA FrontOf ==
  ASSUME NEW S, NEW s \in Seq(S), Len(s) >= 1
  PROVE  /\ Front(s) \in Seq(S) /\ Len(Front(s)) = Len(s) - 1
         /\ \A i \in 1 .. Len(s) - 1 : Front(s)[i] = s[i]
<1>1. Front(s) = SubSeq(s, 1, Len(s) - 1)
  BY DEF Front
<1> DEFINE k == Len(s) - 1
<1>2. k \in 0 .. Len(s)
  OBVIOUS
<1> HIDE DEF k
<1>3. /\ SubSeq(s, 1, k) \in Seq(S) /\ Len(SubSeq(s, 1, k)) = k
      /\ \A i \in 1 .. k : SubSeq(s, 1, k)[i] = s[i]
  BY <1>2
<1> QED
  BY <1>1, <1>3 DEF k

\* One more element.
LEMMA PrefixGrows ==
  ASSUME NEW S, NEW s \in Seq(S), NEW k \in 0 .. Len(s) - 1
  PROVE  Append(SubSeq(s, 1, k), s[k + 1]) = SubSeq(s, 1, k + 1)
<1> DEFINE a == Append(SubSeq(s, 1, k), s[k + 1])
           b == SubSeq(s, 1, k + 1)
<1>1. /\ a \in Seq(S) /\ b \in Seq(S) /\ Len(a) = k + 1 /\ Len(b) = k + 1
      /\ \A i \in 1 .. k + 1 : a[i] = b[i]
  OBVIOUS
<1> HIDE DEF a, b
<1>2. a = b
  BY <1>1
<1> QED
  BY <1>2 DEF a, b
-----------------------------------------------------------------------------
(* archives.inspect                                                         *)

Places(file) == [i \in 1 .. Len(file.members) + 1 |-> i]
ReadAfter(file, k) == Reads!Run(file, Reading, SubSeq(Places(file), 1, k))
Total(file, n) == Sums!Run(0, 0, SubSeq(file.members, 1, n))

\* The reading of the members in inspect is a loop.
LEMMA InspectRuns ==
  ASSUME NEW file
  PROVE  FoldLeft(LAMBDA r, i : NextMember(file, r, i), Reading, Places(file))
           = Reads!Run(file, Reading, Places(file))
BY DEF Reads!Run, ReadTurn, FoldLeft, MapThenFoldSet, Max, Reads!Max

\* The total of the sizes in _finalise is a loop.
LEMMA TotalRuns ==
  ASSUME NEW seq
  PROVE  FoldLeft(LAMBDA t, m : t + m.size, 0, seq) = Sums!Run(0, 0, seq)
BY DEF Sums!Run, SumTurn, FoldLeft, MapThenFoldSet, Max, Sums!Max

\* The sizes add up member by member.
LEMMA TotalTurns ==
  ASSUME NEW file \in ArchiveInputs
  PROVE  /\ Total(file, 0) = 0
         /\ \A n \in 1 .. Len(file.members) :
              Total(file, n) = Total(file, n - 1) + file.members[n].size
         /\ \A n \in 0 .. Len(file.members) : Total(file, n) \in Nat
<1> DEFINE n == Len(file.members)
           T == {k \in 0 .. n : Total(file, k) \in Nat}
<1>1. file.members \in Seq(ToSet(file.members))
  BY ArchiveInputAssumption
<1>2. /\ Total(file, 0) = 0
      /\ \A k \in 1 .. n : Total(file, k) = Total(file, k - 1) + file.members[k].size
  <2>1. /\ Sums!Run(0, 0, SubSeq(file.members, 1, 0)) = 0
        /\ \A k \in 1 .. n : Sums!Run(0, 0, SubSeq(file.members, 1, k)) =
             SumTurn(0, Sums!Run(0, 0, SubSeq(file.members, 1, k - 1)), file.members[k])
    BY <1>1, Sums!Start, Sums!Turn
  <2> QED
    BY <2>1 DEF Total, SumTurn
<1>3. \A k \in 1 .. n : file.members[k].size \in Nat
  BY <1>1, ArchiveInputAssumption DEF ToSet
<1>4. n \in Nat
  BY <1>1
<1> HIDE DEF n
<1>5. 0 \in T /\ \A k \in 1 .. n : k - 1 \in T => k \in T
  BY <1>2, <1>3, <1>4
<1> HIDE DEF T
<1>6. \A k \in 0 .. n : k \in T
  BY <1>4, <1>5, Sums!UpTo
<1> QED
  BY <1>2, <1>6 DEF T, n

\* What inspect has read after k turns.
ReadWell(file, read, k) ==
  LET m == Len(read.members)
  IN /\ read = [status |-> read.status, cap |-> read.cap,
                members |-> read.members, total |-> read.total]
     /\ m \in 0 .. Len(file.members) /\ m <= MaxMembers
     /\ read.members = SubSeq(file.members, 1, m)
     /\ read.total = Total(file, m)
     /\ \A j \in 0 .. m - 1 : Total(file, j) <= MaxTotal
     /\ read.cap = "size" <=> Total(file, m) > MaxTotal
     /\ \/ /\ read.status = "reading" /\ read.cap = "none"
           /\ m = k /\ file.broken \notin 1 .. k
        \/ read.status = "inspected" /\ read.cap = "size"
        \/ /\ read.status = "inspected" /\ read.cap = "count"
           /\ m = MaxMembers /\ m < Len(file.members)
        \/ read.status = file.error /\ read.cap = "none" /\ file.broken = m + 1
        \/ /\ read.status = "inspected" /\ read.cap = "none"
           /\ file.broken = 0 /\ m = Len(file.members)

\* A turn of inspect keeps what the reading means: it has listed the members so
\* far, as many as the caps allow, or stopped where it must.
LEMMA ReadOn ==
  ASSUME NEW file \in ArchiveInputs, NEW k \in 1 .. Len(file.members) + 1,
         NEW read, ReadWell(file, read, k - 1)
  PROVE  ReadWell(file, NextMember(file, read, k), k)
<1> DEFINE n == Len(file.members)
           m == Len(read.members)
<1> SUFFICES ASSUME NEW next, next = NextMember(file, read, k)
             PROVE  ReadWell(file, next, k)
  OBVIOUS
<1>1. /\ file.members \in Seq(ToSet(file.members)) /\ n \in Nat
      /\ file.broken \in 0 .. n + 1 /\ file.error \notin {"reading", "inspected"}
      /\ MaxMembers \in Nat /\ MaxTotal \in Nat
  BY ArchiveInputAssumption, ArchiveAssumption
<1>2. CASE read.status # "reading"
  <2>1. next = read
    BY <1>2 DEF NextMember
  <2> QED
    BY <1>2, <2>1 DEF ReadWell
<1>3. CASE read.status = "reading"
  <2>0. /\ m = k - 1 /\ read.cap = "none" /\ file.broken \notin 1 .. k - 1
        /\ ~(Total(file, m) > MaxTotal) /\ m \in 0 .. n /\ m <= MaxMembers
        /\ read.members = SubSeq(file.members, 1, m)
        /\ read.total = Total(file, m)
        /\ \A j \in 0 .. m - 1 : Total(file, j) <= MaxTotal
        /\ read = [status |-> "reading", cap |-> "none",
                members |-> read.members, total |-> read.total]
    <3>1. Total(file, m) \in Nat
      BY <1>1, TotalTurns DEF ReadWell
    <3> QED
      BY <1>1, <1>3, <3>1 DEF ReadWell
  <2>1. CASE k = file.broken
    <3>1. next = [status |-> file.error, cap |-> "none", members |-> read.members, total |-> read.total]
      BY <1>1, <1>3, <2>0, <2>1 DEF NextMember, Stop
    <3> QED
      BY <1>1, <2>0, <2>1, <3>1 DEF ReadWell
  <2>2. CASE k # file.broken /\ k > n
    <3>1. next = [status |-> "inspected", cap |-> "none", members |-> read.members, total |-> read.total]
      <4>1. next = Stop(read, "inspected", "none")
        BY <1>1, <1>3, <2>2 DEF NextMember
      <4> QED
        BY <2>0, <4>1 DEF Stop
    <3>2. m = n /\ file.broken = 0
      BY <1>1, <2>0, <2>2
    <3> QED
      BY <1>1, <2>0, <3>1, <3>2 DEF ReadWell
  <2>3. CASE k # file.broken /\ k <= n /\ m >= MaxMembers
    <3>1. next = [status |-> "inspected", cap |-> "count", members |-> read.members, total |-> read.total]
      <4>1. next = Stop(read, "inspected", "count")
        BY <1>1, <1>3, <2>3 DEF NextMember
      <4> QED
        BY <2>0, <4>1 DEF Stop
    <3> QED
      BY <1>1, <2>0, <2>3, <3>1 DEF ReadWell
  <2>4. CASE k # file.broken /\ k <= n /\ m < MaxMembers
    <3> DEFINE ms == SubSeq(file.members, 1, m)
               t == Total(file, m)
               member == file.members[k]
    <3>1. next = Take(read, member)
      BY <1>1, <1>3, <2>0, <2>4 DEF NextMember
    <3>2. Append(ms, member) = SubSeq(file.members, 1, k)
      <4>1. m \in 0 .. n - 1 /\ k = m + 1
        BY <1>1, <2>0, <2>4
      <4> QED
        BY <1>1, <4>1, PrefixGrows
    <3>3. t + member.size = Total(file, k)
      BY <1>1, <2>0, <2>4, TotalTurns
    <3>4. read = [status |-> "reading", cap |-> "none", members |-> ms, total |-> t]
      BY <2>0
    <3> HIDE DEF ms, t, member
    <3>5. /\ next.members = SubSeq(file.members, 1, k) /\ next.total = Total(file, k)
          /\ next.status = IF Total(file, k) > MaxTotal THEN "inspected" ELSE "reading"
          /\ next.cap = IF Total(file, k) > MaxTotal THEN "size" ELSE "none"
          /\ next = [status |-> next.status, cap |-> next.cap,
                     members |-> next.members, total |-> next.total]
      BY <3>1, <3>2, <3>3, <3>4 DEF Take, Stop
    <3>6. /\ Len(SubSeq(file.members, 1, k)) = k
          /\ \A j \in 0 .. k - 1 : Total(file, j) <= MaxTotal
          /\ Total(file, k) \in Nat
      <4>1. k \in 0 .. n /\ k = m + 1
        BY <1>1, <2>0, <2>4
      <4>2. Len(SubSeq(file.members, 1, k)) = k
        BY <1>1, <4>1, PrefixOf
      <4>3. \A j \in 0 .. k - 1 : Total(file, j) <= MaxTotal
        <5>1. Total(file, m) \in Nat
          BY <1>1, <2>0, TotalTurns
        <5> QED
          BY <1>1, <2>0, <4>1, <5>1
      <4> QED
        BY <4>1, <4>2, <4>3, TotalTurns
    <3> QED
      BY <1>1, <2>0, <2>4, <3>5, <3>6 DEF ReadWell
  <2> QED
    BY <1>1, <2>0, <2>1, <2>2, <2>3, <2>4
<1> QED
  BY <1>2, <1>3

\* inspect ends with what its loop has after a turn for every member and one more.
LEMMA ReadToEnd ==
  ASSUME NEW file \in ArchiveInputs
  PROVE  LET n == Len(file.members)
         IN ReadWell(file, Reads!Run(file, Reading, Places(file)), n + 1)
<1> DEFINE n == Len(file.members)
           places == Places(file)
           T == {k \in 0 .. n + 1 : ReadWell(file, ReadAfter(file, k), k)}
<1>1. /\ file.members \in Seq(ToSet(file.members)) /\ n \in Nat
      /\ file.broken \in 0 .. n + 1 /\ MaxMembers \in Nat /\ MaxTotal \in Nat
  BY ArchiveInputAssumption, ArchiveAssumption
<1>2. /\ places \in Seq(Nat) /\ Len(places) = n + 1
      /\ \A k \in 1 .. n + 1 : places[k] = k
  BY <1>1 DEF Places
<1> HIDE DEF places
<1>3. ReadAfter(file, 0) = Reading
  BY <1>2, Reads!Start DEF ReadAfter, places
<1>4. \A k \in 1 .. n + 1 : ReadAfter(file, k) = NextMember(file, ReadAfter(file, k - 1), k)
  <2>1. \A k \in 1 .. n + 1 : ReadAfter(file, k) = ReadTurn(file, ReadAfter(file, k - 1), places[k])
    BY <1>2, Reads!Turn DEF ReadAfter, places
  <2> QED
    BY <1>2, <2>1 DEF ReadTurn
<1>5. Reads!Run(file, Reading, places) = ReadAfter(file, n + 1)
  BY <1>2, Reads!Finish DEF ReadAfter, places
<1>6. 0 \in T
  <2>1. SubSeq(file.members, 1, 0) = <<>> /\ Total(file, 0) = 0
    BY <1>1, TotalTurns
  <2>2. ReadWell(file, Reading, 0)
    BY <1>1, <2>1 DEF ReadWell, Reading
  <2> QED
    BY <1>1, <1>3, <2>2
<1>7. \A k \in 1 .. n + 1 : k - 1 \in T => k \in T
  BY <1>1, <1>4, ReadOn
<1> HIDE DEF T
<1>8. \A k \in 0 .. n + 1 : k \in T
  <2>1. n + 1 \in Nat
    BY <1>1
  <2> HIDE DEF n
  <2> QED
    BY <2>1, <1>6, <1>7, Reads!UpTo
<1> QED
  BY <1>1, <1>5, <1>8 DEF T, places

\* What inspect reports of an archive, in terms of the members that it has read.
LEMMA Inspected ==
  ASSUME NEW file \in ArchiveInputs
  PROVE  \E read :
           /\ ReadWell(file, read, Len(file.members) + 1) /\ read.status # "reading"
           /\ LET report == Inspect(file)
              IN /\ report.members = Len(read.members) /\ report.cap = read.cap
                 /\ report.status = read.status
                    \/ (report.status = "parser-error" /\ file.gone)
                 /\ report.traversing = Cardinality(Traversing(read.members))
                 /\ report.escaping = Cardinality(Escaping(file.kind, read.members))
                 /\ report.listed = SubSeq(read.members, 1, IF Len(read.members) < MaxListed
                                                            THEN Len(read.members) ELSE MaxListed)
                 /\ (report.truncated <=> Len(read.members) > MaxListed)
<1> DEFINE n == Len(file.members)
           read == Reads!Run(file, Reading, Places(file))
           final == IF file.kind = "tar" /\ read.status = "inspected" /\ file.gone
                    THEN [read EXCEPT !.status = "parser-error"] ELSE read
<1>1. ReadWell(file, read, n + 1)
  BY ReadToEnd
<1>2. Inspect(file) = Finalise(final, file.kind)
  <2>1. FoldLeft(LAMBDA r, i : NextMember(file, r, i), Reading, Places(file)) = read
    BY InspectRuns
  <2> QED
    BY <2>1 DEF Inspect, Places
<1> HIDE DEF read
<1>3. read.status # "reading"
  <2>1. n \in Nat /\ file.error # "reading"
    BY ArchiveInputAssumption
  <2> QED
    BY <1>1, <2>1 DEF ReadWell
<1>4. /\ final.members = read.members /\ final.cap = read.cap
      /\ final.status = read.status \/ (final.status = "parser-error" /\ file.gone)
  BY <1>1 DEF ReadWell
<1> HIDE DEF final
<1>5. LET report == Inspect(file)
      IN /\ report.members = Len(read.members) /\ report.cap = read.cap
         /\ report.status = read.status \/ (report.status = "parser-error" /\ file.gone)
         /\ report.traversing = Cardinality(Traversing(read.members))
         /\ report.escaping = Cardinality(Escaping(file.kind, read.members))
         /\ report.listed = SubSeq(read.members, 1, IF Len(read.members) < MaxListed
                                                    THEN Len(read.members) ELSE MaxListed)
         /\ (report.truncated <=> Len(read.members) > MaxListed)
  <2> DEFINE report == Finalise(final, file.kind)
  <2>1. /\ report.members = Len(final.members) /\ report.cap = final.cap
        /\ report.status = final.status
        /\ report.traversing = Cardinality(Traversing(final.members))
        /\ report.escaping = Cardinality(Escaping(file.kind, final.members))
        /\ report.listed = SubSeq(final.members, 1, IF Len(final.members) < MaxListed
                                                    THEN Len(final.members) ELSE MaxListed)
    BY DEF Finalise
  <2>2. report.truncated <=> Len(final.members) > MaxListed
    BY DEF Finalise
  <2> HIDE DEF report
  <2> QED
    BY <1>2, <1>4, <2>1, <2>2 DEF report
<1> QED
  BY <1>1, <1>3, <1>5
-----------------------------------------------------------------------------
\* What a step has picked is one of the inputs.
Picked ==
  /\ about = "archive" => input \in ArchiveInputs
  /\ about = "link" => input \in LinkInputs
  /\ about = "todos" => input \in TodoInputs
  /\ about = "secrets" => input \in SecretInputs
  /\ about = "counts" => input \in CountInputs
  /\ about = "render" => input \in RenderInputs
  /\ about = "readme" => input \in ReadmeInputs
  /\ about = "signals" => input \in SignalInputs
  /\ about = "status" => input \in StatusInputs
  /\ about = "attributes" => input \in AttributeInputs
  /\ about = "tree" => input \in TreeInputs
  /\ about = "text" => input \in TextInputs

\* A topic stands only beside an input of that topic.
LEMMA PickedFromInputs == Spec => []Picked
<1>1. Init => Picked
  BY DEF Init, Picked
<1>2. Picked /\ [Next]_<<about, input>> => Picked'
  <2> SUFFICES ASSUME Picked, [Next]_<<about, input>> PROVE Picked'
    OBVIOUS
  <2>1. CASE Next
    BY <2>1 DEF Picked, Next, Pick, PickTodos, PickSecrets, PickArchive, PickLink, PickReadme,
                PickPath, PickTree, PickText, PickStatus, PickAttributes, PickSignals,
                PickOrigin, PickRender, PickCounts
  <2>2. CASE UNCHANGED <<about, input>>
    BY <2>2 DEF Picked
  <2> QED
    BY <2>1, <2>2
<1> QED
  BY <1>1, <1>2, PTL DEF Spec

\* A cap in the report of inspect is never a false alarm, and the size cap is in
\* it whenever it was passed, for archives of any length and sizes.
THEOREM CapsAreExact == Spec => []CapsExact
<1>1. Picked => CapsExact
  <2> SUFFICES ASSUME about = "archive", input \in ArchiveInputs PROVE CapsExact
    BY DEF Picked, CapsExact
  <2> DEFINE report == Inspect(input)
             Sum(n) == FoldLeft(LAMBDA t, m : t + m.size, 0, SubSeq(input.members, 1, n))
  <2>1. PICK read : /\ ReadWell(input, read, Len(input.members) + 1) /\ read.status # "reading"
                    /\ report.members = Len(read.members) /\ report.cap = read.cap
    BY Inspected
  <2>2. \A n : Sum(n) = Total(input, n)
    BY TotalRuns DEF Total
  <2> HIDE DEF report, Sum
  <2>3. /\ report.cap = "count" => report.members = MaxMembers /\ Len(input.members) > MaxMembers
        /\ report.cap = "size" <=> Sum(report.members) > MaxTotal
        /\ \A n \in 0 .. report.members - 1 : Sum(n) <= MaxTotal
        /\ report.members <= MaxMembers
    <3>1. MaxMembers \in Nat /\ Len(input.members) \in Nat
      BY ArchiveInputAssumption, ArchiveAssumption
    <3> QED
      BY <2>1, <2>2, <3>1 DEF ReadWell
  <2> QED
    BY <2>3 DEF CapsExact, report, Sum
<1> QED
  BY <1>1, PickedFromInputs, PTL

\* The counts that inspect reports are about what it read, and the status says
\* whether that was all.
THEOREM CountsAlwaysTold == Spec => []CountsTold
<1>1. Picked => CountsTold
  <2> SUFFICES ASSUME about = "archive", input \in ArchiveInputs PROVE CountsTold
    BY DEF Picked, CountsTold
  <2> DEFINE report == Inspect(input)
             n == Len(input.members)
             S == ToSet(input.members)
             part == SubSeq(input.members, 1, report.members)
  <2>1. PICK read : /\ ReadWell(input, read, n + 1) /\ read.status # "reading"
                    /\ report.members = Len(read.members) /\ report.cap = read.cap
                    /\ report.status = read.status
                         \/ (report.status = "parser-error" /\ input.gone)
                    /\ report.traversing = Cardinality(Traversing(read.members))
                    /\ report.escaping = Cardinality(Escaping(input.kind, read.members))
                    /\ report.listed = SubSeq(read.members, 1, IF Len(read.members) < MaxListed
                                                               THEN Len(read.members) ELSE MaxListed)
                    /\ (report.truncated <=> Len(read.members) > MaxListed)
    BY Inspected
  <2>2. /\ input.members \in Seq(S) /\ n \in Nat /\ input.broken \in 0 .. n + 1
        /\ input.error \notin {"reading", "inspected"}
        /\ MaxMembers \in Nat /\ MaxTotal \in Nat /\ MaxListed \in Nat
    BY ArchiveInputAssumption, ArchiveAssumption
  <2> HIDE DEF report, S
  <2>3. /\ report.members \in 0 .. n /\ read.members = part
        /\ part \in Seq(S) /\ Len(part) = report.members
    <3>1. report.members \in 0 .. n /\ read.members = part
      BY <2>1 DEF ReadWell
    <3> QED
      BY <2>2, <3>1
  <2>4. /\ report.members < n => report.cap # "none" \/ report.status # "inspected"
        /\ report.status # "inspected" => input.broken # 0 \/ input.gone
        /\ input.broken # 0 /\ report.cap = "none" => report.status # "inspected"
    BY <2>1, <2>2 DEF ReadWell
  <2> HIDE DEF part
  <2>5. IsPrefix(report.listed, part) /\ (~report.truncated <=> report.listed = part)
    <3>1. CASE report.members < MaxListed
      <4>1. report.listed = part
        BY <2>1, <2>2, <2>3, <3>1
      <4> QED
        BY <2>1, <2>2, <2>3, <3>1, <4>1 DEF IsPrefix
    <3>2. CASE ~(report.members < MaxListed)
      <4> DEFINE l == SubSeq(part, 1, MaxListed)
      <4>1. report.listed = l
        BY <2>1, <2>3, <3>2
      <4>2. l \in Seq(S) /\ Len(l) = MaxListed
        BY <2>2, <2>3, <3>2
      <4>3. IsPrefix(l, part)
        <5>1. SubSeq(l, 1, Len(l)) = l
          BY <4>2
        <5> QED
          BY <2>2, <2>3, <3>2, <4>2, <5>1 DEF IsPrefix
      <4>4. MaxListed = report.members => l = part
        BY <2>3
      <4>5. report.truncated <=> Len(part) > MaxListed
        BY <2>1, <2>3
      <4> HIDE DEF l
      <4>6. l = part <=> ~(Len(part) > MaxListed)
        BY <2>2, <2>3, <3>2, <4>2, <4>4
      <4> QED
        BY <4>1, <4>3, <4>5, <4>6
    <3> QED
      BY <3>1, <3>2
  <2>6. /\ report.traversing = Cardinality(Traversing(part))
        /\ report.escaping = Cardinality(Escaping(input.kind, part))
    BY <2>1, <2>3
  <2>7. report.members <= n
    BY <2>2, <2>3
  <2> QED
    BY <2>4, <2>5, <2>6, <2>7 DEF CountsTold, report, part
<1> QED
  BY <1>1, PickedFromInputs, PTL
-----------------------------------------------------------------------------
(* archives._is_traversing and archives._link_escapes                       *)

\* The parts of names.
Part == STRING

\* The first part of a rooted name is neither a step up nor a drive.
LEMMA EmptyApart == Empty # ".." /\ Empty # "C:"
BY Zenon DEF Empty

DeepTurn(c, depth, part) == Deeper(depth, part)
Depths == INSTANCE Loops WITH Op <- DeepTurn

NormalTurn(rooted, path, part) == Normal(rooted, path, part)
Norms == INSTANCE Loops WITH Op <- NormalTurn

Depth(name, k) == Depths!Run(0, 0, SubSeq(name, 1, k))
Path(rooted, name, k) == Norms!Run(rooted, <<>>, SubSeq(name, 1, k))

\* The depth that _is_traversing keeps is that of a loop over the parts of a name.
LEMMA DepthRuns ==
  ASSUME NEW seq
  PROVE  FoldLeft(Deeper, 0, seq) = Depths!Run(0, 0, seq)
BY DEF Depths!Run, DeepTurn, FoldLeft, MapThenFoldSet, Max, Depths!Max

\* The path that posixpath.normpath keeps is that of a loop over the parts.
LEMMA NormRuns ==
  ASSUME NEW rooted, NEW seq
  PROVE  FoldLeft(LAMBDA path, part : Normal(rooted, path, part), <<>>, seq)
           = Norms!Run(rooted, <<>>, seq)
BY DEF Norms!Run, NormalTurn, FoldLeft, MapThenFoldSet, Max, Norms!Max

\* Both loops, one part at a time.
LEMMA PathTurns ==
  ASSUME NEW rooted, NEW name \in Seq(Part)
  PROVE  /\ Path(rooted, name, 0) = <<>> /\ Depth(name, 0) = 0
         /\ \A k \in 1 .. Len(name) :
              /\ Path(rooted, name, k) = Normal(rooted, Path(rooted, name, k - 1), name[k])
              /\ Depth(name, k) = Deeper(Depth(name, k - 1), name[k])
<1>1. Path(rooted, name, 0) = <<>> /\ Depth(name, 0) = 0
  BY Norms!Start, Depths!Start DEF Path, Depth
<1>2. ASSUME NEW k \in 1 .. Len(name)
      PROVE  /\ Path(rooted, name, k) = Normal(rooted, Path(rooted, name, k - 1), name[k])
             /\ Depth(name, k) = Deeper(Depth(name, k - 1), name[k])
  BY Norms!Turn, Depths!Turn DEF Path, Depth, NormalTurn, DeepTurn
<1> QED
  BY <1>1, <1>2

\* One part, from a path that has not led above the start.
LEMMA NormalBelow ==
  ASSUME NEW rooted, ~rooted, NEW S, NEW p \in Seq(S \ {".."}), NEW part \in S,
         NEW q, q = Normal(rooted, p, part), NEW e, e = Deeper(Len(p), part)
  PROVE  \/ q \in Seq(S \ {".."}) /\ Len(q) = e /\ e \in Nat
         \/ e \in Int /\ e < 0 /\ q \in Seq(S) /\ q # <<>> /\ q[1] = ".."
<1>1. CASE part \in {Empty, "."}
  <2>1. q = p /\ e = Len(p)
    BY <1>1, EmptyApart DEF Normal, Deeper
  <2> QED
    BY <2>1
<1>2. CASE part = ".." /\ p # <<>>
  <2>0. Len(p) \in Nat /\ Len(p) >= 1
    BY <1>2
  <2>1. Last(p) # ".."
    BY <2>0 DEF Last
  <2>2. Front(p) \in Seq(S \ {".."}) /\ Len(Front(p)) = Len(p) - 1
    <3> DEFINE R == S \ {".."}
    <3>1. p \in Seq(R)
      OBVIOUS
    <3> HIDE DEF R
    <3>2. Front(p) \in Seq(R) /\ Len(Front(p)) = Len(p) - 1
      BY <2>0, <3>1, FrontOf
    <3> QED
      BY <3>2 DEF R
  <2>3. q = Front(p) /\ e = Len(p) - 1
    BY <1>2, <2>1 DEF Normal, Deeper
  <2> QED
    BY <2>0, <2>2, <2>3
<1>3. CASE part = ".." /\ p = <<>>
  <2>1. q = Append(p, part) /\ e = Len(p) - 1
    BY <1>3, EmptyApart DEF Normal, Deeper
  <2>2. Len(p) = 0
    BY <1>3
  <2>3. q \in Seq(S) /\ q # <<>> /\ q[1] = ".."
    <3>1. p \in Seq(S)
      BY <1>3
    <3>2. q \in Seq(S) /\ Len(q) = 1 /\ q[1] = part
      BY <2>1, <2>2, <3>1
    <3> QED
      BY <1>3, <3>2
  <2> QED
    BY <2>1, <2>2, <2>3
<1>4. CASE part \notin {Empty, ".", ".."}
  <2>1. q = Append(p, part) /\ e = Len(p) + 1
    BY <1>4 DEF Normal, Deeper
  <2>2. part \in S \ {".."}
    BY <1>4
  <2>3. q \in Seq(S \ {".."}) /\ Len(q) = Len(p) + 1 /\ Len(p) \in Nat
    BY <2>1, <2>2
  <2> QED
    BY <2>1, <2>3
<1> QED
  BY <1>1, <1>2, <1>3, <1>4

\* One part, from a path that begins with "..".
LEMMA NormalAbove ==
  ASSUME NEW rooted, ~rooted, NEW S, NEW p \in Seq(S), p # <<>>, p[1] = "..", NEW part \in S,
         NEW q, q = Normal(rooted, p, part)
  PROVE  q \in Seq(S) /\ q # <<>> /\ q[1] = ".."
<1>1. q = p \/ q = Append(p, part) \/ (q = Front(p) /\ Last(p) # "..")
  BY DEF Normal
<1>2. Len(p) \in Nat /\ Len(p) >= 1
  OBVIOUS
<1>3. CASE q = p
  BY <1>3
<1>4. CASE q = Append(p, part)
  BY <1>2, <1>4
<1>5. CASE q = Front(p) /\ Last(p) # ".."
  <2>1. Len(p) >= 2
    BY <1>2, <1>5 DEF Last
  <2>2. Front(p) \in Seq(S) /\ Len(Front(p)) >= 1 /\ Front(p)[1] = p[1]
    BY <1>2, <2>1 DEF Front
  <2> QED
    BY <1>5, <2>2
<1> QED
  BY <1>1, <1>3, <1>4, <1>5

\* While no part has led above the start, the path has as many parts as it is deep,
\* and none is ".."; once one has, the path begins with "..".
Below(rooted, name, k) ==
  /\ \A n \in 0 .. k : Depth(name, n) \in Nat
  /\ Path(rooted, name, k) \in Seq(Part \ {".."})
  /\ Len(Path(rooted, name, k)) = Depth(name, k)
Above(rooted, name, k) ==
  /\ \E n \in 1 .. k : Depth(name, n) \in Int /\ Depth(name, n) < 0
  /\ Path(rooted, name, k) \in Seq(Part) /\ Path(rooted, name, k) # <<>>
  /\ Path(rooted, name, k)[1] = ".."

\* A part of a name leaves its path below where it starts, or above, and the
\* depth says which.
LEMMA StepOfPath ==
  ASSUME NEW rooted, ~rooted, NEW name \in Seq(Part), NEW k \in 1 .. Len(name),
         Below(rooted, name, k - 1) \/ Above(rooted, name, k - 1)
  PROVE  Below(rooted, name, k) \/ Above(rooted, name, k)
<1> DEFINE p == Path(rooted, name, k - 1)
           d == Depth(name, k - 1)
           q == Path(rooted, name, k)
           e == Depth(name, k)
           part == name[k]
<1>1. part \in Part /\ q = Normal(rooted, p, part) /\ e = Deeper(d, part)
  <2>1. part \in Part
    OBVIOUS
  <2>2. q = Normal(rooted, p, part) /\ e = Deeper(d, part)
    BY PathTurns
  <2> QED
    BY <2>1, <2>2
<1>2. CASE Below(rooted, name, k - 1)
  <2>1. p \in Seq(Part \ {".."}) /\ Len(p) = d
    BY <1>2 DEF Below
  <2>2. \A n \in 0 .. k : n = k \/ Depth(name, n) \in Nat
    BY <1>2 DEF Below
  <2> HIDE DEF p, d, q, e, part
  <2>3. \/ q \in Seq(Part \ {".."}) /\ Len(q) = e /\ e \in Nat
        \/ e \in Int /\ e < 0 /\ q \in Seq(Part) /\ q # <<>> /\ q[1] = ".."
    <3>1. e = Deeper(Len(p), part)
      BY <1>1, <2>1
    <3> QED
      BY <1>1, <2>1, <3>1, NormalBelow
  <2> QED
    BY <2>2, <2>3 DEF Below, Above, q, e
<1>3. CASE Above(rooted, name, k - 1)
  <2>1. p \in Seq(Part) /\ p # <<>> /\ p[1] = ".."
    BY <1>3 DEF Above
  <2>2. \E n \in 1 .. k : Depth(name, n) \in Int /\ Depth(name, n) < 0
    BY <1>3 DEF Above
  <2> HIDE DEF p, d, q, e, part
  <2>3. q \in Seq(Part) /\ q # <<>> /\ q[1] = ".."
    BY <1>1, <2>1, NormalAbove
  <2> QED
    BY <2>2, <2>3 DEF Above, q
<1> QED
  BY <1>2, <1>3

\* A relative name leads above the start exactly if its normal form begins with "..".
LEMMA AboveTheStart ==
  ASSUME NEW rooted, ~rooted, NEW name \in Seq(Part)
  PROVE  (\E n \in 1 .. Len(name) : Depth(name, n) < 0)
           <=> LET path == Path(rooted, name, Len(name))
               IN path # <<>> /\ Head(path) = ".."
<1> DEFINE T == {k \in 0 .. Len(name) : Below(rooted, name, k) \/ Above(rooted, name, k)}
           path == Path(rooted, name, Len(name))
<1>0. Len(name) \in Nat
  OBVIOUS
<1>1. 0 \in T
  <2> DEFINE R == Part \ {".."}
  <2>1. Path(rooted, name, 0) = <<>> /\ Depth(name, 0) = 0
    BY PathTurns
  <2>2. <<>> \in Seq(R) /\ Len(<<>>) = 0
    OBVIOUS
  <2> HIDE DEF R
  <2>3. /\ \A n \in 0 .. 0 : Depth(name, n) \in Nat
        /\ Path(rooted, name, 0) \in Seq(R) /\ Len(Path(rooted, name, 0)) = Depth(name, 0)
    <3>1. \A n \in 0 .. 0 : Depth(name, n) \in Nat
      BY <2>1
    <3>2. Path(rooted, name, 0) \in Seq(R)
      BY <2>1, <2>2
    <3>3. Len(Path(rooted, name, 0)) = Depth(name, 0)
      BY <2>1, <2>2, Zenon
    <3> QED
      BY <3>1, <3>2, <3>3
  <2>4. Below(rooted, name, 0)
    BY <2>3 DEF Below, R
  <2> QED
    BY <1>0, <2>4
<1>2. \A k \in 1 .. Len(name) : k - 1 \in T => k \in T
  BY StepOfPath
<1>3. Len(name) \in T
  <2> HIDE DEF T
  <2>1. \A k \in 0 .. Len(name) : k \in T
    BY <1>0, <1>1, <1>2, Norms!UpTo
  <2> QED
    BY <1>0, <2>1
<1>4. CASE Below(rooted, name, Len(name))
  <2>1. path \in Seq(Part \ {".."}) /\ \A n \in 1 .. Len(name) : Depth(name, n) \in Nat
    BY <1>4 DEF Below
  <2>2. path # <<>> => Head(path) # ".."
    <3> HIDE DEF path
    <3> QED
      BY <2>1
  <2> QED
    BY <2>1, <2>2
<1>5. CASE Above(rooted, name, Len(name))
  <2>1. /\ path \in Seq(Part) /\ path # <<>> /\ path[1] = ".."
        /\ \E n \in 1 .. Len(name) : Depth(name, n) < 0
    BY <1>5 DEF Above
  <2> HIDE DEF path
  <2>2. Head(path) = ".."
    BY <2>1
  <2> QED
    BY <2>1, <2>2 DEF path
<1> QED
  BY <1>3, <1>4, <1>5

\* The two tests for a name that leaves the archive agree: _link_escapes, which
\* normalises, and _is_traversing, which counts, for targets of any length.
THEOREM EscapesAgree == Spec => []EscapeAgrees
<1>1. Picked => EscapeAgrees
  <2> SUFFICES ASSUME about = "link", NEW member \in Seq(Part) \ {<<>>},
                      NEW target \in Seq(Part) \ {<<>>},
                      input[1] = member, input[2] = target
               PROVE  EscapeAgrees
    BY LinkInputAssumption DEF Picked, EscapeAgrees, Part
  <2> DEFINE joined == Front(member) \o target
             rooted == Head(joined) = Empty
             resolved == FoldLeft(LAMBDA path, part : Normal(rooted, path, part), <<>>, joined)
  <2>1. LinkEscapes(member, target) <=>
          target # <<Empty>> /\ (Absolute(target) \/ (resolved # <<>> /\ Head(resolved) = ".."))
    BY DEF LinkEscapes
  <2> HIDE DEF resolved, rooted
  <2>2. ASSUME Absolute(target) PROVE LinkEscapes(member, target)
    <3>1. target # <<Empty>>
      <4> SUFFICES ASSUME target = <<Empty>> PROVE FALSE
        OBVIOUS
      <4>1. Len(target) = 1 /\ target[1] = Empty
        OBVIOUS
      <4> QED
        BY <2>2, <4>1, EmptyApart DEF Absolute
    <3> QED
      BY <2>1, <2>2, <3>1
  <2>3. ASSUME ~Absolute(target), ~Absolute(member), target # <<Empty>>
        PROVE  LinkEscapes(member, target) <=> IsTraversing(joined)
    <3>1. /\ Len(member) \in Nat /\ Len(member) >= 1 /\ Len(target) \in Nat /\ Len(target) >= 1
      OBVIOUS
    <3>2. /\ Front(member) \in Seq(Part) /\ Len(Front(member)) = Len(member) - 1
          /\ \A i \in 1 .. Len(member) - 1 : Front(member)[i] = member[i]
      BY <3>1, FrontOf
    <3>3. /\ joined \in Seq(Part) /\ Len(joined) >= 1
          /\ joined[1] = IF Len(member) = 1 THEN target[1] ELSE member[1]
      BY <3>1, <3>2
    <3> HIDE DEF joined
    <3>4. joined[1] # Empty /\ joined[1] # "C:"
      <4>1. CASE Len(member) = 1
        <5>1. Len(target) = 1 => target[1] # Empty
          <6>1. Len(target) = 1 => target = <<target[1]>>
            OBVIOUS
          <6> QED
            BY <2>3, <6>1
        <5> QED
          BY <2>3, <3>1, <3>3, <4>1, <5>1 DEF Absolute
      <4>2. CASE Len(member) > 1
        BY <2>3, <3>3, <4>2 DEF Absolute
      <4> QED
        BY <3>1, <4>1, <4>2
    <3>5. ~Absolute(joined) /\ ~rooted
      BY <3>3, <3>4 DEF Absolute, rooted
    <3>6. resolved = Path(rooted, joined, Len(joined))
      <4>1. resolved = Norms!Run(rooted, <<>>, joined)
        BY NormRuns DEF resolved
      <4> QED
        BY <3>3, <4>1, Norms!Finish DEF Path
    <3>7. \A n \in 1 .. Len(joined) : FoldLeft(Deeper, 0, SubSeq(joined, 1, n)) = Depth(joined, n)
      BY DepthRuns DEF Depth
    <3>8. IsTraversing(joined) <=> \E n \in 1 .. Len(joined) : Depth(joined, n) < 0
      BY <3>5, <3>7 DEF IsTraversing
    <3> QED
      BY <2>1, <2>3, <3>3, <3>5, <3>6, <3>8, AboveTheStart
  <2> QED
    BY <2>2, <2>3 DEF EscapeAgrees, joined
<1> QED
  BY <1>1, PickedFromInputs, PTL
-----------------------------------------------------------------------------
(* scan.scan_todos                                                          *)

\* What is in a sequence after an element or another sequence is put behind it.
LEMMA RangeAppend ==
  ASSUME NEW S, NEW s \in Seq(S), NEW x
  PROVE  Range(Append(s, x)) = Range(s) \cup {x}
<1>1. /\ DOMAIN s = 1 .. Len(s) /\ DOMAIN Append(s, x) = 1 .. Len(s) + 1
      /\ \A i \in 1 .. Len(s) : Append(s, x)[i] = s[i]
      /\ Append(s, x)[Len(s) + 1] = x /\ Len(s) \in Nat
  OBVIOUS
<1> QED
  BY <1>1 DEF Range

\* The elements of two sequences joined.
LEMMA RangeJoined ==
  ASSUME NEW S, NEW s \in Seq(S), NEW t \in Seq(S)
  PROVE  Range(s \o t) = Range(s) \cup Range(t)
<1> DEFINE st == s \o t
<1>1. /\ DOMAIN s = 1 .. Len(s) /\ DOMAIN t = 1 .. Len(t) /\ DOMAIN st = 1 .. Len(s) + Len(t)
      /\ \A i \in 1 .. Len(s) : st[i] = s[i]
      /\ \A i \in 1 .. Len(t) : st[Len(s) + i] = t[i]
      /\ Len(s) \in Nat /\ Len(t) \in Nat
  OBVIOUS
<1> HIDE DEF st
<1>2. \A x \in Range(st) : x \in Range(s) \cup Range(t)
  <2> TAKE x \in Range(st)
  <2>1. PICK i \in 1 .. Len(s) + Len(t) : x = st[i]
    BY <1>1 DEF Range
  <2>2. CASE i <= Len(s)
    BY <1>1, <2>1, <2>2 DEF Range
  <2>3. CASE i > Len(s)
    <3>1. i - Len(s) \in 1 .. Len(t) /\ Len(s) + (i - Len(s)) = i
      BY <1>1, <2>3
    <3> QED
      BY <1>1, <2>1, <3>1 DEF Range
  <2> QED
    BY <1>1, <2>2, <2>3
<1>3. \A x \in Range(s) : x \in Range(st)
  BY <1>1 DEF Range
<1>4. \A x \in Range(t) : x \in Range(st)
  <2> TAKE x \in Range(t)
  <2>1. PICK i \in 1 .. Len(t) : x = t[i]
    BY <1>1 DEF Range
  <2>2. Len(s) + i \in 1 .. Len(s) + Len(t) /\ st[Len(s) + i] = x
    BY <1>1, <2>1
  <2> QED
    BY <1>1, <2>2 DEF Range
<1> QED
  BY <1>2, <1>3, <1>4 DEF st

TodoTurn(row, file, i) == TodoLine(row.path, file, i, row.lines[i])
TodoLines == INSTANCE Loops WITH Op <- TodoTurn

RowTurn(c, result, row) == TodoRow(result, row)
TodoRows == INSTANCE Loops WITH Op <- RowTurn

Numbers(seq) == [i \in DOMAIN seq |-> i]

\* The numbers of the elements of a sequence.
LEMMA NumbersOf ==
  ASSUME NEW S, NEW seq \in Seq(S)
  PROVE  /\ Numbers(seq) \in Seq(Nat) /\ Len(Numbers(seq)) = Len(seq)
         /\ \A i \in 1 .. Len(seq) : Numbers(seq)[i] = i
BY DEF Numbers

\* scan_todos goes over the lines of a file in a loop.
LEMMA TodoFileRuns ==
  ASSUME NEW row
  PROVE  TodoFile(row) = TodoLines!Run(row, Started, Numbers(row.lines))
BY DEF TodoFile, TodoLines!Run, TodoTurn, FoldLeftDomain, FoldLeft, MapThenFoldSet, Max, TodoLines!Max, Numbers

\* scan_todos goes over the rows in a loop.
LEMMA ScanTodosRuns ==
  ASSUME NEW rows
  PROVE  ScanTodos(rows) = TodoRows!Run(0, [findings |-> <<>>, skipped |-> {}], rows)
BY DEF ScanTodos, TodoRows!Run, RowTurn, FoldLeft, MapThenFoldSet, Max, TodoRows!Max

\* The findings that a row can give, and whether a scan has told of its first lines.
Finding(row, i) == [path |-> row.path, line |-> i, marker |-> FirstMarker(row.lines[i])]
Marked(row) == {i \in DOMAIN row.lines : row.lines[i] # {}}
Findings(row) == {Finding(row, i) : i \in Marked(row)}

FileTold(row, file, k) ==
  /\ file = [found |-> file.found, capped |-> file.capped]
  /\ file.capped \in BOOLEAN /\ file.found \in Seq(Findings(row))
  /\ ~file.capped => \A i \in 1 .. k : i \in Marked(row) => Finding(row, i) \in Range(file.found)

\* One line more of a file: its marker is a finding, or the cap is met.
LEMMA LineTold ==
  ASSUME NEW row, row.lines \in Seq(SUBSET Nat), NEW k \in 1 .. Len(row.lines),
         NEW file, FileTold(row, file, k - 1)
  PROVE  FileTold(row, TodoLine(row.path, file, k, row.lines[k]), k)
<1> SUFFICES ASSUME NEW next, next = TodoLine(row.path, file, k, row.lines[k])
             PROVE  FileTold(row, next, k)
  OBVIOUS
<1>1. /\ k \in DOMAIN row.lines /\ Len(file.found) \in Nat /\ MaxMatches \in Nat
      /\ file = [found |-> file.found, capped |-> file.capped]
      /\ file.capped \in BOOLEAN /\ file.found \in Seq(Findings(row))
      /\ \A i \in 1 .. k : i \in 1 .. k - 1 \/ i = k
  BY ScansAssumption DEF FileTold
<1>2. CASE file.capped
  <2>1. next = file
    BY <1>2 DEF TodoLine
  <2> QED
    BY <1>1, <1>2, <2>1 DEF FileTold
<1>3. CASE ~file.capped /\ Len(file.found) >= MaxMatches
  <2>1. next = [file EXCEPT !.capped = TRUE]
    BY <1>1, <1>3 DEF TodoLine
  <2>2. next.found = file.found /\ next.capped = TRUE /\ next = [found |-> file.found, capped |-> TRUE]
    BY <1>1, <2>1
  <2> QED
    BY <1>1, <2>2 DEF FileTold
<1>4. CASE ~file.capped /\ Len(file.found) < MaxMatches /\ row.lines[k] = {}
  <2>1. next = file
    BY <1>1, <1>4 DEF TodoLine
  <2>2. k \notin Marked(row)
    BY <1>4 DEF Marked
  <2> QED
    BY <1>1, <2>1, <2>2 DEF FileTold
<1>5. CASE ~file.capped /\ Len(file.found) < MaxMatches /\ row.lines[k] # {}
  <2>1. next = [file EXCEPT !.found = Append(@, Finding(row, k))]
    BY <1>1, <1>5 DEF TodoLine, Finding
  <2>2. /\ next.found = Append(file.found, Finding(row, k)) /\ next.capped = file.capped
        /\ next = [found |-> next.found, capped |-> next.capped]
    BY <1>1, <2>1
  <2>3. k \in Marked(row) /\ Finding(row, k) \in Findings(row)
    BY <1>1, <1>5 DEF Marked, Findings
  <2>4. next.found \in Seq(Findings(row)) /\ Range(next.found) = Range(file.found) \cup {Finding(row, k)}
    BY <1>1, <2>2, <2>3, RangeAppend
  <2> QED
    BY <1>1, <1>5, <2>2, <2>4 DEF FileTold
<1> QED
  BY <1>1, <1>2, <1>3, <1>4, <1>5

\* All lines of a file.
LEMMA FileAlwaysTold ==
  ASSUME NEW row, row.lines \in Seq(SUBSET Nat)
  PROVE  FileTold(row, TodoFile(row), Len(row.lines))
<1> DEFINE n == Len(row.lines)
           ns == Numbers(row.lines)
           After(k) == TodoLines!Run(row, Started, SubSeq(ns, 1, k))
           T == {k \in 0 .. n : FileTold(row, After(k), k)}
<1>1. n \in Nat /\ ns \in Seq(Nat) /\ Len(ns) = n /\ \A i \in 1 .. n : ns[i] = i
  <2> HIDE DEF After, T
  <2>1. n \in Nat
    OBVIOUS
  <2> QED
    BY <2>1, NumbersOf
<1> HIDE DEF ns
<1>2. After(0) = Started
  BY <1>1, TodoLines!Start
<1>3. ASSUME NEW k \in 1 .. n PROVE After(k) = TodoLine(row.path, After(k - 1), k, row.lines[k])
  <2>1. After(k) = TodoTurn(row, After(k - 1), ns[k])
    BY <1>1, TodoLines!Turn
  <2> HIDE DEF After
  <2> QED
    BY <1>1, <2>1 DEF TodoTurn
<1>4. TodoFile(row) = After(n)
  BY <1>1, TodoFileRuns, TodoLines!Finish DEF ns
<1> HIDE DEF After
<1>5. 0 \in T
  <2>1. <<>> \in Seq(Findings(row)) /\ \A i \in 1 .. 0 : FALSE
    OBVIOUS
  <2>2. FileTold(row, Started, 0)
    BY <2>1 DEF FileTold, Started
  <2> QED
    BY <1>1, <1>2, <2>2
<1>6. \A k \in 1 .. n : k - 1 \in T => k \in T
  BY <1>1, <1>3, LineTold
<1> HIDE DEF T
<1>7. n \in T
  <2> HIDE DEF n
  <2>1. \A k \in 0 .. n : k \in T
    BY <1>1, <1>5, <1>6, TodoLines!UpTo
  <2> QED
    BY <1>1, <2>1
<1> QED
  BY <1>4, <1>7 DEF T

\* What scan_todos has after some rows.
RowTold(row, result) ==
  row.status # "other" => \A i \in Marked(row) :
    row.path \in result.skipped \/ Finding(row, i) \in Range(result.findings)
Possible(rows) == UNION {Findings(r) : r \in {q \in ToSet(rows) : q.status = "open"}}
RowsTold(rows, result, k) ==
  /\ result = [findings |-> result.findings, skipped |-> result.skipped]
  /\ result.findings \in Seq(Possible(rows))
  /\ \A j \in 1 .. k : RowTold(rows[j], result)

\* One row more: its findings are added, or it is among the skipped.
LEMMA NextRowTold ==
  ASSUME NEW rows \in TodoInputs, NEW k \in 1 .. Len(rows),
         NEW result, RowsTold(rows, result, k - 1)
  PROVE  RowsTold(rows, TodoRow(result, rows[k]), k)
<1> DEFINE row == rows[k]
<1> SUFFICES ASSUME NEW next, next = TodoRow(result, row)
             PROVE  RowsTold(rows, next, k)
  OBVIOUS
<1>1. /\ row \in ToSet(rows) /\ row.status \in {"other", "large", "unreadable", "open"}
      /\ row.lines \in Seq(SUBSET Nat)
      /\ \A j \in 1 .. k : j \in 1 .. k - 1 \/ j = k
  <2>1. rows \in Seq(ToSet(rows))
    BY TodoInputAssumption
  <2>2. row \in ToSet(rows)
    BY <2>1
  <2> QED
    BY <2>2, TodoInputAssumption
<1>2. /\ result = [findings |-> result.findings, skipped |-> result.skipped]
      /\ result.findings \in Seq(Possible(rows))
      /\ \A j \in 1 .. k - 1 : RowTold(rows[j], result)
  BY DEF RowsTold
<1> HIDE DEF row
<1>3. CASE row.status = "other"
  <2>1. next = result /\ RowTold(row, result)
    BY <1>3 DEF TodoRow, RowTold
  <2> QED
    BY <1>1, <1>2, <2>1 DEF RowsTold, row
<1>4. CASE row.status \in {"large", "unreadable"}
  <2>1. next = [result EXCEPT !.skipped = @ \cup {row.path}]
    BY <1>4 DEF TodoRow
  <2>2. next = [findings |-> result.findings, skipped |-> result.skipped \cup {row.path}]
    BY <1>2, <2>1
  <2>3. RowTold(row, next) /\ \A j \in 1 .. k - 1 : RowTold(rows[j], next)
    BY <1>2, <2>2 DEF RowTold
  <2>4. \A j \in 1 .. k : RowTold(rows[j], next)
    BY <1>1, <2>3 DEF row
  <2>5. /\ next = [findings |-> next.findings, skipped |-> next.skipped]
        /\ next.findings = result.findings
    BY <2>2
  <2> QED
    BY <1>2, <2>4, <2>5 DEF RowsTold
<1>5. CASE row.status = "open"
  <2> DEFINE file == TodoFile(row)
             more == IF file.capped THEN {row.path} ELSE {}
  <2>1. next = [findings |-> result.findings \o file.found, skipped |-> result.skipped \cup more]
    BY <1>5 DEF TodoRow
  <2>2. FileTold(row, file, Len(row.lines))
    BY <1>1, FileAlwaysTold
  <2> HIDE DEF file
  <2>3. file.found \in Seq(Findings(row)) /\ Findings(row) \subseteq Possible(rows)
    BY <1>1, <1>5, <2>2 DEF FileTold, Possible
  <2>4. file.found \in Seq(Possible(rows))
    BY <2>3
  <2>5. /\ result.findings \o file.found \in Seq(Possible(rows))
        /\ Range(result.findings \o file.found) = Range(result.findings) \cup Range(file.found)
    BY <1>2, <2>4, RangeJoined
  <2>0. /\ next = [findings |-> next.findings, skipped |-> next.skipped]
        /\ next.findings = result.findings \o file.found
        /\ next.skipped = result.skipped \cup more
    <3> DEFINE fs == result.findings \o file.found
               ss == result.skipped \cup more
    <3>1. next = [findings |-> fs, skipped |-> ss]
      BY <2>1
    <3> HIDE DEF fs, ss
    <3>2. /\ next = [findings |-> next.findings, skipped |-> next.skipped]
          /\ next.findings = fs /\ next.skipped = ss
      BY <3>1
    <3> QED
      BY <3>2 DEF fs, ss
  <2> HIDE DEF more
  <2>6. \A j \in 1 .. k - 1 : RowTold(rows[j], next)
    <3>1. Range(result.findings) \subseteq Range(next.findings) /\ result.skipped \subseteq next.skipped
      BY <2>0, <2>5
    <3> QED
      BY <1>2, <3>1 DEF RowTold
  <2>7. RowTold(row, next)
    <3> SUFFICES ASSUME NEW i \in Marked(row), row.path \notin next.skipped
                 PROVE  Finding(row, i) \in Range(next.findings)
      BY DEF RowTold
    <3>1. ~file.capped
      BY <2>0 DEF more
    <3>2. i \in 1 .. Len(row.lines)
      BY <1>1 DEF Marked
    <3> QED
      BY <2>0, <2>2, <2>5, <3>1, <3>2 DEF FileTold
  <2>8. \A j \in 1 .. k : RowTold(rows[j], next)
    BY <1>1, <2>6, <2>7 DEF row
  <2> QED
    BY <2>0, <2>5, <2>8 DEF RowsTold
<1> QED
  BY <1>1, <1>3, <1>4, <1>5

\* All rows.
LEMMA RowsAlwaysTold ==
  ASSUME NEW rows \in TodoInputs
  PROVE  RowsTold(rows, ScanTodos(rows), Len(rows))
<1> DEFINE n == Len(rows)
           S == ToSet(rows)
           none == [findings |-> <<>>, skipped |-> {}]
           After(k) == TodoRows!Run(0, none, SubSeq(rows, 1, k))
           T == {k \in 0 .. n : RowsTold(rows, After(k), k)}
<1>1. rows \in Seq(S) /\ n \in Nat
  BY TodoInputAssumption
<1> HIDE DEF S
<1>2. After(0) = none
  <2> HIDE DEF none
  <2> QED
    BY <1>1, TodoRows!Start
<1>3. ASSUME NEW k \in 1 .. n PROVE After(k) = TodoRow(After(k - 1), rows[k])
  <2>1. After(k) = RowTurn(0, After(k - 1), rows[k])
    <3> HIDE DEF none
    <3> QED
      BY <1>1, TodoRows!Turn
  <2> HIDE DEF After
  <2> QED
    BY <2>1 DEF RowTurn
<1>4. ScanTodos(rows) = After(n)
  <2>1. ScanTodos(rows) = TodoRows!Run(0, none, rows)
    BY ScanTodosRuns
  <2> HIDE DEF none
  <2> QED
    BY <1>1, <2>1, TodoRows!Finish
<1> HIDE DEF After
<1>5. 0 \in T
  <2>1. <<>> \in Seq(Possible(rows)) /\ \A i \in 1 .. 0 : FALSE
    OBVIOUS
  <2>2. RowsTold(rows, none, 0)
    BY <2>1 DEF RowsTold
  <2> HIDE DEF none
  <2> QED
    BY <1>1, <1>2, <2>2
<1>6. \A k \in 1 .. n : k - 1 \in T => k \in T
  BY <1>1, <1>3, NextRowTold
<1> HIDE DEF T
<1>7. n \in T
  <2> HIDE DEF n
  <2>1. \A k \in 0 .. n : k \in T
    BY <1>1, <1>5, <1>6, TodoRows!UpTo
  <2> QED
    BY <1>1, <2>1
<1> QED
  BY <1>4, <1>7 DEF T

\* scan_todos loses no marked line of a text file in silence and invents no finding,
\* for rows of any number, lines of any number and any set of markers.
THEOREM TodosAlwaysTold == Spec => []TodosTold
<1>1. Picked => TodosTold
  <2> SUFFICES ASSUME about = "todos", input \in TodoInputs PROVE TodosTold
    BY DEF Picked, TodosTold
  <2> DEFINE result == ScanTodos(input)
  <2>1. RowsTold(input, result, Len(input))
    BY RowsAlwaysTold
  <2>2. input \in Seq(ToSet(input)) /\ ToSet(input) = Range(input)
    BY TodoInputAssumption DEF ToSet, Range
  <2>3. \A r \in Range(input) : RowTold(r, result) /\ r.lines \in Seq(SUBSET Nat)
    <3> TAKE r \in Range(input)
    <3>1. PICK j \in 1 .. Len(input) : r = input[j]
      BY <2>2 DEF Range
    <3>2. r \in ToSet(input)
      BY <2>2
    <3> QED
      BY <2>1, <3>1, <3>2, TodoInputAssumption DEF RowsTold
  <2>4. result.findings \in Seq(Possible(input))
    BY <2>1 DEF RowsTold
  <2> HIDE DEF result
  <2>5. \A r \in Range(input) : r.status # "other" => \A i \in DOMAIN r.lines :
            r.lines[i] # {} =>
              \/ r.path \in result.skipped
              \/ \E f \in Range(result.findings) : f.path = r.path /\ f.line = i
    <3> SUFFICES ASSUME NEW r \in Range(input), r.status # "other", NEW i \in DOMAIN r.lines,
                        r.lines[i] # {}, r.path \notin result.skipped
                 PROVE  \E f \in Range(result.findings) : f.path = r.path /\ f.line = i
      OBVIOUS
    <3>1. Finding(r, i) \in Range(result.findings)
      BY <2>3 DEF RowTold, Marked
    <3>2. Finding(r, i).path = r.path /\ Finding(r, i).line = i
      BY DEF Finding
    <3> QED
      BY <3>1, <3>2
  <2>6. \A f \in Range(result.findings) : \E r \in Range(input) :
            /\ f.path = r.path /\ r.status = "open" /\ f.line \in DOMAIN r.lines
            /\ f.marker \in r.lines[f.line]
            /\ \A m \in r.lines[f.line] : f.marker <= m
    <3> TAKE f \in Range(result.findings)
    <3>1. f \in Possible(input)
      BY <2>4 DEF Range
    <3>2. PICK r \in ToSet(input) : r.status = "open" /\ f \in Findings(r)
      BY <3>1 DEF Possible
    <3>3. PICK i \in DOMAIN r.lines : r.lines[i] # {} /\ f = Finding(r, i)
      BY <3>2 DEF Findings, Marked
    <3>4. /\ f.path = r.path /\ f.line = i /\ f.marker = FirstMarker(r.lines[i])
      BY <3>3 DEF Finding
    <3>5. r.lines[i] \in SUBSET Nat
      BY <2>2, <2>3, <3>2, <3>3
    <3> DEFINE line == r.lines[i]
    <3>6. FirstMarker(line) \in line /\ \A m \in line : FirstMarker(line) <= m
      <4>1. line \in SUBSET Nat /\ line # {}
        BY <3>3, <3>5
      <4> HIDE DEF line
      <4>2. \E m \in line : \A o \in line : m <= o
        BY <4>1, TodoRows!Least
      <4> QED
        BY <4>2 DEF FirstMarker
    <3> QED
      BY <2>2, <3>2, <3>3, <3>4, <3>6
  <2> QED
    BY <2>5, <2>6 DEF TodosTold, result
<1> QED
  BY <1>1, PickedFromInputs, PTL
-----------------------------------------------------------------------------
(* scan.scan_secrets                                                        *)

SecretTurn(row, s, i) == SecretLine(row.path, s, i, row.lines[i])
SecretLines == INSTANCE Loops WITH Op <- SecretTurn

SecretRowTurn(c, s, row) == SecretRow(s, row)
SecretRows == INSTANCE Loops WITH Op <- SecretRowTurn

\* scan_secrets goes over the lines of an open file in a loop.
LEMMA SecretRowRuns ==
  ASSUME NEW s, NEW row, row.status = "open"
  PROVE  SecretRow(s, row) = SecretLines!Run(row, [s EXCEPT !.matches = 0], Numbers(row.lines))
BY DEF SecretRow, SecretLines!Run, SecretTurn, FoldLeftDomain, FoldLeft, MapThenFoldSet, Max,
       SecretLines!Max, Numbers

Unscanned == [matches |-> 0, seen |-> {}, findings |-> <<>>]

\* scan_secrets goes over the rows in a loop.
LEMMA ScanSecretsRuns ==
  ASSUME NEW rows
  PROVE  LET scan == SecretRows!Run(0, Unscanned, rows)
         IN ScanSecrets(rows) = [findings |-> scan.findings, distinct |-> Cardinality(scan.seen)]
BY DEF ScanSecrets, SecretRows!Run, SecretRowTurn, Unscanned, FoldLeft, MapThenFoldSet, Max,
       SecretRows!Max

\* The findings that a row can give.
Noted(row) == {[path |-> row.path, line |-> i, secret |-> SecretOf(row.lines[i]), duplicate |-> d] :
                 i \in DOMAIN row.lines, d \in BOOLEAN}

\* `seen` has the secrets of the findings so far, and as many as there are findings
\* without the mark.
Fresh(findings) == {k \in DOMAIN findings : ~findings[k].duplicate}
SeenWell(S, scan) ==
  /\ scan = [matches |-> scan.matches, seen |-> scan.seen, findings |-> scan.findings]
  /\ scan.findings \in Seq(S)
  /\ scan.seen = {scan.findings[k].secret : k \in DOMAIN scan.findings}
  /\ \A k \in DOMAIN scan.findings :
       scan.findings[k].duplicate <=>
         \E j \in 1 .. k - 1 : scan.findings[j].secret = scan.findings[k].secret
  /\ IsFiniteSet(scan.seen) /\ IsFiniteSet(Fresh(scan.findings))
  /\ Cardinality(scan.seen) = Cardinality(Fresh(scan.findings))

\* One finding more leaves the marks of duplicates right.
LEMMA SeenOneMore ==
  ASSUME NEW S, NEW scan, SeenWell(S, scan), NEW secret,
         NEW f \in S, f.secret = secret, f.duplicate <=> secret \in scan.seen,
         NEW next, next = [matches |-> next.matches, seen |-> scan.seen \cup {secret},
                           findings |-> Append(scan.findings, f)]
  PROVE  SeenWell(S, next)
<1> DEFINE old == scan.findings
           n == Len(old)
           new == next.findings
<1>1. /\ old \in Seq(S) /\ n \in Nat /\ DOMAIN old = 1 .. n
      /\ scan.seen = {old[k].secret : k \in 1 .. n}
      /\ \A k \in 1 .. n :
           old[k].duplicate <=> \E j \in 1 .. k - 1 : old[j].secret = old[k].secret
      /\ IsFiniteSet(scan.seen) /\ IsFiniteSet(Fresh(old))
      /\ Cardinality(scan.seen) = Cardinality(Fresh(old))
  BY DEF SeenWell
<1>2. new = Append(old, f) /\ next.seen = scan.seen \cup {secret}
  OBVIOUS
<1>3. /\ new \in Seq(S) /\ DOMAIN new = 1 .. n + 1 /\ new[n + 1] = f
      /\ \A k \in 1 .. n : new[k] = old[k]
  BY <1>1, <1>2
<1>4. f.secret = secret /\ (f.duplicate <=> secret \in scan.seen)
  OBVIOUS
<1>5. next = [matches |-> next.matches, seen |-> next.seen, findings |-> new]
  BY <1>2
<1> HIDE DEF new, old, n
<1>6. next.seen = {new[k].secret : k \in DOMAIN new}
  <2> DEFINE seen == next.seen
  <2>0. n + 1 \in 1 .. n + 1 /\ \A k \in 1 .. n + 1 : k \in 1 .. n \/ k = n + 1
    BY <1>1
  <2>1. ASSUME NEW x \in seen
        PROVE  \E k \in 1 .. n + 1 : x = new[k].secret
    <3>1. CASE x = secret
      BY <1>3, <1>4, <2>0, <3>1
    <3>2. CASE x \in scan.seen
      <4>1. PICK k \in 1 .. n : x = old[k].secret
        BY <1>1, <3>2
      <4>2. k \in 1 .. n + 1 /\ new[k] = old[k]
        BY <1>1, <1>3
      <4> QED
        BY <4>1, <4>2
    <3> QED
      BY <1>2, <2>1, <3>1, <3>2
  <2>2. ASSUME NEW k \in 1 .. n + 1
        PROVE  new[k].secret \in seen
    <3>1. CASE k = n + 1
      BY <1>2, <1>3, <1>4, <3>1
    <3>2. CASE k \in 1 .. n
      <4>1. new[k].secret = old[k].secret
        BY <1>3, <3>2
      <4>2. old[k].secret \in scan.seen
        BY <1>1, <3>2
      <4> QED
        BY <1>2, <4>1, <4>2
    <3> QED
      BY <2>0, <2>2, <3>1, <3>2
  <2>3. DOMAIN new = 1 .. n + 1
    BY <1>3
  <2> HIDE DEF seen
  <2>4. seen = {new[k].secret : k \in DOMAIN new}
    BY <2>1, <2>2, <2>3
  <2> QED
    BY <2>4 DEF seen
<1>7. \A k \in DOMAIN new :
        new[k].duplicate <=> \E j \in 1 .. k - 1 : new[j].secret = new[k].secret
  <2> TAKE k \in DOMAIN new
  <2>1. CASE k \in 1 .. n
    <3>1. \A j \in 1 .. k - 1 : new[j] = old[j]
      BY <1>1, <1>3, <2>1
    <3>2. new[k] = old[k]
      BY <1>3, <2>1
    <3>3. old[k].duplicate <=> \E j \in 1 .. k - 1 : old[j].secret = old[k].secret
      BY <1>1, <2>1
    <3> HIDE <1>1
    <3> QED
      BY <3>1, <3>2, <3>3
  <2>2. CASE k = n + 1
    <3>1. secret \in scan.seen <=> \E j \in 1 .. n : old[j].secret = secret
      BY <1>1
    <3>2. k - 1 = n
      BY <1>1, <2>2
    <3> QED
      BY <1>1, <1>3, <1>4, <2>2, <3>1, <3>2
  <2> QED
    BY <1>1, <1>3, <2>1, <2>2
<1>8. /\ IsFiniteSet(next.seen) /\ IsFiniteSet(Fresh(new))
      /\ Cardinality(next.seen) = Cardinality(Fresh(new))
  <2>1. n + 1 \notin Fresh(old)
    BY <1>1 DEF Fresh
  <2>2. CASE secret \in scan.seen
    <3>1. next.seen = scan.seen
      BY <1>2, <2>2
    <3>2. Fresh(new) = Fresh(old)
      BY <1>1, <1>3, <1>4, <2>2 DEF Fresh
    <3> QED
      BY <1>1, <3>1, <3>2
  <2>3. CASE secret \notin scan.seen
    <3>1. Fresh(new) = Fresh(old) \cup {n + 1}
      BY <1>1, <1>3, <1>4, <2>3 DEF Fresh
    <3>2. /\ IsFiniteSet(next.seen) /\ Cardinality(next.seen) = Cardinality(scan.seen) + 1
      <4> DEFINE seen == scan.seen
      <4>1. IsFiniteSet(seen) /\ secret \notin seen
        BY <1>1, <2>3
      <4>2. next.seen = seen \cup {secret}
        BY <1>2
      <4> HIDE DEF seen
      <4>3. IsFiniteSet(seen \cup {secret}) /\ Cardinality(seen \cup {secret}) = Cardinality(seen) + 1
        BY <4>1, FS_AddElement
      <4> QED
        BY <4>2, <4>3 DEF seen
    <3>3. /\ IsFiniteSet(Fresh(new)) /\ Cardinality(Fresh(new)) = Cardinality(Fresh(old)) + 1
      <4> DEFINE fresh == Fresh(old)
                 place == n + 1
      <4>1. IsFiniteSet(fresh) /\ place \notin fresh
        BY <1>1, <2>1
      <4>2. Fresh(new) = fresh \cup {place}
        BY <3>1
      <4> HIDE DEF fresh, place
      <4>3. IsFiniteSet(fresh \cup {place}) /\ Cardinality(fresh \cup {place}) = Cardinality(fresh) + 1
        BY <4>1, FS_AddElement
      <4> QED
        BY <4>2, <4>3 DEF fresh
    <3> QED
      BY <1>1, <3>2, <3>3
  <2> QED
    BY <2>2, <2>3
<1> QED
  BY <1>3, <1>5, <1>6, <1>7, <1>8 DEF SeenWell, new

\* The lines of a row with a secret, and those that are taken from the first i.
Secrets(row) == {i \in DOMAIN row.lines : SecretOf(row.lines[i]).rule # None}
LinesBefore(row, i) == {h \in Secrets(row) : h < i}
Taken(row, i) == {j \in Secrets(row) : j <= i /\ Cardinality(LinesBefore(row, j)) < MaxMatches}

\* What a scan that came to a row with `first` findings has after i of its lines.
LinesRead(S, row, base, scan, i) ==
  LET m == Cardinality(LinesBefore(row, i + 1))
      first == Len(base.findings)
      New == first + 1 .. Len(scan.findings)
  IN /\ SeenWell(S, scan)
     /\ scan.matches = IF m < MaxMatches THEN m ELSE MaxMatches
     /\ first <= Len(scan.findings)
     /\ \A k \in 1 .. first : scan.findings[k] = base.findings[k]
     /\ \A k \in New : scan.findings[k].path = row.path
     /\ {scan.findings[k].line : k \in New} = Taken(row, i)
     /\ \A j, k \in New : j < k => scan.findings[j].line < scan.findings[k].line

\* One line more of a file: its candidate is a finding unless the cap is met.
LEMMA NextLineRead ==
  ASSUME NEW S, NEW row, NEW L, row.lines \in Seq(L), Noted(row) \subseteq S,
         NEW base, Len(base.findings) \in Nat, NEW i \in 1 .. Len(row.lines),
         NEW scan, LinesRead(S, row, base, scan, i - 1)
  PROVE  LinesRead(S, row, base, SecretLine(row.path, scan, i, row.lines[i]), i)
<1> DEFINE secret == SecretOf(row.lines[i])
           m == Cardinality(LinesBefore(row, i))
           first == Len(base.findings)
           old == scan.findings
<1> SUFFICES ASSUME NEW next, next = SecretLine(row.path, scan, i, row.lines[i])
             PROVE  LinesRead(S, row, base, next, i)
  OBVIOUS
<1>1. /\ i - 1 + 1 = i /\ i \in DOMAIN row.lines /\ i \in Nat
      /\ DOMAIN row.lines = 1 .. Len(row.lines) /\ MaxMatches \in Nat \ {0}
  BY ScansAssumption
<1>2. /\ SeenWell(S, scan) /\ scan.matches = IF m < MaxMatches THEN m ELSE MaxMatches
      /\ first <= Len(old)
      /\ \A k \in 1 .. first : old[k] = base.findings[k]
      /\ \A k \in first + 1 .. Len(old) : old[k].path = row.path
      /\ {old[k].line : k \in first + 1 .. Len(old)} = Taken(row, i - 1)
      /\ \A j, k \in first + 1 .. Len(old) : j < k => old[j].line < old[k].line
  BY <1>1 DEF LinesRead
<1>3. /\ IsFiniteSet(LinesBefore(row, i)) /\ m \in Nat /\ i \notin LinesBefore(row, i)
  <2>1. IsFiniteSet(1 .. Len(row.lines))
    BY FS_Interval
  <2>2. LinesBefore(row, i) \subseteq 1 .. Len(row.lines)
    BY <1>1 DEF LinesBefore, Secrets
  <2>3. IsFiniteSet(LinesBefore(row, i))
    BY <2>1, <2>2, FS_Subset
  <2> QED
    BY <1>1, <2>3, FS_CardinalityType DEF LinesBefore
<1> HIDE DEF secret, m, first, old
<1>4. CASE secret.rule = None
  <2>1. next = scan
    BY <1>4 DEF SecretLine, secret
  <2>2. i \notin Secrets(row)
    BY <1>4 DEF Secrets, secret
  <2>3. LinesBefore(row, i + 1) = LinesBefore(row, i) /\ Taken(row, i) = Taken(row, i - 1)
    BY <1>1, <2>2 DEF LinesBefore, Taken, Secrets
  <2> QED
    BY <1>2, <2>1, <2>3 DEF LinesRead, m, first, old
<1>5. ASSUME secret.rule # None
      PROVE  /\ i \in Secrets(row) /\ Cardinality(LinesBefore(row, i + 1)) = m + 1
             /\ Taken(row, i) = IF m < MaxMatches THEN Taken(row, i - 1) \cup {i} ELSE Taken(row, i - 1)
  <2>1. i \in Secrets(row)
    BY <1>1, <1>5 DEF Secrets, secret
  <2>2. LinesBefore(row, i + 1) = LinesBefore(row, i) \cup {i}
    BY <1>1, <2>1 DEF LinesBefore, Secrets
  <2>3. Cardinality(LinesBefore(row, i + 1)) = m + 1
    BY <1>3, <2>2, FS_AddElement DEF m
  <2>4. \A j \in Secrets(row) : j <= i <=> j <= i - 1 \/ j = i
    BY <1>1 DEF Secrets
  <2>5. Taken(row, i) = IF m < MaxMatches THEN Taken(row, i - 1) \cup {i} ELSE Taken(row, i - 1)
    BY <1>1, <2>1, <2>4 DEF Taken, m
  <2> QED
    BY <2>1, <2>3, <2>5
<1>6. CASE secret.rule # None /\ scan.matches >= MaxMatches
  <2>1. next = scan
    BY <1>6 DEF SecretLine, secret
  <2>2. ~(m < MaxMatches) /\ ~(m + 1 < MaxMatches)
    BY <1>1, <1>2, <1>3, <1>6
  <2> QED
    BY <1>2, <1>5, <1>6, <2>1, <2>2 DEF LinesRead, m, first, old
<1>7. CASE secret.rule # None /\ ~(scan.matches >= MaxMatches)
  <2> DEFINE f == [path |-> row.path, line |-> i, secret |-> secret,
                   duplicate |-> secret \in scan.seen]
             new == next.findings
             n == Len(old)
  <2>1. next = [matches |-> scan.matches + 1, seen |-> scan.seen \cup {secret},
                findings |-> Append(scan.findings, f)]
    BY <1>7 DEF SecretLine, secret
  <2>2. m < MaxMatches /\ scan.matches = m
    BY <1>1, <1>2, <1>3, <1>7
  <2>3. f \in S
    <3>1. \A d \in BOOLEAN : [path |-> row.path, line |-> i, secret |-> secret, duplicate |-> d]
                               \in Noted(row)
      BY <1>1 DEF Noted, secret
    <3> DEFINE known == secret \in scan.seen
    <3>2. known \in BOOLEAN
      OBVIOUS
    <3>3. f = [path |-> row.path, line |-> i, secret |-> secret, duplicate |-> known]
      OBVIOUS
    <3> HIDE DEF known, f
    <3> QED
      BY <3>1, <3>2, <3>3
  <2>4. f.path = row.path /\ f.line = i
    OBVIOUS
  <2>5. SeenWell(S, next)
    <3>1. f.secret = secret /\ (f.duplicate <=> secret \in scan.seen)
      OBVIOUS
    <3>2. next = [matches |-> next.matches, seen |-> scan.seen \cup {secret},
                  findings |-> Append(scan.findings, f)]
      <4> DEFINE matches == scan.matches + 1
                 seen == scan.seen \cup {secret}
                 findings == Append(scan.findings, f)
      <4>1. next = [matches |-> matches, seen |-> seen, findings |-> findings]
        BY <2>1
      <4> HIDE DEF matches, seen, findings
      <4>2. next = [matches |-> next.matches, seen |-> seen, findings |-> findings]
        BY <4>1
      <4> QED
        BY <4>2 DEF seen, findings
    <3> HIDE DEF f
    <3> QED
      BY <1>2, <2>3, <3>1, <3>2, SeenOneMore
  <2>6. next.matches = m + 1 /\ new = Append(old, f)
    BY <2>1, <2>2 DEF old
  <2>7. old \in Seq(S)
    BY <1>2 DEF SeenWell, old
  <2> HIDE DEF f, new
  <2>8. /\ n \in Nat /\ Len(new) = n + 1 /\ new[n + 1] = f
        /\ \A k \in 1 .. n : new[k] = old[k]
    BY <2>3, <2>6, <2>7
  <2> HIDE DEF n
  <2>9. /\ first \in Nat /\ first <= n
        /\ \A k \in first + 1 .. n + 1 : k \in first + 1 .. n \/ k = n + 1
        /\ \A k \in first + 1 .. n : k \in 1 .. n
    BY <1>2, <2>8 DEF first, n
  <2>10. \A k \in 1 .. first : new[k] = base.findings[k]
    BY <1>2, <2>8, <2>9
  <2>11. \A k \in first + 1 .. n + 1 : new[k].path = row.path
    BY <1>2, <2>4, <2>8, <2>9 DEF n
  <2>12. {new[k].line : k \in first + 1 .. n + 1} = Taken(row, i)
    <3>1. Taken(row, i) = {old[k].line : k \in first + 1 .. n} \cup {i}
      BY <1>2, <1>5, <1>7, <2>2 DEF n
    <3>2. \A x : (\E k \in first + 1 .. n + 1 : x = new[k].line)
                   <=> (\E k \in first + 1 .. n : x = old[k].line) \/ x = i
      BY <2>4, <2>8, <2>9
    <3> QED
      BY <3>1, <3>2
  <2>13. \A j, k \in first + 1 .. n + 1 : j < k => new[j].line < new[k].line
    <3> SUFFICES ASSUME NEW j \in first + 1 .. n + 1, NEW k \in first + 1 .. n + 1, j < k
                 PROVE  new[j].line < new[k].line
      OBVIOUS
    <3>1. j \in first + 1 .. n
      BY <2>8, <2>9
    <3>2. CASE k \in first + 1 .. n
      BY <1>2, <2>8, <2>9, <3>1, <3>2 DEF n
    <3>3. CASE k = n + 1
      <4>1. old[j].line \in Taken(row, i - 1)
        BY <1>2, <3>1 DEF n
      <4>2. old[j].line < i
        BY <1>1, <4>1 DEF Taken, Secrets
      <4>3. new[j] = old[j] /\ new[k].line = i
        BY <2>4, <2>8, <2>9, <3>1, <3>3
      <4> QED
        BY <4>2, <4>3
    <3> QED
      BY <2>9, <3>2, <3>3
  <2>14. next.matches = IF m + 1 < MaxMatches THEN m + 1 ELSE MaxMatches
    <3>1. next.matches = m + 1 /\ m < MaxMatches /\ m \in Nat /\ MaxMatches \in Nat
      BY <1>1, <1>3, <2>2, <2>6
    <3>2. ~(m + 1 < MaxMatches) => m + 1 = MaxMatches
      BY <3>1
    <3> QED
      BY <3>1, <3>2
  <2>15. first <= Len(new)
    BY <2>8, <2>9
  <2> QED
    BY <1>5, <1>7, <2>5, <2>8, <2>10, <2>11, <2>12, <2>13, <2>14, <2>15 DEF LinesRead, new, first
<1> QED
  BY <1>4, <1>6, <1>7

\* What one file adds to a scan.
LEMMA RowRead ==
  ASSUME NEW S, NEW row, NEW L, row.lines \in Seq(L), row.status = "open",
         Noted(row) \subseteq S, NEW scan, SeenWell(S, scan)
  PROVE  LinesRead(S, row, scan, SecretRow(scan, row), Len(row.lines))
<1> DEFINE n == Len(row.lines)
           lines == Numbers(row.lines)
           base == [scan EXCEPT !.matches = 0]
           After(k) == SecretLines!Run(row, base, SubSeq(lines, 1, k))
           T == {k \in 0 .. n : LinesRead(S, row, scan, After(k), k)}
<1>1. n \in Nat /\ lines \in Seq(Nat) /\ Len(lines) = n /\ \A k \in 1 .. n : lines[k] = k
  <2>1. n \in Nat
    OBVIOUS
  <2> QED
    BY <2>1, NumbersOf
<1>2. /\ base = [matches |-> 0, seen |-> scan.seen, findings |-> scan.findings]
      /\ scan.findings \in Seq(S) /\ Len(scan.findings) \in Nat
  <2> DEFINE matches == scan.matches
             seen == scan.seen
             findings == scan.findings
  <2>1. scan = [matches |-> matches, seen |-> seen, findings |-> findings] /\ findings \in Seq(S)
    BY DEF SeenWell
  <2> HIDE DEF matches, seen, findings
  <2>2. base = [matches |-> 0, seen |-> seen, findings |-> findings]
    BY <2>1
  <2> QED
    BY <2>1, <2>2 DEF seen, findings
<1>3. LinesRead(S, row, scan, base, 0)
  <2>1. LinesBefore(row, 0 + 1) = {} /\ Taken(row, 0) = {}
    BY <1>1 DEF LinesBefore, Taken, Secrets
  <2>2. Cardinality(LinesBefore(row, 0 + 1)) = 0
    BY <2>1, FS_EmptySet
  <2>3. /\ base.matches = 0 /\ base.seen = scan.seen /\ base.findings = scan.findings
        /\ base = [matches |-> base.matches, seen |-> base.seen, findings |-> base.findings]
    BY <1>2
  <2> HIDE DEF base
  <2>4. SeenWell(S, base)
    BY <2>3 DEF SeenWell
  <2>5. MaxMatches \in Nat \ {0}
    BY ScansAssumption
  <2>6. Len(scan.findings) + 1 .. Len(scan.findings) = {}
    BY <1>2
  <2>7. {base.findings[k].line : k \in Len(scan.findings) + 1 .. Len(base.findings)} = {}
    BY <2>3, <2>6
  <2> QED
    BY <1>2, <2>1, <2>2, <2>3, <2>4, <2>5, <2>6, <2>7 DEF LinesRead
<1> HIDE DEF base
<1>4. SecretRow(scan, row) = After(n)
  <2>1. SecretRow(scan, row) = SecretLines!Run(row, base, lines)
    BY SecretRowRuns DEF base
  <2> HIDE DEF lines
  <2>2. SecretLines!Run(row, base, SubSeq(lines, 1, Len(lines))) = SecretLines!Run(row, base, lines)
    BY <1>1, SecretLines!Finish
  <2> QED
    BY <1>1, <2>1, <2>2
<1>5. After(0) = base
  <2> HIDE DEF lines
  <2> QED
    BY <1>1, SecretLines!Start
<1>6. ASSUME NEW k \in 1 .. n
      PROVE  After(k) = SecretLine(row.path, After(k - 1), k, row.lines[k])
  <2>1. After(k) = SecretTurn(row, After(k - 1), lines[k])
    <3> HIDE DEF lines
    <3> QED
      BY <1>1, SecretLines!Turn
  <2> HIDE DEF After
  <2> QED
    BY <1>1, <2>1 DEF SecretTurn
<1> HIDE DEF After
<1>7. 0 \in T
  BY <1>1, <1>3, <1>5
<1>8. \A k \in 1 .. n : k - 1 \in T => k \in T
  <2> SUFFICES ASSUME NEW k \in 1 .. n, k - 1 \in T PROVE k \in T
    OBVIOUS
  <2>1. LinesRead(S, row, scan, After(k - 1), k - 1)
    OBVIOUS
  <2>2. LinesRead(S, row, scan, SecretLine(row.path, After(k - 1), k, row.lines[k]), k)
    BY <1>2, <2>1, NextLineRead
  <2> QED
    BY <1>1, <1>6, <2>2
<1> HIDE DEF T
<1>9. n \in T
  <2> HIDE DEF n
  <2>1. \A k \in 0 .. n : k \in T
    BY <1>1, <1>7, <1>8, SecretLines!UpTo
  <2> QED
    BY <1>1, <2>1
<1> QED
  BY <1>4, <1>9 DEF T

\* What scan_secrets has after k rows.
Reported(row, found) == {k \in DOMAIN found : found[k].path = row.path}
RowNoted(row, found) ==
  /\ {found[k].line : k \in Reported(row, found)} =
       IF row.status # "open" THEN {} ELSE Taken(row, Len(row.lines))
  /\ \A j, k \in Reported(row, found) : j < k => found[j].line < found[k].line
AllNoted(rows) == UNION {Noted(r) : r \in ToSet(rows)}
RowsRead(rows, scan, k) ==
  /\ SeenWell(AllNoted(rows), scan)
  /\ \A j \in 1 .. k : RowNoted(rows[j], scan.findings)
  /\ \A h \in DOMAIN scan.findings : \E j \in 1 .. k : scan.findings[h].path = rows[j].path

\* A row leaves the findings of the rows before it, and has none before it is read.
LEMMA NextRowRead ==
  ASSUME NEW rows \in SecretInputs, NEW k \in 1 .. Len(rows),
         NEW scan, RowsRead(rows, scan, k - 1)
  PROVE  RowsRead(rows, SecretRow(scan, rows[k]), k)
<1> DEFINE row == rows[k]
           S == AllNoted(rows)
           old == scan.findings
           first == Len(old)
<1> SUFFICES ASSUME NEW next, next = SecretRow(scan, row)
             PROVE  RowsRead(rows, next, k)
  OBVIOUS
<1>1. /\ rows \in Seq(ToSet(rows)) /\ row \in ToSet(rows) /\ row.lines \in Seq(ToSet(row.lines))
      /\ \A j \in 1 .. k : j \in 1 .. k - 1 \/ j = k
      /\ \A j \in 1 .. k - 1 : rows[j].path # row.path
  <2>1. rows \in Seq(ToSet(rows))
    BY SecretInputAssumption
  <2>2. row \in ToSet(rows)
    BY <2>1
  <2>3. row.lines \in Seq(ToSet(row.lines))
    BY <2>2, SecretInputAssumption
  <2>4. \A j \in 1 .. k - 1 : j \in DOMAIN rows /\ k \in DOMAIN rows /\ j # k
    BY <2>1
  <2>5. \A j \in 1 .. k - 1 : rows[j].path # row.path
    BY <2>4, SecretInputAssumption
  <2> QED
    BY <2>1, <2>2, <2>3, <2>5
<1>2. /\ SeenWell(S, scan) /\ \A j \in 1 .. k - 1 : RowNoted(rows[j], old)
      /\ \A h \in DOMAIN old : \E j \in 1 .. k - 1 : old[h].path = rows[j].path
      /\ old \in Seq(S)
  BY DEF RowsRead, SeenWell
<1>3. first \in Nat /\ DOMAIN old = 1 .. first
  BY <1>2
<1>4. \A h \in DOMAIN old : old[h].path # row.path
  BY <1>1, <1>2
<1>5. Noted(row) \subseteq S
  BY <1>1 DEF AllNoted
<1> HIDE DEF row, S, old, first
<1>6. CASE row.status # "open"
  <2>1. next = scan
    BY <1>6 DEF SecretRow
  <2>2. Reported(row, old) = {}
    BY <1>4 DEF Reported
  <2>3. RowNoted(row, old)
    BY <1>6, <2>2 DEF RowNoted
  <2>4. \A j \in 1 .. k : RowNoted(rows[j], old)
    BY <1>1, <1>2, <2>3 DEF row
  <2> QED
    BY <1>2, <2>1, <2>4 DEF RowsRead, S, old
<1>7. CASE row.status = "open"
  <2> DEFINE new == next.findings
             n == Len(new)
             New == first + 1 .. n
  <2>1. LinesRead(S, row, scan, next, Len(row.lines))
    BY <1>1, <1>2, <1>5, <1>7, RowRead
  <2>2. /\ SeenWell(S, next) /\ first <= n
        /\ \A h \in 1 .. first : new[h] = old[h]
        /\ \A h \in New : new[h].path = row.path
        /\ {new[h].line : h \in New} = Taken(row, Len(row.lines))
        /\ \A j, h \in New : j < h => new[j].line < new[h].line
    BY <2>1 DEF LinesRead, first, old
  <2>3. new \in Seq(S)
    BY <2>2 DEF SeenWell
  <2> HIDE DEF new
  <2>4. /\ DOMAIN new = 1 .. n /\ n \in Nat
    BY <2>3
  <2> HIDE DEF n
  <2>5. /\ \A h \in DOMAIN new : h \in 1 .. first \/ h \in New
        /\ New \subseteq DOMAIN new /\ 1 .. first \subseteq DOMAIN new
    BY <1>3, <2>2, <2>4
  <2> HIDE DEF New
  <2>6. Reported(row, new) = New
    BY <1>3, <1>4, <2>2, <2>5 DEF Reported
  <2>7. RowNoted(row, new)
    BY <1>7, <2>2, <2>6 DEF RowNoted
  <2>8. ASSUME NEW j \in 1 .. k - 1 PROVE RowNoted(rows[j], new)
    <3>1. Reported(rows[j], new) = Reported(rows[j], old)
      BY <1>1, <1>3, <2>2, <2>5 DEF Reported
    <3>2. \A h \in Reported(rows[j], old) : new[h] = old[h]
      BY <1>3, <2>2 DEF Reported
    <3>3. {new[h].line : h \in Reported(rows[j], new)} = {old[h].line : h \in Reported(rows[j], old)}
      BY <3>1, <3>2
    <3>4. RowNoted(rows[j], old)
      BY <1>2
    <3> QED
      BY <3>1, <3>2, <3>3, <3>4 DEF RowNoted
  <2>9. \A j \in 1 .. k : RowNoted(rows[j], new)
    BY <1>1, <2>7, <2>8 DEF row
  <2>10. \A h \in DOMAIN new : \E j \in 1 .. k : new[h].path = rows[j].path
    <3>1. \A h \in 1 .. first : \E j \in 1 .. k - 1 : new[h].path = rows[j].path
      BY <1>2, <1>3, <2>2
    <3>2. \A j \in 1 .. k - 1 : j \in 1 .. k
      OBVIOUS
    <3>3. k \in 1 .. k
      BY <1>1
    <3> QED
      BY <2>2, <2>5, <3>1, <3>2, <3>3 DEF row
  <2> QED
    BY <2>2, <2>9, <2>10 DEF RowsRead, S, new
<1> QED
  BY <1>6, <1>7

\* All rows.
LEMMA RowsAlwaysRead ==
  ASSUME NEW rows \in SecretInputs
  PROVE  \E scan : /\ RowsRead(rows, scan, Len(rows))
                   /\ ScanSecrets(rows) = [findings |-> scan.findings,
                                           distinct |-> Cardinality(scan.seen)]
<1> DEFINE n == Len(rows)
           S == ToSet(rows)
           After(k) == SecretRows!Run(0, Unscanned, SubSeq(rows, 1, k))
           T == {k \in 0 .. n : RowsRead(rows, After(k), k)}
<1>1. rows \in Seq(S) /\ n \in Nat
  BY SecretInputAssumption
<1> HIDE DEF S
<1>2. After(0) = Unscanned
  BY <1>1, SecretRows!Start
<1>3. ASSUME NEW k \in 1 .. n PROVE After(k) = SecretRow(After(k - 1), rows[k])
  <2>1. After(k) = SecretRowTurn(0, After(k - 1), rows[k])
    BY <1>1, SecretRows!Turn
  <2> HIDE DEF After
  <2> QED
    BY <2>1 DEF SecretRowTurn
<1>4. /\ ScanSecrets(rows) = [findings |-> After(n).findings,
                              distinct |-> Cardinality(After(n).seen)]
  <2>1. After(n) = SecretRows!Run(0, Unscanned, rows)
    BY <1>1, SecretRows!Finish
  <2> QED
    BY <2>1, ScanSecretsRuns
<1> HIDE DEF After
<1>5. 0 \in T
  <2> DEFINE none == Unscanned.findings
  <2>1. /\ Unscanned.matches = 0 /\ Unscanned.seen = {} /\ none = <<>>
        /\ Unscanned = [matches |-> Unscanned.matches, seen |-> Unscanned.seen, findings |-> none]
    BY DEF Unscanned
  <2> HIDE DEF none
  <2>2. none \in Seq(AllNoted(rows)) /\ DOMAIN none = {}
    BY <2>1
  <2>3. Fresh(none) = {} /\ {none[k].secret : k \in DOMAIN none} = {}
    BY <2>2 DEF Fresh
  <2>4. SeenWell(AllNoted(rows), Unscanned)
    BY <2>1, <2>2, <2>3, FS_EmptySet DEF SeenWell, none
  <2>5. RowsRead(rows, Unscanned, 0)
    BY <2>2, <2>4 DEF RowsRead, none
  <2> QED
    BY <1>1, <1>2, <2>5
<1>6. \A k \in 1 .. n : k - 1 \in T => k \in T
  <2> SUFFICES ASSUME NEW k \in 1 .. n, k - 1 \in T PROVE k \in T
    OBVIOUS
  <2>1. RowsRead(rows, After(k - 1), k - 1)
    OBVIOUS
  <2>2. RowsRead(rows, SecretRow(After(k - 1), rows[k]), k)
    BY <2>1, NextRowRead
  <2> QED
    BY <1>1, <1>3, <2>2
<1> HIDE DEF T
<1>7. n \in T
  <2> HIDE DEF n
  <2>1. \A k \in 0 .. n : k \in T
    BY <1>1, <1>5, <1>6, SecretRows!UpTo
  <2> QED
    BY <1>1, <2>1
<1> QED
  BY <1>4, <1>7 DEF T

\* Of each file the scan for secrets takes the first lines with a candidate, in
\* order, as many as the cap allows, whatever the other files hold.
THEOREM SecretsAlwaysFirst == Spec => []SecretsFirst
<1>1. Picked => SecretsFirst
  <2> SUFFICES ASSUME about = "secrets", input \in SecretInputs PROVE SecretsFirst
    BY DEF Picked, SecretsFirst
  <2>1. PICK scan : /\ RowsRead(input, scan, Len(input))
                    /\ ScanSecrets(input) = [findings |-> scan.findings,
                                             distinct |-> Cardinality(scan.seen)]
    BY RowsAlwaysRead
  <2> DEFINE found == scan.findings
  <2>2. ScanSecrets(input).findings = found
    BY <2>1
  <2>3. /\ input \in Seq(ToSet(input)) /\ Len(input) \in Nat
        /\ \A r \in Range(input) : RowNoted(r, found) /\ r.lines \in Seq(ToSet(r.lines))
    <3>1. input \in Seq(ToSet(input))
      BY SecretInputAssumption
    <3>2. \A r \in Range(input) : RowNoted(r, found)
      BY <2>1, <3>1 DEF RowsRead, Range
    <3>3. \A r \in Range(input) : r \in ToSet(input)
      BY <3>1 DEF Range
    <3> QED
      BY <3>1, <3>2, <3>3, SecretInputAssumption
  <2> HIDE DEF found
  <2>4. ASSUME NEW r \in Range(input)
        PROVE  Taken(r, Len(r.lines)) =
                 {i \in Secrets(r) : Cardinality({j \in Secrets(r) : j < i}) < MaxMatches}
    <3>1. r.lines \in Seq(ToSet(r.lines))
      BY <2>3
    <3>2. \A i \in Secrets(r) : i <= Len(r.lines)
      BY <3>1 DEF Secrets
    <3> QED
      BY <3>2 DEF Taken, LinesBefore
  <2>5. SecretsFirst <=>
          \A r \in Range(input) :
            /\ {found[k].line : k \in Reported(r, found)} =
                 IF r.status # "open" THEN {}
                 ELSE {i \in Secrets(r) : Cardinality({j \in Secrets(r) : j < i}) < MaxMatches}
            /\ \A j, k \in Reported(r, found) : j < k => found[j].line < found[k].line
    BY <2>2 DEF SecretsFirst, Reported, Secrets
  <2> QED
    BY <2>3, <2>4, <2>5 DEF RowNoted
<1> QED
  BY <1>1, PickedFromInputs, PTL

\* A candidate is told for a duplicate exactly if it was reported before, in any
\* file, and as many are distinct as are told for new ones.
THEOREM DuplicatesAlwaysTold == Spec => []DuplicatesTold
<1>1. Picked => DuplicatesTold
  <2> SUFFICES ASSUME about = "secrets", input \in SecretInputs PROVE DuplicatesTold
    BY DEF Picked, DuplicatesTold
  <2>1. PICK scan : /\ RowsRead(input, scan, Len(input))
                    /\ ScanSecrets(input) = [findings |-> scan.findings,
                                             distinct |-> Cardinality(scan.seen)]
    BY RowsAlwaysRead
  <2> DEFINE found == scan.findings
             distinct == Cardinality(scan.seen)
  <2>2. /\ \A k \in DOMAIN found :
             found[k].duplicate <=> \E j \in 1 .. k - 1 : found[j].secret = found[k].secret
        /\ distinct = Cardinality(Fresh(found))
    BY <2>1 DEF RowsRead, SeenWell
  <2>3. ScanSecrets(input) = [findings |-> found, distinct |-> distinct]
    BY <2>1
  <2> HIDE DEF found, distinct
  <2>4. ScanSecrets(input).findings = found /\ ScanSecrets(input).distinct = distinct
    BY <2>3
  <2> QED
    BY <2>2, <2>4 DEF DuplicatesTold, Fresh
<1> QED
  BY <1>1, PickedFromInputs, PTL

-----------------------------------------------------------------------------
(* LineCounts                                                               *)

\* The sum of a field of the records of a set, as MapThenSumSet takes it.
Some(s) == CHOOSE x \in s : TRUE
AddsUp(h, c, R, D) == h = [s \in D |-> IF s = {} THEN 0 ELSE Some(s)[c] + h[s \ {Some(s)}]]
UpToSize(R, k) == {s \in SUBSET R : Cardinality(s) <= k}

SumOf(c, R) == (CHOOSE h : AddsUp(h, c, R, SUBSET R))[R]

\* The two sums that measure takes.
LEMMA SumRuns ==
  ASSUME NEW R
  PROVE  /\ MapThenSumSet(LAMBDA r : r.covered, R) = SumOf("covered", R)
         /\ MapThenSumSet(LAMBDA r : r.total, R) = SumOf("total", R)
BY DEF MapThenSumSet, MapThenFoldSet, Some, AddsUp, SumOf

\* There is a table of the sums of the subsets of a finite set.
LEMMA SumSolvable ==
  ASSUME NEW R, IsFiniteSet(R), NEW c
  PROVE  \E h : AddsUp(h, c, R, SUBSET R)
<1> DEFINE T == {k \in Nat : \E h : AddsUp(h, c, R, UpToSize(R, k))}
           n == Cardinality(R)
<1>0. \A s \in SUBSET R : IsFiniteSet(s) /\ Cardinality(s) \in Nat /\ Cardinality(s) <= n
  BY FS_Subset, FS_CardinalityType
<1>1. 0 \in T
  <2>1. \A s \in UpToSize(R, 0) : s = {}
    <3> TAKE s \in UpToSize(R, 0)
    <3>1. IsFiniteSet(s) /\ Cardinality(s) = 0
      BY <1>0 DEF UpToSize
    <3> QED
      BY <3>1, FS_EmptySet
  <2> DEFINE h == [s \in UpToSize(R, 0) |-> 0]
  <2>2. [s \in UpToSize(R, 0) |-> IF s = {} THEN 0 ELSE Some(s)[c] + h[s \ {Some(s)}]]
          = [s \in UpToSize(R, 0) |-> 0]
    BY <2>1
  <2>3. AddsUp(h, c, R, UpToSize(R, 0))
    BY <2>2 DEF AddsUp
  <2> QED
    BY <2>3
<1>2. \A k \in 1 .. n : k - 1 \in T => k \in T
  <2> SUFFICES ASSUME NEW k \in 1 .. n, NEW h, AddsUp(h, c, R, UpToSize(R, k - 1))
               PROVE  k \in T
    OBVIOUS
  <2> DEFINE g == [s \in UpToSize(R, k) |->
                     IF s = {} THEN 0 ELSE Some(s)[c] + h[s \ {Some(s)}]]
  <2>1. \A s \in UpToSize(R, k - 1) : h[s] = IF s = {} THEN 0 ELSE Some(s)[c] + h[s \ {Some(s)}]
    BY DEF AddsUp
  <2>2. \A s \in UpToSize(R, k - 1) : s \in UpToSize(R, k)
    BY <1>0 DEF UpToSize
  <2>3. \A s \in UpToSize(R, k - 1) : g[s] = h[s]
    BY <2>1, <2>2
  <2>4. \A s \in UpToSize(R, k) : s # {} => s \ {Some(s)} \in UpToSize(R, k - 1)
    <3> SUFFICES ASSUME NEW s \in UpToSize(R, k), s # {} PROVE s \ {Some(s)} \in UpToSize(R, k - 1)
      OBVIOUS
    <3>1. Some(s) \in s
      BY DEF Some
    <3>2. IsFiniteSet(s) /\ Cardinality(s) \in Nat /\ Cardinality(s) <= k /\ s \in SUBSET R
      BY <1>0 DEF UpToSize
    <3>3. Cardinality(s \ {Some(s)}) = Cardinality(s) - 1
      BY <3>1, <3>2, FS_RemoveElement
    <3> QED
      BY <3>2, <3>3 DEF UpToSize
  <2>5. \A s \in UpToSize(R, k) : s # {} => g[s \ {Some(s)}] = h[s \ {Some(s)}]
    <3> HIDE DEF g
    <3> QED
      BY <2>3, <2>4
  <2>6. [s \in UpToSize(R, k) |-> IF s = {} THEN 0 ELSE Some(s)[c] + g[s \ {Some(s)}]] = g
    <3> DEFINE f == [s \in UpToSize(R, k) |-> IF s = {} THEN 0 ELSE Some(s)[c] + g[s \ {Some(s)}]]
    <3>1. \A s \in UpToSize(R, k) : f[s] = g[s]
      <4> TAKE s \in UpToSize(R, k)
      <4>1. f[s] = IF s = {} THEN 0 ELSE Some(s)[c] + g[s \ {Some(s)}]
        <5> HIDE DEF g
        <5> QED
          OBVIOUS
      <4>2. g[s] = IF s = {} THEN 0 ELSE Some(s)[c] + h[s \ {Some(s)}]
        OBVIOUS
      <4> HIDE DEF f, g
      <4> QED
        BY <2>5, <4>1, <4>2
    <3>2. f = [s \in UpToSize(R, k) |-> f[s]] /\ g = [s \in UpToSize(R, k) |-> g[s]]
      <4>1. f = [s \in UpToSize(R, k) |-> f[s]]
        <5> HIDE DEF g
        <5> QED
          OBVIOUS
      <4> QED
        BY <4>1
    <3> HIDE DEF f, g
    <3>3. f = g
      BY <3>1, <3>2
    <3> QED
      BY <3>3 DEF f
  <2> HIDE DEF g
  <2>7. AddsUp(g, c, R, UpToSize(R, k))
    BY <2>6 DEF AddsUp
  <2> QED
    BY <2>7
<1> HIDE DEF T
<1>3. n \in T
  <2>1. n \in Nat
    BY FS_CardinalityType
  <2> HIDE DEF n
  <2>2. \A k \in 0 .. n : k \in T
    BY <1>1, <1>2, <2>1, TodoRows!UpTo
  <2> QED
    BY <2>1, <2>2
<1>4. UpToSize(R, n) = SUBSET R
  BY <1>0 DEF UpToSize
<1> HIDE DEF n
<1> QED
  BY <1>3, <1>4 DEF T

\* The sum of what each record counts of a set of its own is the size of all of
\* these sets together.
LEMMA SumCounts ==
  ASSUME NEW R, IsFiniteSet(R), NEW c, NEW F,
         \A r \in R : IsFiniteSet(F[r]) /\ r[c] = Cardinality(F[r]),
         \A q, r \in R : q # r => F[q] \cap F[r] = {}
  PROVE  /\ IsFiniteSet(UNION {F[r] : r \in R})
         /\ SumOf(c, R) = Cardinality(UNION {F[r] : r \in R})
<1> DEFINE All(s) == UNION {F[r] : r \in s}
           P(h) == AddsUp(h, c, R, SUBSET R)
           h == CHOOSE t : P(t)
           n == Cardinality(R)
           T == {k \in Nat : \A s \in UpToSize(R, k) :
                   IsFiniteSet(All(s)) /\ h[s] = Cardinality(All(s))}
<1>0. /\ \A s \in SUBSET R : IsFiniteSet(s) /\ Cardinality(s) \in Nat /\ Cardinality(s) <= n
      /\ n \in Nat
  BY FS_Subset, FS_CardinalityType
<1>1. \A s \in SUBSET R : h[s] = IF s = {} THEN 0 ELSE Some(s)[c] + h[s \ {Some(s)}]
  <2>1. \E t : P(t)
    BY SumSolvable
  <2>2. P(h)
    <3> HIDE DEF P
    <3> QED
      BY <2>1
  <2> HIDE DEF h
  <2> QED
    BY <2>2 DEF AddsUp
<1>2. SumOf(c, R) = h[R]
  BY DEF SumOf
<1> HIDE DEF h
<1>3. IsFiniteSet(All({})) /\ h[{}] = Cardinality(All({}))
  <2>1. All({}) = {} /\ {} \in SUBSET R
    OBVIOUS
  <2> HIDE DEF All
  <2> QED
    BY <1>1, <2>1, FS_EmptySet
<1> HIDE DEF n
<1>4. 0 \in T
  <2>1. \A s \in UpToSize(R, 0) : s = {}
    <3> TAKE s \in UpToSize(R, 0)
    <3>1. IsFiniteSet(s) /\ Cardinality(s) = 0
      BY <1>0 DEF UpToSize
    <3> QED
      BY <3>1, FS_EmptySet
  <2> HIDE DEF All
  <2> QED
    BY <1>3, <2>1
<1>5. \A k \in 1 .. n : k - 1 \in T => k \in T
  <2> SUFFICES ASSUME NEW k \in 1 .. n, k - 1 \in T, NEW s \in UpToSize(R, k)
               PROVE  IsFiniteSet(All(s)) /\ h[s] = Cardinality(All(s))
    <3> HIDE DEF All
    <3>1. \A k \in 1 .. n : k \in Nat
      BY <1>0
    <3> QED
      BY <3>1
  <2>1. CASE s = {}
    <3> HIDE DEF All
    <3> QED
      BY <1>3, <2>1
  <2>2. CASE s # {}
    <3> DEFINE x == Some(s)
               rest == s \ {x}
    <3>1. x \in s /\ s \in SUBSET R /\ IsFiniteSet(s) /\ Cardinality(s) \in Nat /\ Cardinality(s) <= k
      BY <1>0, <2>2 DEF UpToSize, Some
    <3>2. Cardinality(rest) = Cardinality(s) - 1
      <4> HIDE DEF x
      <4> QED
        BY <3>1, FS_RemoveElement
    <3>3. rest \in UpToSize(R, k - 1)
      BY <3>1, <3>2 DEF UpToSize
    <3>4. h[s] = x[c] + h[rest]
      BY <1>1, <2>2, <3>1
    <3> HIDE DEF x
    <3>5. All(s) = F[x] \cup All(rest) /\ F[x] \cap All(rest) = {}
      BY <3>1
    <3> HIDE DEF rest
    <3>6. IsFiniteSet(All(rest)) /\ h[rest] = Cardinality(All(rest))
      BY <3>3
    <3>7. IsFiniteSet(F[x]) /\ x[c] = Cardinality(F[x])
      BY <3>1
    <3> HIDE DEF All
    <3>8. /\ IsFiniteSet(All(s))
          /\ Cardinality(All(s)) = Cardinality(F[x]) + Cardinality(All(rest)) - Cardinality({})
      <4> DEFINE a == F[x]
                 b == All(rest)
      <4>1. IsFiniteSet(a) /\ IsFiniteSet(b) /\ All(s) = a \cup b /\ a \cap b = {}
        BY <3>5, <3>6, <3>7
      <4> HIDE DEF a, b
      <4>2. /\ IsFiniteSet(a \cup b)
            /\ Cardinality(a \cup b) = Cardinality(a) + Cardinality(b) - Cardinality(a \cap b)
        BY <4>1, FS_Union
      <4> QED
        BY <4>1, <4>2 DEF a, b
    <3> QED
      BY <3>4, <3>6, <3>7, <3>8, FS_EmptySet, FS_CardinalityType
  <2> QED
    BY <2>1, <2>2
<1> HIDE DEF T
<1>6. n \in T
  <2>2. \A k \in 0 .. n : k \in T
    BY <1>0, <1>4, <1>5, TodoRows!UpTo
  <2> QED
    BY <1>0, <2>2
<1>7. R \in UpToSize(R, n)
  BY <1>0 DEF UpToSize, n
<1> QED
  BY <1>2, <1>6, <1>7 DEF T

\* The files that a tracer has seen, and what it has seen of each.
SeenFiles(counts) == {f \in Measured : \E c \in counts : Resolved[c.name] = f}
RanIn(counts, f) == {l \in Executable[f] : \E c \in counts : Resolved[c.name] = f /\ c.line = l}
RowOf(counts, f) ==
  [file |-> f, covered |-> Cardinality(RanIn(counts, f)), total |-> Cardinality(Executable[f]),
   artifact |-> FullName[f]]

\* The rows of a measurement, one for each file that has some.
LEMMA RowsOf ==
  ASSUME NEW counts
  PROVE  Rows(counts) = {RowOf(counts, f) : f \in SeenFiles(counts)}
<1>1. PerFile(counts) = {[file |-> f, lines |-> {c.line : c \in {d \in counts : Resolved[d.name] = f}}] :
                           f \in SeenFiles(counts)}
  BY DEF PerFile, SeenFiles
<1>2. ASSUME NEW f
      PROVE  FileRow([file |-> f, lines |-> {c.line : c \in {d \in counts : Resolved[d.name] = f}}])
               = RowOf(counts, f)
  <2> DEFINE lines == {c.line : c \in {d \in counts : Resolved[d.name] = f}}
  <2>1. RanIn(counts, f) = {l \in Executable[f] : l \in lines}
    BY DEF RanIn
  <2> HIDE DEF lines
  <2>2. FileRow([file |-> f, lines |-> lines]) = RowOf(counts, f)
    BY <2>1 DEF FileRow, RowOf
  <2> QED
    BY <2>2 DEF lines
<1> QED
  BY <1>1, <1>2 DEF Rows

\* The rows and the totals of a measurement mean what was run.
THEOREM CountsAlwaysMean == Spec => []CountsMean
<1>1. Picked => CountsMean
  <2> SUFFICES ASSUME about = "counts", input \in CountInputs PROVE CountsMean
    BY DEF Picked, CountsMean
  <2> DEFINE rows == Rows(input)
             Seen == SeenFiles(input)
             Ran(f) == RanIn(input, f)
             Row(f) == RowOf(input, f)
  <2>1. rows = {Row(f) : f \in Seen}
    BY RowsOf
  <2>2. \A f \in Seen : /\ Row(f).file = f /\ Row(f).covered = Cardinality(Ran(f))
                        /\ Row(f).total = Cardinality(Executable[f]) /\ Row(f).artifact = FullName[f]
    BY DEF RowOf
  <2>3. \A f \in Seen : /\ IsFiniteSet(Executable[f]) /\ IsFiniteSet(Ran(f))
                        /\ Cardinality(Ran(f)) <= Cardinality(Executable[f])
                        /\ Cardinality(Ran(f)) \in Nat /\ Cardinality(Executable[f]) \in Nat
    <3> TAKE f \in Seen
    <3>1. IsFiniteSet(Executable[f])
      BY CountInputAssumption DEF SeenFiles
    <3>2. Ran(f) \subseteq Executable[f]
      BY DEF RanIn
    <3> HIDE DEF Ran
    <3> QED
      BY <3>1, <3>2, FS_Subset, FS_CardinalityType
  <2>4. IsFiniteSet(Seen)
    <3> DEFINE names == {Resolved[c.name] : c \in input}
    <3>1. IsFiniteSet(names)
      <4> DEFINE g == [c \in input |-> Resolved[c.name]]
      <4>1. g \in Surjection(input, names) /\ IsFiniteSet(input)
        <5>1. \A c \in input : g[c] = Resolved[c.name] /\ Resolved[c.name] \in names
          OBVIOUS
        <5>2. \A t \in names : \E c \in input : g[c] = t
          OBVIOUS
        <5>3. g \in [input -> names]
          OBVIOUS
        <5> QED
          BY CountInputAssumption, <5>2, <5>3 DEF Surjection
      <4> HIDE DEF g, names
      <4> QED
        BY <4>1, FS_Surjection
    <3>2. Seen \subseteq names
      BY DEF SeenFiles
    <3> HIDE DEF names, Seen
    <3> QED
      BY <3>1, <3>2, FS_Subset
  <2> HIDE DEF rows, Seen, Ran, Row
  <2>5. /\ IsFiniteSet(rows) /\ Cardinality(rows) = Cardinality(Seen)
        /\ {r.file : r \in rows} = Seen
    <3> DEFINE g == [f \in Seen |-> Row(f)]
    <3>1. g \in Surjection(Seen, rows) /\ g \in Injection(Seen, rows)
      BY <2>1, <2>2 DEF Surjection, Injection, IsInjective
    <3> HIDE DEF g
    <3>2. IsFiniteSet(rows) /\ Cardinality(rows) = Cardinality(Seen)
      BY <2>4, <3>1, FS_Surjection
    <3>3. {r.file : r \in rows} = Seen
      BY <2>1, <2>2
    <3> QED
      BY <3>2, <3>3
  <2>6. \A r \in rows : /\ r.file \in Seen /\ r = Row(r.file) /\ r.covered = Cardinality(Ran(r.file))
                        /\ r.total = Cardinality(Executable[r.file]) /\ r.artifact = FullName[r.file]
    BY <2>1, <2>2
  <2>7. \A r \in rows : r.covered <= r.total
    BY <2>3, <2>6
  <2> DEFINE all == Measure(input)
             covered == MapThenSumSet(LAMBDA r : r.covered, rows)
             total == MapThenSumSet(LAMBDA r : r.total, rows)
             artifacts == {r.artifact : r \in rows}
  <2>8. /\ all.covered = covered /\ (all.measured <=> total > 0) /\ all.artifacts = artifacts
    <3>1. all = [measured |-> total > 0, covered |-> covered, total |-> total, artifacts |-> artifacts]
      BY DEF Measure, rows
    <3> HIDE DEF covered, total, artifacts, all
    <3> QED
      BY <3>1
  <2>9. covered = Cardinality(UNION {{f} \X Ran(f) : f \in Seen})
    <3> DEFINE F == [r \in rows |-> {r.file} \X Ran(r.file)]
    <3>1. ASSUME NEW r \in rows
          PROVE  IsFiniteSet(F[r]) /\ r["covered"] = Cardinality(F[r])
      <4> DEFINE f == r.file
      <4>1. f \in Seen /\ r["covered"] = Cardinality(Ran(f)) /\ F[r] = {f} \X Ran(f)
        BY <2>6
      <4> HIDE DEF f, F
      <4>2. IsFiniteSet(Ran(f)) /\ Cardinality(Ran(f)) \in Nat /\ IsFiniteSet({f}) /\ Cardinality({f}) = 1
        BY <2>3, <4>1, FS_Singleton
      <4>3. IsFiniteSet({f} \X Ran(f)) /\ Cardinality({f} \X Ran(f)) = 1 * Cardinality(Ran(f))
        BY <4>2, FS_Product
      <4> QED
        BY <4>1, <4>2, <4>3
    <3>2. \A q, r \in rows : q # r => F[q] \cap F[r] = {}
      <4>1. \A q, r \in rows : q # r => q.file # r.file
        BY <2>6
      <4> QED
        BY <4>1
    <3>3. UNION {F[r] : r \in rows} = UNION {{f} \X Ran(f) : f \in Seen}
      <4> DEFINE G(f) == {f} \X Ran(f)
      <4>1. \A r \in rows : r.file \in Seen /\ F[r] = G(r.file)
        BY <2>6
      <4>2. \A f \in Seen : Row(f) \in rows /\ Row(f).file = f
        BY <2>1, <2>2
      <4> HIDE DEF F, G
      <4>3. {F[r] : r \in rows} = {G(f) : f \in Seen}
        BY <4>1, <4>2
      <4> QED
        BY <4>3 DEF G
    <3> HIDE DEF F
    <3>4. SumOf("covered", rows) = Cardinality(UNION {F[r] : r \in rows})
      <4> DEFINE c == "covered"
      <4>1. \A r \in rows : IsFiniteSet(F[r]) /\ r[c] = Cardinality(F[r])
        BY <3>1
      <4> HIDE DEF c
      <4> DEFINE Lines == UNION {F[r] : r \in rows}
      <4>2. IsFiniteSet(Lines) /\ SumOf(c, rows) = Cardinality(Lines)
        BY <2>5, <3>2, <4>1, SumCounts
      <4> QED
        BY <4>2 DEF c
    <3> QED
      BY <3>3, <3>4, SumRuns
  <2>10. total > 0 <=> \E f \in Seen : Executable[f] # {}
    <3> DEFINE F == [r \in rows |-> {r.file} \X Executable[r.file]]
               Lines == UNION {F[r] : r \in rows}
    <3>1. ASSUME NEW r \in rows
          PROVE  IsFiniteSet(F[r]) /\ r["total"] = Cardinality(F[r])
      <4> DEFINE f == r.file
      <4>1. f \in Seen /\ r["total"] = Cardinality(Executable[f]) /\ F[r] = {f} \X Executable[f]
        BY <2>6
      <4> HIDE DEF f, F
      <4>2. /\ IsFiniteSet(Executable[f]) /\ Cardinality(Executable[f]) \in Nat
            /\ IsFiniteSet({f}) /\ Cardinality({f}) = 1
        BY <2>3, <4>1, FS_Singleton
      <4>3. /\ IsFiniteSet({f} \X Executable[f])
            /\ Cardinality({f} \X Executable[f]) = 1 * Cardinality(Executable[f])
        BY <4>2, FS_Product
      <4> QED
        BY <4>1, <4>2, <4>3
    <3>2. \A q, r \in rows : q # r => F[q] \cap F[r] = {}
      <4>1. \A q, r \in rows : q # r => q.file # r.file
        BY <2>6
      <4> QED
        BY <4>1
    <3>3. Lines = {} <=> \A f \in Seen : Executable[f] = {}
      <4>0. ASSUME NEW f, NEW E PROVE {f} \X E = {} <=> E = {}
        <5>1. \A e \in E : <<f, e>> \in {f} \X E
          OBVIOUS
        <5>2. E = {} => {f} \X E = {}
          OBVIOUS
        <5> QED
          BY <5>1, <5>2
      <4>1. \A r \in rows : r.file \in Seen /\ (F[r] = {} <=> Executable[r.file] = {})
        BY <2>6, <4>0
      <4>2. \A f \in Seen : Row(f) \in rows /\ Row(f).file = f
        BY <2>1, <2>2
      <4> HIDE DEF F
      <4> QED
        BY <4>1, <4>2
    <3> HIDE DEF F
    <3>4. IsFiniteSet(Lines) /\ SumOf("total", rows) = Cardinality(Lines)
      <4> DEFINE c == "total"
      <4>1. \A r \in rows : IsFiniteSet(F[r]) /\ r[c] = Cardinality(F[r])
        BY <3>1
      <4> HIDE DEF c
      <4>2. IsFiniteSet(Lines) /\ SumOf(c, rows) = Cardinality(Lines)
        BY <2>5, <3>2, <4>1, SumCounts
      <4> QED
        BY <4>2 DEF c
    <3> HIDE DEF Lines
    <3>5. total = Cardinality(Lines) /\ Cardinality(Lines) \in Nat /\ (Cardinality(Lines) = 0 <=> Lines = {})
      BY <3>4, FS_EmptySet, FS_CardinalityType, SumRuns
    <3> HIDE DEF total
    <3> QED
      BY <3>3, <3>5
  <2>11. Cardinality(artifacts) < Cardinality(rows) =>
            \E f, g \in Seen : f # g /\ FullName[f] = FullName[g]
    <3> SUFFICES ASSUME \A f, g \in Seen : FullName[f] = FullName[g] => f = g
                 PROVE  ~(Cardinality(artifacts) < Cardinality(rows))
      OBVIOUS
    <3> DEFINE h == [f \in Seen |-> FullName[f]]
    <3>1. artifacts = {FullName[f] : f \in Seen}
      BY <2>1, <2>2
    <3>2. h \in Surjection(Seen, artifacts) /\ h \in Injection(Seen, artifacts)
      BY <3>1 DEF Surjection, Injection, IsInjective
    <3> HIDE DEF h, artifacts
    <3>3. Cardinality(artifacts) = Cardinality(Seen) /\ Cardinality(Seen) \in Nat
      BY <2>4, <3>2, FS_Surjection, FS_CardinalityType
    <3> QED
      BY <2>5, <3>3
  <2>12. \A f : Ran(f) = {l \in Executable[f] : \E c \in input : Resolved[c.name] = f /\ c.line = l}
    BY DEF Ran, RanIn
  <2>13. Seen = {f \in Measured : \E c \in input : Resolved[c.name] = f}
    BY DEF Seen, SeenFiles
  <2> HIDE DEF covered, total, artifacts, all
  <2> DEFINE Ran2(f) == {l \in Executable[f] : \E c \in input : Resolved[c.name] = f /\ c.line = l}
  <2>14. \A r \in rows : r.covered = Cardinality(Ran2(r.file))
    BY <2>6, <2>12
  <2>15. all.covered = Cardinality(UNION {{f} \X Ran2(f) : f \in Seen})
    <3>1. \A f : Ran(f) = Ran2(f)
      BY <2>12
    <3> HIDE DEF Ran2
    <3> QED
      BY <2>8, <2>9, <3>1
  <2> QED
    BY <2>5, <2>7, <2>8, <2>10, <2>11, <2>13, <2>14, <2>15 DEF CountsMean, rows, all
<1> QED
  BY <1>1, PickedFromInputs, PTL
-----------------------------------------------------------------------------
(* Rendering                                                               *)

RenderTurn(conduct, done, source) == Render(done, source, conduct[source])
Renders == INSTANCE Loops WITH Op <- RenderTurn

Unrendered(i) == [outputs |-> i.rendered.outputs, ok |-> <<>>, failed |-> <<>>]
Done(i) == Renders!Run(i.conduct, Unrendered(i), i.sources)

\* cmd_render by what the renderer says of its version; it goes over the sources
\* in a loop.
LEMMA CmdRenderRuns ==
  ASSUME NEW i
  PROVE  CmdRender(i.rendered, i.version, i.sources, i.conduct) =
           CASE i.version = "fails" ->
                  [i.rendered EXCEPT !.report = [status |-> "unavailable", by |-> "this",
                                               ok |-> <<>>, failed |-> <<>>]]
             [] i.version = "silent" -> i.rendered
             [] i.version = "prints" ->
                  [outputs |-> Done(i).outputs,
                   report |-> [status |-> IF Done(i).failed = <<>> THEN "rendered" ELSE "partial",
                               by |-> "this", ok |-> Done(i).ok, failed |-> Done(i).failed]]
BY DEF CmdRender, Done, Unrendered, Renders!Run, RenderTurn, FoldLeft, MapThenFoldSet, Max, Renders!Max

\* What the loop over the sources has after k of them.
DoneWell(i, done, k) ==
  LET S == ToSet(i.sources)
      Gone == {i.sources[j] : j \in 1 .. k}
  IN /\ done = [outputs |-> done.outputs, ok |-> done.ok, failed |-> done.failed]
     /\ done.ok \in Seq(S) /\ done.failed \in Seq(S)
     /\ done.outputs \in [S -> {"none", "earlier", "this"}]
     /\ \A s \in S \ Gone : done.outputs[s] # "this"
     /\ Range(done.ok) \cup Range(done.failed) = Gone
     /\ Range(done.ok) \cap Range(done.failed) = {}
     /\ \A s \in Range(done.ok) :
          done.outputs[s] = "this" \/ (done.outputs[s] = "earlier" /\ ~i.conduct[s].writes)
     /\ \A s \in Range(done.failed) : i.conduct[s].code # 0 \/ done.outputs[s] = "none"

\* One source more: its output is this run's, an earlier one's or none, as the
\* report will say.
LEMMA NextRendered ==
  ASSUME NEW i \in RenderInputs, NEW k \in 1 .. Len(i.sources),
         NEW done, DoneWell(i, done, k - 1)
  PROVE  DoneWell(i, Render(done, i.sources[k], i.conduct[i.sources[k]]), k)
<1> DEFINE s == i.sources[k]
           S == ToSet(i.sources)
           conduct == i.conduct[s]
           Gone(j) == {i.sources[h] : h \in 1 .. j}
           outputs == IF conduct.writes THEN [done.outputs EXCEPT ![s] = "this"] ELSE done.outputs
           success == conduct.code = 0 /\ outputs[s] # "none"
           ok == IF success THEN Append(done.ok, s) ELSE done.ok
           failed == IF success THEN done.failed ELSE Append(done.failed, s)
<1> SUFFICES ASSUME NEW next, next = Render(done, s, conduct)
             PROVE  DoneWell(i, next, k)
  OBVIOUS
<1>1. /\ done = [outputs |-> done.outputs, ok |-> done.ok, failed |-> done.failed]
      /\ done.ok \in Seq(S) /\ done.failed \in Seq(S)
      /\ done.outputs \in [S -> {"none", "earlier", "this"}]
      /\ \A q \in S \ Gone(k - 1) : done.outputs[q] # "this"
      /\ Range(done.ok) \cup Range(done.failed) = Gone(k - 1)
      /\ Range(done.ok) \cap Range(done.failed) = {}
      /\ \A q \in Range(done.ok) :
           done.outputs[q] = "this" \/ (done.outputs[q] = "earlier" /\ ~i.conduct[q].writes)
      /\ \A q \in Range(done.failed) : i.conduct[q].code # 0 \/ done.outputs[q] = "none"
  BY DEF DoneWell
<1>2. i.sources \in Seq(S) /\ s \in S /\ conduct.writes \in BOOLEAN
  <2>1. i.sources \in Seq(S)
    BY RenderInputAssumption
  <2>2. s \in S
    <3> HIDE DEF S
    <3> QED
      BY <2>1
  <2> QED
    BY <2>1, <2>2, RenderInputAssumption
<1>3. Gone(k) = Gone(k - 1) \cup {s} /\ s \notin Gone(k - 1)
  <2>1. \A h \in 1 .. k : h \in 1 .. k - 1 \/ h = k
    OBVIOUS
  <2>2. \A h \in 1 .. k - 1 : h \in DOMAIN i.sources /\ k \in DOMAIN i.sources /\ h # k
    <3> HIDE DEF S
    <3> QED
      BY <1>2
  <2>3. \A h \in 1 .. k - 1 : i.sources[h] # s
    BY <2>2, RenderInputAssumption
  <2>4. k \in 1 .. k /\ 1 .. k - 1 \subseteq 1 .. k
    OBVIOUS
  <2> QED
    BY <2>1, <2>3, <2>4
<1>4. next = [outputs |-> outputs, ok |-> ok, failed |-> failed]
  <2> DEFINE a == done.outputs
             b == done.ok
             c == done.failed
  <2>1. done = [outputs |-> a, ok |-> b, failed |-> c]
    BY <1>1
  <2>2. next = IF success
               THEN [done EXCEPT !.outputs = outputs, !.ok = Append(@, s)]
               ELSE [done EXCEPT !.outputs = outputs, !.failed = Append(@, s)]
    BY DEF Render, Succeeds
  <2> HIDE DEF outputs, success, s, conduct, a, b, c
  <2>3. CASE success
    <3>1. next = [outputs |-> outputs, ok |-> Append(b, s), failed |-> c]
      BY <2>1, <2>2, <2>3
    <3> QED
      BY <2>3, <3>1 DEF b, c
  <2>4. CASE ~success
    <3>1. next = [outputs |-> outputs, ok |-> b, failed |-> Append(c, s)]
      BY <2>1, <2>2, <2>4
    <3> QED
      BY <2>4, <3>1 DEF b, c
  <2> QED
    BY <2>3, <2>4
<1>5. /\ ok \in Seq(S) /\ failed \in Seq(S)
      /\ Range(ok) = IF success THEN Range(done.ok) \cup {s} ELSE Range(done.ok)
      /\ Range(failed) = IF success THEN Range(done.failed) ELSE Range(done.failed) \cup {s}
  <2> HIDE DEF success, S, s
  <2>1. /\ Append(done.ok, s) \in Seq(S) /\ Append(done.failed, s) \in Seq(S)
        /\ Range(Append(done.ok, s)) = Range(done.ok) \cup {s}
        /\ Range(Append(done.failed, s)) = Range(done.failed) \cup {s}
    BY <1>1, <1>2, RangeAppend
  <2>2. CASE success
    BY <1>1, <2>1, <2>2
  <2>3. CASE ~success
    BY <1>1, <2>1, <2>3
  <2> QED
    BY <2>2, <2>3
<1>6. /\ outputs \in [S -> {"none", "earlier", "this"}]
      /\ \A q \in S : q # s => outputs[q] = done.outputs[q]
      /\ conduct.writes => outputs[s] = "this"
      /\ ~conduct.writes => outputs[s] = done.outputs[s]
  <2> HIDE DEF S, s, conduct
  <2> QED
    BY <1>1, <1>2
<1>7. \A q \in Gone(k - 1) : q # s /\ q \in S
  <2>1. Range(done.ok) \subseteq S /\ Range(done.failed) \subseteq S
    <3> HIDE DEF S
    <3> QED
      BY <1>1 DEF Range
  <2> QED
    BY <1>1, <1>3, <2>1
<1>8. /\ next = [outputs |-> next.outputs, ok |-> next.ok, failed |-> next.failed]
      /\ next.outputs = outputs /\ next.ok = ok /\ next.failed = failed
  <2> HIDE DEF outputs, ok, failed
  <2> QED
    BY <1>4
<1>9. success <=> conduct.code = 0 /\ outputs[s] # "none"
  OBVIOUS
<1> HIDE DEF outputs, ok, failed, success, Gone, s, conduct
<1>10. \A q \in S \ Gone(k) : outputs[q] # "this"
  BY <1>1, <1>3, <1>6
<1>11. Range(ok) \cup Range(failed) = Gone(k) /\ Range(ok) \cap Range(failed) = {}
  BY <1>1, <1>3, <1>5
<1>12. \A q \in Range(ok) : outputs[q] = "this" \/ (outputs[q] = "earlier" /\ ~i.conduct[q].writes)
  <2>1. \A q \in Range(done.ok) : outputs[q] = done.outputs[q]
    BY <1>1, <1>6, <1>7
  <2>2. ASSUME success
        PROVE  outputs[s] = "this" \/ (outputs[s] = "earlier" /\ ~conduct.writes)
    <3>1. CASE conduct.writes
      BY <1>6, <3>1
    <3>2. CASE ~conduct.writes
      <4>1. outputs[s] = done.outputs[s] /\ outputs[s] # "none"
        BY <1>6, <1>9, <2>2, <3>2
      <4>2. done.outputs[s] # "this" /\ done.outputs[s] \in {"none", "earlier", "this"}
        BY <1>1, <1>2, <1>3
      <4> QED
        BY <3>2, <4>1, <4>2
    <3> QED
      BY <3>1, <3>2
  <2> QED
    BY <1>1, <1>5, <2>1, <2>2 DEF conduct
<1>13. \A q \in Range(failed) : i.conduct[q].code # 0 \/ outputs[q] = "none"
  <2>1. \A q \in Range(done.failed) : outputs[q] = done.outputs[q]
    BY <1>1, <1>6, <1>7
  <2> QED
    BY <1>1, <1>5, <1>9, <2>1 DEF conduct
<1> QED
  BY <1>5, <1>6, <1>8, <1>10, <1>11, <1>12, <1>13 DEF DoneWell, Gone

\* All sources.
LEMMA AllRendered ==
  ASSUME NEW i \in RenderInputs
  PROVE  DoneWell(i, Done(i), Len(i.sources))
<1> DEFINE n == Len(i.sources)
           S == ToSet(i.sources)
           After(k) == Renders!Run(i.conduct, Unrendered(i), SubSeq(i.sources, 1, k))
           T == {k \in 0 .. n : DoneWell(i, After(k), k)}
<1>1. i.sources \in Seq(S) /\ n \in Nat
  <2>1. i.sources \in Seq(S)
    BY RenderInputAssumption
  <2> HIDE DEF S
  <2> QED
    BY <2>1
<1>2. i.rendered.outputs \in [S -> {"none", "earlier"}]
  BY RenderInputAssumption
<1> HIDE DEF S
<1>3. After(0) = Unrendered(i)
  BY <1>1, Renders!Start
<1>4. ASSUME NEW k \in 1 .. n
      PROVE  After(k) = Render(After(k - 1), i.sources[k], i.conduct[i.sources[k]])
  <2>1. After(k) = RenderTurn(i.conduct, After(k - 1), i.sources[k])
    BY <1>1, Renders!Turn
  <2> HIDE DEF After
  <2> QED
    BY <2>1 DEF RenderTurn
<1>5. Done(i) = After(n)
  BY <1>1, Renders!Finish DEF Done
<1> HIDE DEF After
<1>6. 0 \in T
  <2> DEFINE outputs == i.rendered.outputs
             none == Unrendered(i).ok
  <2>1. /\ Unrendered(i).outputs = outputs /\ Unrendered(i).ok = none /\ Unrendered(i).failed = none
        /\ none = <<>>
        /\ Unrendered(i) = [outputs |-> outputs, ok |-> none, failed |-> none]
    BY DEF Unrendered
  <2> HIDE DEF outputs, none
  <2>2. none \in Seq(S) /\ Range(none) = {} /\ {i.sources[j] : j \in 1 .. 0} = {}
    BY <2>1 DEF Range
  <2>3. outputs \in [S -> {"none", "earlier", "this"}] /\ \A s \in S : outputs[s] # "this"
    BY <1>2 DEF outputs
  <2>4. DoneWell(i, Unrendered(i), 0)
    BY <2>1, <2>2, <2>3 DEF DoneWell, S
  <2> QED
    BY <1>1, <1>3, <2>4
<1>7. \A k \in 1 .. n : k - 1 \in T => k \in T
  <2> SUFFICES ASSUME NEW k \in 1 .. n, k - 1 \in T PROVE k \in T
    OBVIOUS
  <2>1. DoneWell(i, Render(After(k - 1), i.sources[k], i.conduct[i.sources[k]]), k)
    BY NextRendered
  <2> QED
    BY <1>1, <1>4, <2>1
<1> HIDE DEF T
<1>8. n \in T
  <2> HIDE DEF n
  <2>1. \A k \in 0 .. n : k \in T
    BY <1>1, <1>6, <1>7, Renders!UpTo
  <2> QED
    BY <1>1, <2>1
<1> QED
  BY <1>5, <1>8 DEF T

\* Whatever the renderer does, the report of cmd_render tells it.
THEOREM RenderAlwaysTells == Spec => []RenderTells
<1>1. Picked => RenderTells
  <2> SUFFICES ASSUME about = "render", input \in RenderInputs PROVE RenderTells
    BY DEF Picked, RenderTells
  <2> DEFINE done == Done(input)
             after == CmdRender(input.rendered, input.version, input.sources, input.conduct)
             S == ToSet(input.sources)
  <2>1. /\ input.version \in {"fails", "silent", "prints"}
        /\ input.rendered = [outputs |-> input.rendered.outputs, report |-> input.rendered.report]
        /\ input.rendered.report.by = "earlier"
        /\ input.sources \in Seq(S)
    BY RenderInputAssumption
  <2>2. /\ input.version = "fails" => after =
             [input.rendered EXCEPT !.report = [status |-> "unavailable", by |-> "this",
                                                ok |-> <<>>, failed |-> <<>>]]
        /\ input.version = "silent" => after = input.rendered
        /\ input.version = "prints" => after =
             [outputs |-> done.outputs,
              report |-> [status |-> IF done.failed = <<>> THEN "rendered" ELSE "partial",
                          by |-> "this", ok |-> done.ok, failed |-> done.failed]]
    BY CmdRenderRuns
  <2>3. DoneWell(input, done, Len(input.sources))
    BY AllRendered
  <2> HIDE DEF done, after, S
  <2>4. CASE input.version = "fails"
    <3> DEFINE outputs == input.rendered.outputs
               report == input.rendered.report
               missing == [status |-> "unavailable", by |-> "this", ok |-> <<>>, failed |-> <<>>]
    <3>1. input.rendered = [outputs |-> outputs, report |-> report] /\ missing.by = "this"
      BY <2>1
    <3>2. after = [input.rendered EXCEPT !.report = missing]
      BY <2>2, <2>4
    <3> HIDE DEF outputs, report, missing
    <3>3. after = [outputs |-> outputs, report |-> missing]
      BY <3>1, <3>2
    <3>4. after.outputs = outputs /\ after.report = missing
      BY <3>3
    <3> QED
      BY <2>4, <3>1, <3>4 DEF RenderTells, after, outputs
  <2>5. CASE input.version = "silent"
    <3>1. after = input.rendered
      BY <2>2, <2>5
    <3> QED
      BY <2>1, <2>5, <3>1 DEF RenderTells, after
  <2>6. CASE input.version = "prints"
    <3> DEFINE outputs == done.outputs
               ok == done.ok
               failed == done.failed
               status == IF failed = <<>> THEN "rendered" ELSE "partial"
    <3>1. after = [outputs |-> outputs,
                   report |-> [status |-> status, by |-> "this", ok |-> ok, failed |-> failed]]
      BY <2>2, <2>6
    <3>2. /\ ok \in Seq(S) /\ failed \in Seq(S)
          /\ Range(ok) \cup Range(failed) = {input.sources[j] : j \in 1 .. Len(input.sources)}
          /\ Range(ok) \cap Range(failed) = {}
          /\ \A s \in Range(ok) :
               outputs[s] = "this" \/ (outputs[s] = "earlier" /\ ~input.conduct[s].writes)
          /\ \A s \in Range(failed) : input.conduct[s].code # 0 \/ outputs[s] = "none"
      BY <2>3 DEF DoneWell, S
    <3> HIDE DEF outputs, ok, failed
    <3>3. status = "rendered" <=> Range(failed) = {}
      BY <3>2 DEF Range
    <3> HIDE DEF status
    <3>4. /\ after.outputs = outputs /\ after.report.status = status /\ after.report.by = "this"
          /\ after.report.ok = ok /\ after.report.failed = failed
      BY <3>1
    <3>5. /\ ToSet(ok) = Range(ok) /\ ToSet(failed) = Range(failed)
          /\ ToSet(input.sources) = {input.sources[j] : j \in 1 .. Len(input.sources)}
      BY <2>1, <3>2 DEF ToSet, Range
    <3>6. /\ after.report.by = "this" /\ input.version # "silent"
          /\ ToSet(after.report.ok) = Range(ok) /\ ToSet(after.report.failed) = Range(failed)
          /\ after.report.status = "rendered" <=> Range(failed) = {}
      BY <2>6, <3>3, <3>4, <3>5
    <3> QED
      BY <2>6, <3>2, <3>4, <3>5, <3>6 DEF RenderTells, after
  <2> QED
    BY <2>1, <2>4, <2>5, <2>6
<1> QED
  BY <1>1, PickedFromInputs, PTL
-----------------------------------------------------------------------------
(* inventory.render_tree                                                    *)

\* R puts any two elements of S in one order.
Orders(S, R) ==
  /\ \A x \in S : <<x, x>> \notin R
  /\ \A x, y, z \in S : <<x, y>> \in R /\ <<y, z>> \in R => <<x, z>> \in R
  /\ \A x, y \in S : x = y \/ <<x, y>> \in R \/ <<y, x>> \in R

Lower(S, R, x) == {y \in S : <<y, x>> \in R}

\* The sequence has each element of S once, in the order of R.
Sorted(S, R, seq) ==
  /\ seq \in [1 .. Cardinality(S) -> S]
  /\ \A x \in S : \E i \in 1 .. Cardinality(S) : seq[i] = x
  /\ \A i, j \in 1 .. Cardinality(S) : i < j <=> <<seq[i], seq[j]>> \in R

\* Of two elements the later has more below it.
LEMMA RankGrows ==
  ASSUME NEW S, IsFiniteSet(S), NEW R, Orders(S, R), NEW x \in S, NEW y \in S, <<x, y>> \in R
  PROVE  Cardinality(Lower(S, R, x)) < Cardinality(Lower(S, R, y))
<1>1. Lower(S, R, x) \in SUBSET Lower(S, R, y)
  BY DEF Lower, Orders
<1>2. x \in Lower(S, R, y) /\ x \notin Lower(S, R, x)
  BY DEF Lower, Orders
<1>3. IsFiniteSet(Lower(S, R, y))
  <2>1. Lower(S, R, y) \in SUBSET S
    BY DEF Lower
  <2> QED
    BY <2>1, FS_Subset
<1>4. /\ Cardinality(Lower(S, R, x)) <= Cardinality(Lower(S, R, y))
      /\ Cardinality(Lower(S, R, y)) = Cardinality(Lower(S, R, x)) => Lower(S, R, y) = Lower(S, R, x)
      /\ IsFiniteSet(Lower(S, R, x))
  BY <1>1, <1>3, FS_Subset
<1>5. Cardinality(Lower(S, R, x)) \in Nat /\ Cardinality(Lower(S, R, y)) \in Nat
  BY <1>3, <1>4, FS_CardinalityType
<1> QED
  BY <1>2, <1>4, <1>5

\* Each number below the size of S is the rank of one element.
LEMMA Ranks ==
  ASSUME NEW S, IsFiniteSet(S), NEW R, Orders(S, R)
  PROVE  /\ Cardinality(S) \in Nat
         /\ \A x \in S : Cardinality(Lower(S, R, x)) \in 0 .. Cardinality(S) - 1
         /\ \A i \in 1 .. Cardinality(S) : \E x \in S : Cardinality(Lower(S, R, x)) = i - 1
<1> DEFINE n == Cardinality(S)
           low == [x \in S |-> Cardinality(Lower(S, R, x))]
<1>1. n \in Nat
  BY FS_CardinalityType
<1>2. ASSUME NEW x \in S PROVE low[x] \in 0 .. n - 1
  <2>1. Lower(S, R, x) \in SUBSET (S \ {x})
    BY DEF Lower, Orders
  <2>2. IsFiniteSet(S \ {x}) /\ Cardinality(S \ {x}) = n - 1
    BY FS_RemoveElement
  <2>3. /\ IsFiniteSet(Lower(S, R, x))
        /\ Cardinality(Lower(S, R, x)) <= n - 1
    BY <2>1, <2>2, FS_Subset
  <2>4. Cardinality(Lower(S, R, x)) \in Nat
    BY <2>3, FS_CardinalityType
  <2> QED
    BY <1>1, <2>3, <2>4
<1>3. low \in Injection(S, 0 .. n - 1)
  <2>1. low \in [S -> 0 .. n - 1]
    BY <1>2
  <2>2. ASSUME NEW x \in S, NEW y \in S, low[x] = low[y] PROVE x = y
    <3>1. x = y \/ <<x, y>> \in R \/ <<y, x>> \in R
      BY DEF Orders
    <3>2. low[x] \in Nat /\ low[y] \in Nat
      BY <1>1, <1>2
    <3> QED
      BY <2>2, <3>1, <3>2, RankGrows
  <2> HIDE DEF low, n
  <2> QED
    BY <2>1, <2>2 DEF Injection, IsInjective
<1>4. IsFiniteSet(0 .. n - 1) /\ Cardinality(0 .. n - 1) = n
  BY <1>1, FS_Interval
<1>5. low \in Surjection(S, 0 .. n - 1)
  <2> HIDE DEF low
  <2> QED
    BY <1>3, <1>4, FS_Injection
<1>6. ASSUME NEW i \in 1 .. n PROVE \E x \in S : low[x] = i - 1
  <2>1. i - 1 \in 0 .. n - 1
    BY <1>1
  <2> HIDE DEF low
  <2> QED
    BY <1>5, <2>1 DEF Surjection
<1> QED
  BY <1>1, <1>2, <1>6

\* Each element of the sequence is where its rank says.
Ranked(S, R, seq) ==
  /\ seq = [i \in 1 .. Cardinality(S) |-> seq[i]]
  /\ \A i \in 1 .. Cardinality(S) : seq[i] \in S /\ Cardinality(Lower(S, R, seq[i])) = i - 1

\* So the elements by their ranks are S in its order.
LEMMA RankedIsSorted ==
  ASSUME NEW S, IsFiniteSet(S), NEW R, Orders(S, R), NEW seq, Ranked(S, R, seq)
  PROVE  Sorted(S, R, seq)
<1> DEFINE n == Cardinality(S)
           low(x) == Cardinality(Lower(S, R, x))
<1>1. /\ n \in Nat
      /\ \A x \in S : low(x) \in 0 .. n - 1
      /\ \A i \in 1 .. n : \E x \in S : low(x) = i - 1
  BY Ranks
<1>2. \A x, y \in S : <<x, y>> \in R => low(x) < low(y)
  BY RankGrows
<1>3. \A i \in 1 .. n : seq[i] \in S /\ low(seq[i]) = i - 1
  BY DEF Ranked
<1>4. seq = [i \in 1 .. n |-> seq[i]]
  BY DEF Ranked
<1> HIDE DEF n, low
<1>5. \A x, y \in S : low(x) = low(y) => x = y
  <2> TAKE x, y \in S
  <2>1. x = y \/ <<x, y>> \in R \/ <<y, x>> \in R
    BY DEF Orders
  <2> QED
    BY <1>1, <1>2, <2>1
<1>6. seq \in [1 .. n -> S]
  BY <1>3, <1>4
<1>7. ASSUME NEW x \in S PROVE \E i \in 1 .. n : seq[i] = x
  <2> DEFINE i == low(x) + 1
  <2>1. i \in 1 .. n /\ low(seq[i]) = low(x)
    BY <1>1, <1>3
  <2> QED
    BY <1>3, <1>5, <2>1
<1>8. ASSUME NEW i \in 1 .. n, NEW j \in 1 .. n PROVE i < j <=> <<seq[i], seq[j]>> \in R
  <2>1. seq[i] \in S /\ seq[j] \in S /\ low(seq[i]) = i - 1 /\ low(seq[j]) = j - 1
    BY <1>3
  <2>2. seq[i] = seq[j] \/ <<seq[i], seq[j]>> \in R \/ <<seq[j], seq[i]>> \in R
    BY <2>1 DEF Orders
  <2>3. <<seq[i], seq[j]>> \in R => i < j
    BY <1>1, <1>2, <2>1
  <2>4. <<seq[j], seq[i]>> \in R => j < i
    BY <1>1, <1>2, <2>1
  <2>5. seq[i] = seq[j] => i = j
    BY <1>1, <2>1
  <2> QED
    BY <1>1, <2>2, <2>3, <2>4, <2>5
<1> QED
  BY <1>6, <1>7, <1>8 DEF Sorted, n
-----------------------------------------------------------------------------
(* The bytes of a path                                                      *)

EntryNames == Seq(Nat \ {Slash})
BytePaths == Seq(EntryNames) \ {<<>>}

JoinTurn(c, text, part) == text \o <<Slash>> \o part
Joins == INSTANCE Loops WITH Op <- JoinTurn

\* A path is written in a loop over its components but the first.
LEMMA BytesRun ==
  ASSUME NEW path
  PROVE  Bytes(path) = Joins!Run(0, Head(path), Tail(path))
BY DEF Bytes, Joins!Run, JoinTurn, FoldLeft, MapThenFoldSet, Max, Joins!Max

\* What is written of the first k components, and where the k-th starts.
Upto(path, k) == Bytes(SubSeq(path, 1, k))
Ends(path, k) == Len(Upto(path, k))
Starts(path, k) == IF k = 1 THEN 0 ELSE Ends(path, k - 1) + 1

\* The first component is written as it is, each other behind a slash.
LEMMA UptoMore ==
  ASSUME NEW path \in BytePaths
  PROVE  /\ Upto(path, 1) = path[1]
         /\ \A k \in 1 .. Len(path) - 1 :
              Upto(path, k + 1) = Upto(path, k) \o <<Slash>> \o path[k + 1]
<1>0. path \in Seq(EntryNames) /\ Len(path) \in Nat \ {0}
  BY DEF BytePaths
<1>1. Upto(path, 1) = path[1]
  <2> DEFINE one == SubSeq(path, 1, 1)
  <2>1. one \in Seq(EntryNames) /\ Len(one) = 1 /\ one[1] = path[1]
    BY <1>0
  <2> HIDE DEF one
  <2>2. Head(one) = path[1] /\ Tail(one) \in Seq(EntryNames) /\ Len(Tail(one)) = 0
    <3> DEFINE first == path[1]
    <3>1. one \in Seq(EntryNames) /\ Len(one) = 1 /\ one[1] = first
      BY <2>1
    <3> HIDE DEF first
    <3>2. Head(one) = first
      BY <3>1
    <3>3. Tail(one) \in Seq(EntryNames) /\ Len(Tail(one)) = 0
      BY <3>1
    <3> QED
      BY <3>2, <3>3 DEF first
  <2>3. Bytes(one) = Joins!Run(0, path[1], Tail(one))
    BY <2>2, BytesRun
  <2> DEFINE rest == Tail(one)
             first == path[1]
  <2>4. Joins!Run(0, first, rest) = first
    <3>1. rest \in Seq(EntryNames)
      BY <2>2
    <3>0. Len(rest) = 0
      BY <2>2
    <3> HIDE DEF rest, first
    <3>2. Joins!Run(0, first, SubSeq(rest, 1, 0)) = first
      BY <3>1, Joins!Start
    <3>3. Joins!Run(0, first, SubSeq(rest, 1, Len(rest))) = Joins!Run(0, first, rest)
      BY <3>1, Joins!Finish
    <3> QED
      BY <3>0, <3>2, <3>3
  <2> QED
    BY <2>3, <2>4 DEF Upto, one
<1>2. ASSUME NEW k \in 1 .. Len(path) - 1
      PROVE  Upto(path, k + 1) = Upto(path, k) \o <<Slash>> \o path[k + 1]
  <2> DEFINE some == SubSeq(path, 1, k)
             more == SubSeq(path, 1, k + 1)
             next == path[k + 1]
  <2>1. /\ some \in Seq(EntryNames) /\ Len(some) = k /\ \A i \in 1 .. k : some[i] = path[i]
        /\ more \in Seq(EntryNames) /\ Len(more) = k + 1 /\ \A i \in 1 .. k + 1 : more[i] = path[i]
        /\ next \in EntryNames /\ k \in Nat \ {0}
    BY <1>0
  <2> HIDE DEF some, more, next
  <2>2. Head(some) = path[1] /\ Head(more) = path[1] /\ Tail(some) \in Seq(EntryNames)
    BY <2>1
  <2>3. Tail(more) = Append(Tail(some), next)
    <3>1. /\ Tail(more) \in Seq(EntryNames) /\ Len(Tail(more)) = k
          /\ \A i \in 1 .. k : Tail(more)[i] = path[i + 1]
      BY <2>1
    <3>2. /\ Append(Tail(some), next) \in Seq(EntryNames) /\ Len(Append(Tail(some), next)) = k
          /\ \A i \in 1 .. k : Append(Tail(some), next)[i] = path[i + 1]
      <4>1. /\ Tail(some) \in Seq(EntryNames) /\ Len(Tail(some)) = k - 1
            /\ \A i \in 1 .. k - 1 : Tail(some)[i] = path[i + 1]
        BY <2>1
      <4>2. next = path[k + 1]
        BY DEF next
      <4> QED
        BY <2>1, <4>1, <4>2
    <3> QED
      BY <3>1, <3>2
  <2>4. Joins!Run(0, path[1], Append(Tail(some), next))
          = JoinTurn(0, Joins!Run(0, path[1], Tail(some)), next)
    <3> DEFINE rest == Tail(some)
               first == path[1]
    <3>1. rest \in Seq(EntryNames)
      BY <2>2
    <3> HIDE DEF rest, first
    <3>2. Joins!Run(0, first, Append(rest, next)) = JoinTurn(0, Joins!Run(0, first, rest), next)
      BY <3>1, Joins!Longer
    <3> QED
      BY <3>2 DEF rest, first
  <2>5. Bytes(more) = JoinTurn(0, Bytes(some), next)
    BY <2>2, <2>3, <2>4, BytesRun
  <2> QED
    BY <2>5 DEF JoinTurn, Upto, some, more, next
<1> QED
  BY <1>1, <1>2

\* The text of the first m components, as laid out as it is.
LaidOut(path, text, m) ==
  /\ text \in Seq(Nat) /\ Len(text) = Ends(path, m)
  /\ \A k \in 1 .. m :
       /\ Starts(path, k) \in Nat /\ Ends(path, k) = Starts(path, k) + Len(path[k])
       /\ Ends(path, k) <= Len(text)
       /\ \A j \in 1 .. Len(path[k]) : text[Starts(path, k) + j] = path[k][j]
  /\ \A k \in 1 .. m - 1 : /\ Starts(path, k + 1) = Ends(path, k) + 1
                           /\ Ends(path, k) < Len(text) /\ text[Ends(path, k) + 1] = Slash

\* What is laid out with one component more is laid out as it should be.
LEMMA NextLaidOut ==
  ASSUME NEW path \in BytePaths, NEW m \in 1 .. Len(path) - 1, LaidOut(path, Upto(path, m), m)
  PROVE  LaidOut(path, Upto(path, m + 1), m + 1)
<1> DEFINE text == Upto(path, m)
           more == Upto(path, m + 1)
           next == path[m + 1]
<1>1. path \in Seq(EntryNames) /\ m \in Nat \ {0} /\ next \in EntryNames /\ m + 1 \in 1 .. Len(path)
  BY DEF BytePaths
<1>2. text \in Seq(Nat) /\ Len(text) = Ends(path, m)
  BY DEF LaidOut
<1>3. next \in Seq(Nat)
  BY <1>1 DEF EntryNames
<1>4. more = text \o <<Slash>> \o next
  BY UptoMore
<1>5. /\ more \in Seq(Nat) /\ Len(more) = Len(text) + 1 + Len(next)
      /\ \A i \in 1 .. Len(text) : more[i] = text[i]
      /\ more[Len(text) + 1] = Slash
      /\ \A j \in 1 .. Len(next) : more[Len(text) + 1 + j] = next[j]
  <2> HIDE DEF text, next, more
  <2>1. Slash \in Nat
    BY DEF Slash
  <2> DEFINE two == text \o <<Slash>>
  <2>2. /\ two \in Seq(Nat) /\ Len(two) = Len(text) + 1 /\ two[Len(text) + 1] = Slash
        /\ \A i \in 1 .. Len(text) : two[i] = text[i]
    BY <1>2, <2>1
  <2> HIDE DEF two
  <2>3. more = two \o next
    BY <1>4 DEF two
  <2>4. /\ more \in Seq(Nat) /\ Len(more) = Len(two) + Len(next)
        /\ \A i \in 1 .. Len(two) : more[i] = two[i]
        /\ \A j \in 1 .. Len(next) : more[Len(two) + j] = next[j]
    <3> HIDE DEF more, next, text
    <3>1. two \in Seq(Nat) /\ next \in Seq(Nat) /\ more = two \o next
      BY <1>3, <2>2, <2>3
    <3> QED
      BY <3>1
  <2> QED
    BY <1>2, <1>3, <2>2, <2>4
<1>6. Ends(path, m + 1) = Len(more) /\ Starts(path, m + 1) = Ends(path, m) + 1
  BY <1>1 DEF Ends, Starts
<1>7. ASSUME NEW k \in 1 .. m
      PROVE  /\ Starts(path, k) \in Nat /\ Ends(path, k) = Starts(path, k) + Len(path[k])
             /\ Ends(path, k) <= Len(more)
             /\ \A j \in 1 .. Len(path[k]) : more[Starts(path, k) + j] = path[k][j]
  <2>1. /\ Starts(path, k) \in Nat /\ Ends(path, k) = Starts(path, k) + Len(path[k])
        /\ Ends(path, k) <= Len(text)
        /\ \A j \in 1 .. Len(path[k]) : text[Starts(path, k) + j] = path[k][j]
    BY DEF LaidOut
  <2>2. Len(path[k]) \in Nat /\ Len(next) \in Nat /\ Len(text) \in Nat
    <3>1. path[k] \in EntryNames
      BY <1>1
    <3>2. path[k] \in Seq(Nat)
      BY <3>1 DEF EntryNames
    <3> QED
      BY <1>2, <1>3, <3>2
  <2> HIDE DEF text, more, next
  <2>3. \A j \in 1 .. Len(path[k]) : Starts(path, k) + j \in 1 .. Len(text)
    BY <2>1, <2>2
  <2>4. \A j \in 1 .. Len(path[k]) : more[Starts(path, k) + j] = path[k][j]
    <3>1. \A i \in 1 .. Len(text) : more[i] = text[i]
      BY <1>5
    <3>2. \A j \in 1 .. Len(path[k]) : text[Starts(path, k) + j] = path[k][j]
      BY <2>1
    <3> QED
      BY <2>3, <3>1, <3>2
  <2>5. Ends(path, k) <= Len(more)
    BY <1>5, <2>1, <2>2
  <2> QED
    BY <2>1, <2>4, <2>5
<1>8. ASSUME NEW k \in 1 .. m - 1
      PROVE  /\ Starts(path, k + 1) = Ends(path, k) + 1
             /\ Ends(path, k) < Len(more) /\ more[Ends(path, k) + 1] = Slash
  <2>1. /\ Starts(path, k + 1) = Ends(path, k) + 1
        /\ Ends(path, k) < Len(text) /\ text[Ends(path, k) + 1] = Slash
    BY DEF LaidOut
  <2>2. Ends(path, k) \in Nat
    <3>1. Starts(path, k) \in Nat /\ Ends(path, k) = Starts(path, k) + Len(path[k])
      BY <1>1 DEF LaidOut
    <3>2. path[k] \in EntryNames
      BY <1>1
    <3> QED
      BY <3>1, <3>2 DEF EntryNames
  <2>3. Len(next) \in Nat /\ Len(text) \in Nat
    BY <1>2, <1>3
  <2> HIDE DEF text, more, next
  <2>4. Ends(path, k) + 1 \in 1 .. Len(text)
    BY <2>1, <2>2, <2>3
  <2>5. more[Ends(path, k) + 1] = text[Ends(path, k) + 1]
    BY <1>5, <2>4
  <2>6. Ends(path, k) < Len(more)
    BY <1>5, <2>1, <2>2, <2>3
  <2> QED
    BY <2>1, <2>5, <2>6
<1>9. Len(text) \in Nat /\ Len(next) \in Nat
  BY <1>2, <1>3
<1> HIDE DEF text, more, next
<1>10. /\ Starts(path, m + 1) \in Nat /\ Ends(path, m + 1) = Starts(path, m + 1) + Len(next)
       /\ Ends(path, m + 1) <= Len(more)
       /\ \A j \in 1 .. Len(next) : more[Starts(path, m + 1) + j] = next[j]
  BY <1>2, <1>5, <1>6, <1>9
<1>11. /\ Starts(path, m + 1) = Ends(path, m) + 1
       /\ Ends(path, m) < Len(more) /\ more[Ends(path, m) + 1] = Slash
  BY <1>2, <1>5, <1>6, <1>9
<1>12. \A k \in 1 .. m + 1 : k \in 1 .. m \/ k = m + 1
  BY <1>1
<1>13. \A k \in 1 .. m : k \in 1 .. m - 1 \/ k = m
  BY <1>1
<1>14. (m + 1) - 1 = m
  BY <1>1
<1>15. \A k \in 1 .. m + 1 :
       /\ Starts(path, k) \in Nat /\ Ends(path, k) = Starts(path, k) + Len(path[k])
       /\ Ends(path, k) <= Len(more)
       /\ \A j \in 1 .. Len(path[k]) : more[Starts(path, k) + j] = path[k][j]
  BY <1>7, <1>10, <1>12 DEF next
<1>16. \A k \in 1 .. m : /\ Starts(path, k + 1) = Ends(path, k) + 1
                         /\ Ends(path, k) < Len(more) /\ more[Ends(path, k) + 1] = Slash
  BY <1>8, <1>11, <1>13
<1>17. more \in Seq(Nat) /\ Len(more) = Ends(path, m + 1)
  BY <1>5, <1>6
<1> QED
  BY <1>14, <1>15, <1>16, <1>17 DEF LaidOut, more

\* So is the text of a path.
LEMMA Laid ==
  ASSUME NEW path \in BytePaths, NEW d \in 1 .. Len(path)
  PROVE  LaidOut(path, Upto(path, d), d)
<1> DEFINE n == Len(path)
           T == {m \in 0 .. n : m = 0 \/ LaidOut(path, Upto(path, m), m)}
<1>1. path \in Seq(EntryNames) /\ n \in Nat \ {0} /\ path[1] \in Seq(Nat)
  BY DEF BytePaths, EntryNames
<1>2. 0 \in T
  BY <1>1
<1>3. ASSUME NEW m \in 1 .. n, m - 1 \in T PROVE m \in T
  <2>1. CASE m = 1
    <3>1. Upto(path, 1) = path[1]
      BY UptoMore
    <3>2. Ends(path, 1) = Len(path[1]) /\ Starts(path, 1) = 0 /\ Len(path[1]) \in Nat
      BY <1>1, <3>1 DEF Ends, Starts
    <3>3. \A k \in 1 .. 1 : k = 1
      OBVIOUS
    <3>4. LaidOut(path, path[1], 1)
      BY <1>1, <3>2, <3>3 DEF LaidOut
    <3> QED
      BY <2>1, <3>1, <3>4, <1>1
  <2>2. CASE m # 1
    <3>1. m - 1 \in 1 .. Len(path) - 1 /\ (m - 1) + 1 = m
      BY <1>1, <2>2
    <3>2. LaidOut(path, Upto(path, m - 1), m - 1)
      BY <1>3, <3>1
    <3>3. LaidOut(path, Upto(path, (m - 1) + 1), (m - 1) + 1)
      <4> DEFINE k == m - 1
      <4>1. k \in 1 .. Len(path) - 1 /\ LaidOut(path, Upto(path, k), k)
        BY <3>1, <3>2
      <4> HIDE DEF k
      <4>2. LaidOut(path, Upto(path, k + 1), k + 1)
        BY <4>1, NextLaidOut
      <4> QED
        BY <4>2 DEF k
    <3> QED
      BY <1>1, <3>1, <3>3
  <2> QED
    BY <2>1, <2>2
<1> HIDE DEF T
<1>4. \A m \in 0 .. n : m \in T
  <2> HIDE DEF n
  <2> QED
    BY <1>1, <1>2, <1>3, Joins!UpTo
<1>5. d \in 0 .. n /\ d # 0
  BY <1>1
<1> QED
  BY <1>4, <1>5 DEF T

\* A path as its text has it: where each component starts and ends.
LEMMA TextOf ==
  ASSUME NEW path \in BytePaths
  PROVE  /\ path \in Seq(EntryNames) /\ Len(path) \in Nat \ {0}
         /\ \A k \in 1 .. Len(path) : path[k] \in Seq(Nat \ {Slash}) /\ Len(path[k]) \in Nat
         /\ Bytes(path) \in Seq(Nat) /\ Len(Bytes(path)) \in Nat
         /\ Starts(path, 1) = 0
         /\ Len(Bytes(path)) = Ends(path, Len(path))
         /\ LaidOut(path, Bytes(path), Len(path))
<1>1. path \in Seq(EntryNames) /\ Len(path) \in Nat \ {0}
  BY DEF BytePaths
<1>2. Upto(path, Len(path)) = Bytes(path)
  <2>1. SubSeq(path, 1, Len(path)) = path
    BY <1>1
  <2> QED
    BY <2>1 DEF Upto
<1>3. LaidOut(path, Bytes(path), Len(path))
  <2>1. Len(path) \in 1 .. Len(path)
    BY <1>1
  <2> QED
    BY <1>2, <2>1, Laid
<1>4. Bytes(path) \in Seq(Nat) /\ Len(Bytes(path)) = Ends(path, Len(path))
  BY <1>3 DEF LaidOut
<1>5. \A k \in 1 .. Len(path) : path[k] \in Seq(Nat \ {Slash}) /\ Len(path[k]) \in Nat
  BY <1>1 DEF EntryNames
<1>6. Starts(path, 1) = 0
  BY DEF Starts
<1>7. Len(Bytes(path)) \in Nat
  BY <1>4
<1> QED
  BY <1>1, <1>3, <1>4, <1>5, <1>6, <1>7

\* The text of p goes on where that of a ends.
Continues(a, p) ==
  /\ Len(Bytes(a)) <= Len(Bytes(p))
  /\ \A i \in 1 .. Len(Bytes(a)) : Bytes(p)[i] = Bytes(a)[i]

\* Up to the k-th component the two are one path.
Alike(a, p, k) ==
  /\ k <= Len(p) /\ Starts(p, k) = Starts(a, k)
  /\ \A j \in 1 .. k - 1 : p[j] = a[j]

\* Paths that are alike up to a component, and whose texts go on alike, are alike up
\* to the next.
LEMMA AlikeOn ==
  ASSUME NEW a \in BytePaths, NEW p \in BytePaths, Continues(a, p),
         NEW k \in 1 .. Len(a) - 1, Alike(a, p, k)
  PROVE  Alike(a, p, k + 1)
<1> DEFINE text == Bytes(a)
           its == Bytes(p)
           s == Starts(a, k)
           m == Len(a[k])
           n == Len(p[k])
<1>1. /\ a \in Seq(EntryNames) /\ Len(a) \in Nat /\ p \in Seq(EntryNames) /\ Len(p) \in Nat
      /\ k \in Nat \ {0} /\ k \in 1 .. Len(a) /\ k \in 1 .. Len(p)
  BY TextOf DEF Alike
<1>2. /\ a[k] \in Seq(Nat \ {Slash}) /\ p[k] \in Seq(Nat \ {Slash}) /\ m \in Nat /\ n \in Nat
      /\ text \in Seq(Nat) /\ its \in Seq(Nat) /\ Len(text) \in Nat /\ Len(its) \in Nat
  BY <1>1, TextOf
<1>3. /\ s \in Nat /\ Ends(a, k) = s + m
      /\ \A j \in 1 .. m : text[s + j] = a[k][j]
      /\ Starts(a, k + 1) = s + m + 1 /\ s + m < Len(text) /\ text[s + m + 1] = Slash
  <2>1. LaidOut(a, text, Len(a))
    BY TextOf
  <2>2. /\ s \in Nat /\ Ends(a, k) = s + m
        /\ \A j \in 1 .. m : text[s + j] = a[k][j]
    BY <1>1, <2>1 DEF LaidOut
  <2>3. Starts(a, k + 1) = Ends(a, k) + 1 /\ Ends(a, k) < Len(text) /\ text[Ends(a, k) + 1] = Slash
    BY <1>1, <2>1 DEF LaidOut
  <2> QED
    BY <2>2, <2>3
<1>4. /\ Ends(p, k) = s + n /\ s + n <= Len(its)
      /\ \A j \in 1 .. n : its[s + j] = p[k][j]
      /\ k < Len(p) => Starts(p, k + 1) = s + n + 1 /\ its[s + n + 1] = Slash
      /\ k = Len(p) => Len(its) = s + n
  <2>1. LaidOut(p, its, Len(p)) /\ Starts(p, k) = s
    BY TextOf DEF Alike
  <2>2. /\ Ends(p, k) = s + n /\ s + n <= Len(its)
        /\ \A j \in 1 .. n : its[s + j] = p[k][j]
    BY <1>1, <2>1 DEF LaidOut
  <2>3. ASSUME k < Len(p) PROVE Starts(p, k + 1) = Ends(p, k) + 1 /\ its[Ends(p, k) + 1] = Slash
    <3>1. k \in 1 .. Len(p) - 1
      BY <1>1, <2>3
    <3> QED
      BY <2>1, <3>1 DEF LaidOut
  <2>4. Len(its) = Ends(p, Len(p))
    BY TextOf
  <2> QED
    BY <2>2, <2>3, <2>4
<1>5. Len(text) <= Len(its) /\ \A i \in 1 .. Len(text) : its[i] = text[i]
  BY DEF Continues
<1>6. \A j \in 1 .. m : a[k][j] # Slash
  BY <1>2
<1>7. \A j \in 1 .. n : p[k][j] # Slash
  BY <1>2
<1>8. \A j \in 1 .. Len(p) : j \in 1 .. k => j \in 1 .. k - 1 \/ j = k
  BY <1>1
<1>9. k < Len(p) \/ k = Len(p)
  BY <1>1
<1>10. n = m
  <2> HIDE DEF text, its, s, m, n
  <2>1. ASSUME n < m PROVE FALSE
    <3>0. s \in Nat /\ s + m < Len(text)
      BY <1>3
    <3>1. n + 1 \in 1 .. m /\ s + (n + 1) = s + n + 1 /\ s + n + 1 \in 1 .. Len(text)
      BY <1>2, <3>0, <2>1
    <3>2. text[s + (n + 1)] = a[k][n + 1] /\ a[k][n + 1] # Slash
      BY <1>3, <1>6, <3>1
    <3>3. its[s + n + 1] = text[s + n + 1]
      BY <1>5, <3>1
    <3>4. k # Len(p)
      BY <1>2, <1>3, <1>4, <1>5, <2>1
    <3> QED
      BY <1>4, <1>9, <3>1, <3>2, <3>3, <3>4
  <2>2. ASSUME m < n PROVE FALSE
    <3>1. m + 1 \in 1 .. n /\ s + (m + 1) = s + m + 1 /\ s + m + 1 \in 1 .. Len(text)
      BY <1>2, <1>3, <2>2
    <3>2. its[s + (m + 1)] = p[k][m + 1] /\ p[k][m + 1] # Slash
      BY <1>4, <1>7, <3>1
    <3>3. its[s + m + 1] = text[s + m + 1]
      BY <1>5, <3>1
    <3> QED
      BY <1>3, <3>1, <3>2, <3>3
  <2> QED
    BY <1>2, <2>1, <2>2
<1>11. p[k] = a[k]
  <2>1. ASSUME NEW j \in 1 .. m PROVE p[k][j] = a[k][j]
    <3> HIDE DEF text, its, s, m, n
    <3>0. s \in Nat /\ s + m < Len(text) /\ n = m /\ m \in Nat /\ Len(text) \in Nat
      BY <1>2, <1>3, <1>10
    <3>1. s + j \in 1 .. Len(text) /\ j \in 1 .. n
      BY <3>0
    <3>2. its[s + j] = text[s + j]
      BY <1>5, <3>1
    <3> QED
      BY <1>3, <1>4, <3>1, <3>2
  <2> DEFINE its_k == p[k]
             our_k == a[k]
  <2>2. our_k \in Seq(Nat) /\ its_k \in Seq(Nat) /\ Len(its_k) = Len(our_k)
    BY <1>2, <1>10
  <2>3. \A j \in 1 .. Len(our_k) : its_k[j] = our_k[j]
    BY <2>1
  <2> HIDE DEF its_k, our_k
  <2>4. its_k = our_k
    BY <2>2, <2>3
  <2> QED
    BY <2>4 DEF its_k, our_k
<1>12. k < Len(p) /\ Starts(p, k + 1) = Starts(a, k + 1)
  <2> HIDE DEF text, its, s, m, n
  <2>1. k # Len(p)
    BY <1>2, <1>3, <1>4, <1>5, <1>10
  <2> QED
    BY <1>3, <1>4, <1>9, <1>10, <2>1
<1>13. k + 1 <= Len(p) /\ (k + 1) - 1 = k
  BY <1>1, <1>12
<1>14. \A j \in 1 .. k : p[j] = a[j]
  <2> TAKE j \in 1 .. k
  <2>1. j \in 1 .. k - 1 \/ j = k
    BY <1>1
  <2> QED
    BY <1>11, <2>1 DEF Alike
<1> QED
  BY <1>12, <1>13, <1>14 DEF Alike

\* A path whose text starts with that of another is the same path but for what
\* may follow the name in the last component, and below it.
LEMMA Parse ==
  ASSUME NEW a \in BytePaths, NEW p \in BytePaths, Continues(a, p)
  PROVE  /\ Alike(a, p, Len(a))
         /\ Len(a[Len(a)]) <= Len(p[Len(a)])
         /\ \A j \in 1 .. Len(a[Len(a)]) : p[Len(a)][j] = a[Len(a)][j]
<1> DEFINE d == Len(a)
           T == {k \in 0 .. d : k = 0 \/ Alike(a, p, k)}
           text == Bytes(a)
           its == Bytes(p)
           s == Starts(a, d)
           m == Len(a[d])
           n == Len(p[d])
<1>1. /\ a \in Seq(EntryNames) /\ d \in Nat \ {0} /\ p \in Seq(EntryNames) /\ Len(p) \in Nat \ {0}
      /\ Starts(a, 1) = 0 /\ Starts(p, 1) = 0 /\ d \in 1 .. d
  BY TextOf
<1>2. 0 \in T
  BY <1>1
<1>3. ASSUME NEW k \in 1 .. d, k - 1 \in T PROVE k \in T
  <2>1. CASE k = 1
    <3>1. Alike(a, p, 1)
      BY <1>1 DEF Alike
    <3> QED
      BY <1>1, <2>1, <3>1
  <2>2. CASE k # 1
    <3> DEFINE h == k - 1
    <3>1. h \in 1 .. Len(a) - 1 /\ h + 1 = k
      BY <1>1, <2>2
    <3>2. Alike(a, p, h)
      BY <1>3, <3>1
    <3> HIDE DEF h
    <3>3. Alike(a, p, h + 1)
      BY <3>1, <3>2, AlikeOn
    <3> QED
      BY <1>1, <3>1, <3>3
  <2> QED
    BY <2>1, <2>2
<1>4. Alike(a, p, d)
  <2> HIDE DEF T
  <2>1. \A k \in 0 .. d : k \in T
    <3> HIDE DEF d
    <3> QED
      BY <1>1, <1>2, <1>3, Joins!UpTo
  <2>2. d \in T
    BY <1>1, <2>1
  <2> QED
    BY <1>1, <2>2 DEF T
<1>5. d \in 1 .. Len(p) /\ Starts(p, d) = s
  BY <1>1, <1>4 DEF Alike
<1>6. /\ a[d] \in Seq(Nat \ {Slash}) /\ p[d] \in Seq(Nat \ {Slash}) /\ m \in Nat /\ n \in Nat
      /\ text \in Seq(Nat) /\ its \in Seq(Nat) /\ Len(text) \in Nat /\ Len(its) \in Nat
  BY <1>1, <1>5, TextOf
<1>7. /\ s \in Nat /\ Len(text) = s + m
      /\ \A j \in 1 .. m : text[s + j] = a[d][j]
  <2>1. LaidOut(a, text, d) /\ Len(text) = Ends(a, d)
    BY TextOf
  <2> QED
    BY <1>1, <2>1 DEF LaidOut
<1>8. /\ s + n <= Len(its)
      /\ \A j \in 1 .. n : its[s + j] = p[d][j]
      /\ d < Len(p) => its[s + n + 1] = Slash
      /\ d = Len(p) => Len(its) = s + n
  <2>1. LaidOut(p, its, Len(p)) /\ Len(its) = Ends(p, Len(p))
    BY TextOf
  <2>2. /\ Ends(p, d) = s + n /\ s + n <= Len(its)
        /\ \A j \in 1 .. n : its[s + j] = p[d][j]
    BY <1>5, <2>1 DEF LaidOut
  <2>3. ASSUME d < Len(p) PROVE its[Ends(p, d) + 1] = Slash
    <3>1. d \in 1 .. Len(p) - 1
      BY <1>1, <2>3
    <3> QED
      BY <2>1, <3>1 DEF LaidOut
  <2> QED
    BY <2>1, <2>2, <2>3
<1>9. Len(text) <= Len(its) /\ \A i \in 1 .. Len(text) : its[i] = text[i]
  BY DEF Continues
<1>10. \A j \in 1 .. m : a[d][j] # Slash
  BY <1>6
<1>11. d < Len(p) \/ d = Len(p)
  BY <1>1, <1>5
<1>12. m <= n
  <2> HIDE DEF text, its, s, m, n, d
  <2>1. ASSUME n < m PROVE FALSE
    <3>1. n + 1 \in 1 .. m /\ s + (n + 1) = s + n + 1 /\ s + n + 1 \in 1 .. Len(text)
      BY <1>6, <1>7, <2>1
    <3>2. text[s + (n + 1)] = a[d][n + 1] /\ a[d][n + 1] # Slash
      BY <1>7, <1>10, <3>1
    <3>3. its[s + n + 1] = text[s + n + 1]
      BY <1>9, <3>1
    <3>4. d # Len(p)
      BY <1>6, <1>7, <1>8, <1>9, <2>1
    <3> QED
      BY <1>8, <1>11, <3>1, <3>2, <3>3, <3>4
  <2> QED
    BY <1>6, <2>1
<1>13. ASSUME NEW j \in 1 .. m PROVE p[d][j] = a[d][j]
  <2> HIDE DEF text, its, s, m, n, d
  <2>1. s + j \in 1 .. Len(text) /\ j \in 1 .. n
    BY <1>6, <1>7, <1>12
  <2>2. its[s + j] = text[s + j]
    BY <1>9, <2>1
  <2> QED
    BY <1>7, <1>8, <2>1, <2>2
<1> QED
  BY <1>4, <1>12, <1>13

\* Only one path has its text.
LEMMA TextTells ==
  ASSUME NEW p \in BytePaths, NEW q \in BytePaths, Bytes(p) = Bytes(q)
  PROVE  p = q
<1>1. Continues(p, q) /\ Continues(q, p)
  <2>1. Len(Bytes(p)) \in Nat
    BY TextOf
  <2> QED
    BY <2>1 DEF Continues
<1>2. /\ p \in Seq(EntryNames) /\ Len(p) \in Nat \ {0} /\ q \in Seq(EntryNames) /\ Len(q) \in Nat \ {0}
  BY TextOf
<1>3. /\ Len(p) <= Len(q) /\ \A j \in 1 .. Len(p) - 1 : q[j] = p[j]
      /\ Len(p[Len(p)]) <= Len(q[Len(p)])
      /\ \A j \in 1 .. Len(p[Len(p)]) : q[Len(p)][j] = p[Len(p)][j]
  BY <1>1, Parse DEF Alike
<1>4. Len(q) <= Len(p) /\ Len(q[Len(q)]) <= Len(p[Len(q)])
  BY <1>1, Parse DEF Alike
<1> DEFINE n == Len(p)
           x == p[n]
           y == q[n]
<1>5. Len(q) = n /\ n \in Nat \ {0}
  BY <1>2, <1>3, <1>4
<1>6. x \in Seq(Nat \ {Slash}) /\ y \in Seq(Nat \ {Slash}) /\ Len(x) \in Nat /\ Len(y) \in Nat
  BY <1>5, TextOf
<1>7. Len(x) <= Len(y) /\ Len(y) <= Len(x) /\ \A j \in 1 .. Len(x) : y[j] = x[j]
  BY <1>3, <1>4, <1>5
<1>8. x = y
  <2> HIDE DEF x, y
  <2> QED
    BY <1>6, <1>7
<1>9. \A j \in 1 .. n : q[j] = p[j]
  <2> TAKE j \in 1 .. n
  <2>1. j \in 1 .. n - 1 \/ j = n
    BY <1>5
  <2> QED
    BY <1>3, <1>8, <2>1
<1> QED
  BY <1>2, <1>5, <1>9

\* a and b part after n bytes, where a ends or has the smaller byte.
PartsAt(a, b, n) ==
  /\ n \in Nat /\ n <= Len(a) /\ n < Len(b)
  /\ \A i \in 1 .. n : a[i] = b[i]
  /\ n < Len(a) => a[n + 1] < b[n + 1]

\* The first n elements are the same if they are one by one.
LEMMA SamePart ==
  ASSUME NEW a \in Seq(Nat), NEW b \in Seq(Nat), NEW n \in Nat, n <= Len(a), n <= Len(b)
  PROVE  SubSeq(a, 1, n) = SubSeq(b, 1, n) <=> \A i \in 1 .. n : a[i] = b[i]
<1> DEFINE s == SubSeq(a, 1, n)
           t == SubSeq(b, 1, n)
<1>1. s \in Seq(Nat) /\ Len(s) = n /\ \A i \in 1 .. n : s[i] = a[i]
  OBVIOUS
<1>a. t \in Seq(Nat) /\ Len(t) = n /\ \A i \in 1 .. n : t[i] = b[i]
  OBVIOUS
<1> HIDE DEF s, t
<1>2. s = t <=> \A i \in 1 .. n : s[i] = t[i]
  BY <1>1, <1>a
<1> QED
  BY <1>1, <1>a, <1>2 DEF s, t

\* A path comes before another if their texts part somewhere in its favour.
LEMMA BeforeAt ==
  ASSUME NEW p \in BytePaths, NEW q \in BytePaths
  PROVE  Before(p, q) <=> \E n \in Nat : PartsAt(Bytes(p), Bytes(q), n)
<1> DEFINE a == Bytes(p)
           b == Bytes(q)
<1>1. a \in Seq(Nat) /\ b \in Seq(Nat) /\ Len(a) \in Nat /\ Len(b) \in Nat
  BY TextOf
<1>2. Before(p, q) <=>
        \/ IsStrictPrefix(a, b)
        \/ \E i \in DOMAIN a \cap DOMAIN b : a[i] < b[i] /\ SubSeq(a, 1, i - 1) = SubSeq(b, 1, i - 1)
  BY DEF Before
<1> HIDE DEF a, b
<1>3. DOMAIN a = 1 .. Len(a) /\ DOMAIN b = 1 .. Len(b)
  BY <1>1
<1>4. ASSUME IsStrictPrefix(a, b) PROVE PartsAt(a, b, Len(a))
  <2>1. Len(a) <= Len(b) /\ SubSeq(a, 1, Len(a)) = SubSeq(b, 1, Len(a)) /\ a # b
    BY <1>4 DEF IsStrictPrefix, IsPrefix
  <2>2. \A i \in 1 .. Len(a) : a[i] = b[i]
    BY <1>1, <2>1, SamePart
  <2>3. Len(a) # Len(b)
    BY <1>1, <2>1, <2>2
  <2> QED
    BY <1>1, <2>1, <2>2, <2>3 DEF PartsAt
<1>5. ASSUME NEW i \in DOMAIN a \cap DOMAIN b, a[i] < b[i], SubSeq(a, 1, i - 1) = SubSeq(b, 1, i - 1)
      PROVE  \E n \in Nat : PartsAt(a, b, n)
  <2> DEFINE n == i - 1
  <2>1. n \in Nat /\ n < Len(a) /\ n < Len(b) /\ n + 1 = i
    BY <1>1, <1>3
  <2>2. \A j \in 1 .. n : a[j] = b[j]
    BY <1>1, <1>5, <2>1, SamePart
  <2> HIDE DEF n
  <2>3. PartsAt(a, b, n)
    BY <1>1, <1>5, <2>1, <2>2 DEF PartsAt
  <2> QED
    BY <2>1, <2>3
<1>6. ASSUME NEW n \in Nat, PartsAt(a, b, n)
      PROVE  \/ IsStrictPrefix(a, b)
             \/ \E i \in DOMAIN a \cap DOMAIN b : a[i] < b[i] /\ SubSeq(a, 1, i - 1) = SubSeq(b, 1, i - 1)
  <2>1. SubSeq(a, 1, n) = SubSeq(b, 1, n)
    BY <1>1, <1>6, SamePart DEF PartsAt
  <2>2. CASE n = Len(a)
    BY <1>1, <1>6, <2>1, <2>2 DEF PartsAt, IsStrictPrefix, IsPrefix
  <2>3. CASE n < Len(a)
    <3> DEFINE i == n + 1
    <3>1. i \in DOMAIN a \cap DOMAIN b /\ i - 1 = n /\ a[i] < b[i]
      BY <1>1, <1>3, <1>6, <2>3 DEF PartsAt
    <3> HIDE DEF i
    <3> QED
      BY <2>1, <3>1
  <2> QED
    BY <1>1, <1>6, <2>2, <2>3 DEF PartsAt
<1>7. (\E n \in Nat : PartsAt(a, b, n)) <=>
        \/ IsStrictPrefix(a, b)
        \/ \E i \in DOMAIN a \cap DOMAIN b : a[i] < b[i] /\ SubSeq(a, 1, i - 1) = SubSeq(b, 1, i - 1)
  <2>1. Len(a) \in Nat
    BY <1>1
  <2> QED
    BY <2>1, <1>4, <1>5, <1>6
<1> QED
  BY <1>2, <1>7 DEF a, b

\* If a parts from b and b from c, a parts from c.
LEMMA PartsOnward ==
  ASSUME NEW a \in Seq(Nat), NEW b \in Seq(Nat), NEW c \in Seq(Nat),
         NEW m \in Nat, PartsAt(a, b, m), NEW n \in Nat, PartsAt(b, c, n)
  PROVE  \E k \in Nat : PartsAt(a, c, k)
<1>1. /\ Len(a) \in Nat /\ Len(b) \in Nat /\ Len(c) \in Nat
      /\ \A i \in 1 .. Len(a) : a[i] \in Nat
      /\ \A i \in 1 .. Len(b) : b[i] \in Nat
      /\ \A i \in 1 .. Len(c) : c[i] \in Nat
  OBVIOUS
<1>2. /\ m <= Len(a) /\ m < Len(b) /\ \A i \in 1 .. m : a[i] = b[i]
      /\ m < Len(a) => a[m + 1] < b[m + 1]
  BY DEF PartsAt
<1>3. /\ n <= Len(b) /\ n < Len(c) /\ \A i \in 1 .. n : b[i] = c[i]
      /\ n < Len(b) => b[n + 1] < c[n + 1]
  BY DEF PartsAt
<1>4. CASE m < n
  <2>1. m + 1 \in 1 .. n
    BY <1>4
  <2>2. b[m + 1] = c[m + 1]
    BY <1>3, <2>1
  <2>3. \A i \in 1 .. m : a[i] = c[i]
    BY <1>2, <1>3, <1>4
  <2>4. m < Len(c) /\ (m < Len(a) => a[m + 1] < c[m + 1])
    BY <1>1, <1>2, <1>3, <1>4, <2>2
  <2>5. PartsAt(a, c, m)
    BY <1>2, <2>3, <2>4 DEF PartsAt
  <2> QED
    BY <2>5
<1>5. CASE m = n
  <2>1. \A i \in 1 .. m : a[i] = c[i]
    BY <1>2, <1>3, <1>5
  <2>2. m < Len(c) /\ b[m + 1] < c[m + 1]
    BY <1>2, <1>3, <1>5
  <2>3. ASSUME m < Len(a) PROVE a[m + 1] < c[m + 1]
    <3>1. m + 1 \in 1 .. Len(a) /\ m + 1 \in 1 .. Len(b) /\ m + 1 \in 1 .. Len(c)
      BY <1>1, <1>2, <2>2, <2>3
    <3>2. a[m + 1] \in Nat /\ b[m + 1] \in Nat /\ c[m + 1] \in Nat /\ a[m + 1] < b[m + 1]
      BY <1>1, <1>2, <2>3, <3>1
    <3> QED
      BY <2>2, <3>2
  <2>4. PartsAt(a, c, m)
    BY <1>2, <2>1, <2>2, <2>3 DEF PartsAt
  <2> QED
    BY <2>4
<1>6. CASE n < m
  <2>1. n + 1 \in 1 .. m
    BY <1>6
  <2>2. a[n + 1] = b[n + 1]
    BY <1>2, <2>1
  <2>3. \A i \in 1 .. n : a[i] = c[i]
    BY <1>2, <1>3, <1>6
  <2>4. n <= Len(a) /\ n < Len(c) /\ a[n + 1] < c[n + 1]
    BY <1>1, <1>2, <1>3, <1>6, <2>2
  <2>5. PartsAt(a, c, n)
    BY <2>3, <2>4 DEF PartsAt
  <2> QED
    BY <2>5
<1> QED
  BY <1>4, <1>5, <1>6

\* Two texts that differ part somewhere.
LEMMA PartsSomewhere ==
  ASSUME NEW a \in Seq(Nat), NEW b \in Seq(Nat), a # b
  PROVE  \E n \in Nat : PartsAt(a, b, n) \/ PartsAt(b, a, n)
<1> DEFINE Differs == {i \in Nat \ {0} : i > Len(a) \/ i > Len(b) \/ a[i] # b[i]}
<1>1. /\ Len(a) \in Nat /\ Len(b) \in Nat
      /\ \A i \in 1 .. Len(a) : a[i] \in Nat
      /\ \A i \in 1 .. Len(b) : b[i] \in Nat
  OBVIOUS
<1>2. PICK i \in Differs : \A j \in Differs : i <= j
  <2>1. Differs \in SUBSET Nat /\ Len(a) + 1 \in Differs
    BY <1>1
  <2> HIDE DEF Differs
  <2> QED
    BY <2>1, Joins!Least
<1> DEFINE n == i - 1
<1>3. n \in Nat /\ n + 1 = i /\ i \in Nat
  OBVIOUS
<1>4. \A j \in 1 .. n : j <= Len(a) /\ j <= Len(b) /\ a[j] = b[j]
  <2> TAKE j \in 1 .. n
  <2>1. j \notin Differs /\ j \in Nat \ {0}
    BY <1>2, <1>3
  <2> QED
    BY <1>1, <2>1
<1>5. n <= Len(a) /\ n <= Len(b)
  <2>1. n = 0 \/ n \in 1 .. n
    BY <1>3
  <2> QED
    BY <1>1, <1>4, <2>1
<1>6. i > Len(a) \/ i > Len(b) \/ a[i] # b[i]
  OBVIOUS
<1> HIDE DEF Differs, n
<1>7. CASE n = Len(a)
  <2>1. n # Len(b)
    <3> SUFFICES ASSUME n = Len(b) PROVE FALSE
      OBVIOUS
    <3>1. Len(a) = Len(b) /\ \A j \in 1 .. Len(a) : a[j] = b[j]
      BY <1>4, <1>7
    <3> QED
      BY <3>1
  <2>2. n < Len(b) /\ ~(n < Len(a))
    BY <1>1, <1>3, <1>5, <1>7, <2>1
  <2>3. PartsAt(a, b, n)
    BY <1>3, <1>4, <1>5, <2>2 DEF PartsAt
  <2> QED
    BY <1>3, <2>3
<1>8. CASE n # Len(a) /\ n = Len(b)
  <2>1. n < Len(a) /\ ~(n < Len(b))
    BY <1>1, <1>3, <1>5, <1>8
  <2>2. PartsAt(b, a, n)
    BY <1>3, <1>4, <1>5, <2>1 DEF PartsAt
  <2> QED
    BY <1>3, <2>2
<1>9. CASE n # Len(a) /\ n # Len(b)
  <2>1. n < Len(a) /\ n < Len(b) /\ i \in 1 .. Len(a) /\ i \in 1 .. Len(b)
    BY <1>1, <1>3, <1>5, <1>9
  <2>2. a[n + 1] \in Nat /\ b[n + 1] \in Nat /\ a[n + 1] # b[n + 1]
    BY <1>1, <1>3, <1>6, <2>1
  <2>3. a[n + 1] < b[n + 1] \/ b[n + 1] < a[n + 1]
    BY <2>2
  <2>4. PartsAt(a, b, n) \/ PartsAt(b, a, n)
    BY <1>3, <1>4, <1>5, <2>1, <2>3 DEF PartsAt
  <2> QED
    BY <1>3, <2>4
<1> QED
  BY <1>7, <1>8, <1>9

\* The order of the texts is one of the paths.
LEMMA PathsOrdered ==
  /\ \A p \in BytePaths : ~Before(p, p)
  /\ \A p, q, r \in BytePaths : Before(p, q) /\ Before(q, r) => Before(p, r)
  /\ \A p, q \in BytePaths : p = q \/ Before(p, q) \/ Before(q, p)
<1>1. ASSUME NEW p \in BytePaths PROVE ~Before(p, p)
  <2> SUFFICES ASSUME NEW n \in Nat, PartsAt(Bytes(p), Bytes(p), n) PROVE FALSE
    BY BeforeAt
  <2>1. Bytes(p) \in Seq(Nat) /\ Len(Bytes(p)) \in Nat
    BY TextOf
  <2>2. n < Len(Bytes(p)) /\ Bytes(p)[n + 1] < Bytes(p)[n + 1] /\ n + 1 \in 1 .. Len(Bytes(p))
    BY <2>1 DEF PartsAt
  <2>3. Bytes(p)[n + 1] \in Nat
    BY <2>1, <2>2
  <2> QED
    BY <2>2, <2>3
<1>2. ASSUME NEW p \in BytePaths, NEW q \in BytePaths, NEW r \in BytePaths, Before(p, q), Before(q, r)
      PROVE  Before(p, r)
  <2>1. Bytes(p) \in Seq(Nat) /\ Bytes(q) \in Seq(Nat) /\ Bytes(r) \in Seq(Nat)
    BY TextOf
  <2>2. PICK m \in Nat : PartsAt(Bytes(p), Bytes(q), m)
    BY <1>2, BeforeAt
  <2>3. PICK n \in Nat : PartsAt(Bytes(q), Bytes(r), n)
    BY <1>2, BeforeAt
  <2>4. \E k \in Nat : PartsAt(Bytes(p), Bytes(r), k)
    BY <2>1, <2>2, <2>3, PartsOnward
  <2> QED
    BY <2>4, BeforeAt
<1>3. ASSUME NEW p \in BytePaths, NEW q \in BytePaths, p # q PROVE Before(p, q) \/ Before(q, p)
  <2>1. Bytes(p) \in Seq(Nat) /\ Bytes(q) \in Seq(Nat)
    BY TextOf
  <2>2. Bytes(p) # Bytes(q)
    BY <1>3, TextTells
  <2>3. \E n \in Nat : PartsAt(Bytes(p), Bytes(q), n) \/ PartsAt(Bytes(q), Bytes(p), n)
    BY <2>1, <2>2, PartsSomewhere
  <2> QED
    BY <2>3, BeforeAt
<1> QED
  BY <1>1, <1>2, <1>3
-----------------------------------------------------------------------------
(* What the lines of the tree read as                                       *)

\* The text before the k-th component.
Lead(path, k) == IF k = 1 THEN <<>> ELSE Upto(path, k - 1) \o <<Slash>>

\* The k-th component is written behind the text that leads to it.
LEMMA LeadOf ==
  ASSUME NEW path \in BytePaths, NEW k \in 1 .. Len(path)
  PROVE  /\ Lead(path, k) \in Seq(Nat) /\ path[k] \in Seq(Nat)
         /\ Upto(path, k) = Lead(path, k) \o path[k]
<1>1. /\ path \in Seq(EntryNames) /\ Len(path) \in Nat \ {0} /\ path[k] \in Seq(Nat \ {Slash})
  BY TextOf
<1>2. path[k] \in Seq(Nat)
  BY <1>1
<1>3. CASE k = 1
  <2>1. Upto(path, 1) = path[1] /\ Lead(path, k) = <<>>
    BY <1>3, UptoMore DEF Lead
  <2> DEFINE first == path[k]
             none == <<>>
  <2>2. first \in Seq(Nat)
    BY <1>2
  <2>3. none \in Seq(Nat) /\ Len(none) = 0
    OBVIOUS
  <2> HIDE DEF first
  <2>4. none \o first = first
    BY <2>2
  <2> HIDE DEF none
  <2>5. Upto(path, k) = first /\ Lead(path, k) = none
    BY <1>3, <2>1 DEF first, none
  <2> QED
    BY <2>2, <2>3, <2>4, <2>5 DEF first
<1>4. CASE k # 1
  <2> DEFINE j == k - 1
  <2>1. j \in 1 .. Len(path) - 1 /\ j + 1 = k /\ j \in 1 .. Len(path)
    BY <1>1, <1>4
  <2> HIDE DEF j
  <2>2. Upto(path, k) = Upto(path, j) \o <<Slash>> \o path[k]
    BY <2>1, UptoMore
  <2>3. Lead(path, k) = Upto(path, j) \o <<Slash>>
    BY <1>4 DEF Lead, j
  <2>4. Upto(path, j) \in Seq(Nat) /\ Slash \in Nat
    BY <2>1, Laid DEF LaidOut, Slash
  <2>5. Lead(path, k) \in Seq(Nat)
    BY <2>3, <2>4
  <2> QED
    BY <1>2, <2>2, <2>3, <2>5
<1> QED
  BY <1>2, <1>3, <1>4

\* The text of what holds a path goes on with a slash.
LEMMA HeldText ==
  ASSUME NEW t \in BytePaths, NEW d \in 1 .. Len(t) - 1, NEW a, a = SubSeq(t, 1, d)
  PROVE  /\ a \in BytePaths /\ Len(a) = d
         /\ Continues(a, t) /\ Len(Bytes(a)) < Len(Bytes(t))
         /\ Bytes(t)[Len(Bytes(a)) + 1] = Slash
<1> DEFINE n == Len(t)
           text == Upto(t, d)
           Goes(m) == /\ Upto(t, m) \in Seq(Nat) /\ Len(text) <= Len(Upto(t, m))
                      /\ \A i \in 1 .. Len(text) : Upto(t, m)[i] = text[i]
           T == {i \in 0 .. n - d : Goes(d + i)}
<1>1. t \in Seq(EntryNames) /\ n \in Nat \ {0} /\ d \in Nat \ {0} /\ d < n
  BY TextOf
<1>2. a \in BytePaths /\ Len(a) = d
  <2>1. a \in Seq(EntryNames) /\ Len(a) = d
    BY <1>1
  <2>2. a # <<>>
    BY <1>1, <2>1
  <2> QED
    BY <2>1, <2>2 DEF BytePaths
<1>3. Bytes(a) = text
  BY DEF Upto
<1>4. text \in Seq(Nat)
  <2>1. d \in 1 .. Len(t)
    BY <1>1
  <2> QED
    BY <2>1, Laid DEF LaidOut
<1>5. 0 \in T
  <2>1. d + 0 = d /\ 0 \in 0 .. n - d
    BY <1>1
  <2> QED
    BY <1>4, <2>1
<1>6. \A i \in 1 .. n - d : i - 1 \in T => i \in T
  <2> TAKE i \in 1 .. n - d
  <2> HAVE i - 1 \in T
  <2> DEFINE m == d + (i - 1)
             some == Upto(t, m)
             more == Upto(t, m + 1)
             next == t[m + 1]
  <2>1. m \in 1 .. Len(t) - 1 /\ m + 1 = d + i /\ m \in 1 .. Len(t) /\ m + 1 \in 1 .. Len(t) /\ i \in 0 .. n - d
    BY <1>1
  <2>2. Goes(m)
    OBVIOUS
  <2> HIDE DEF m
  <2>3. more = some \o <<Slash>> \o next
    BY <2>1, UptoMore
  <2>4. next \in Seq(Nat \ {Slash})
    BY <2>1, TextOf
  <2>5. next \in Seq(Nat) /\ some \in Seq(Nat) /\ Slash \in Nat
    BY <2>2, <2>4 DEF Slash
  <2> DEFINE two == some \o <<Slash>>
  <2> HIDE DEF some, more, next, text
  <2>6. two \in Seq(Nat) /\ Len(two) = Len(some) + 1 /\ \A k \in 1 .. Len(some) : two[k] = some[k]
    BY <2>5
  <2>7. more = two \o next
    BY <2>3
  <2> HIDE DEF two
  <2>8. more \in Seq(Nat) /\ Len(more) = Len(two) + Len(next) /\ \A k \in 1 .. Len(two) : more[k] = two[k]
    <3>1. two \in Seq(Nat) /\ next \in Seq(Nat) /\ more = two \o next
      BY <2>5, <2>6, <2>7
    <3> QED
      BY <3>1
  <2>9. /\ Len(text) <= Len(some)
        /\ \A k \in 1 .. Len(text) : some[k] = text[k]
    BY <2>2 DEF some
  <2>10. Len(text) \in Nat /\ Len(some) \in Nat /\ Len(next) \in Nat
    BY <1>4, <2>5
  <2>11. \A k \in 1 .. Len(text) : k \in 1 .. Len(some) /\ k \in 1 .. Len(two)
    <3>1. Len(text) <= Len(some) /\ Len(two) = Len(some) + 1
      BY <2>6, <2>9
    <3> QED
      BY <2>10, <3>1
  <2>12. \A k \in 1 .. Len(text) : more[k] = text[k]
    BY <2>6, <2>8, <2>9, <2>11
  <2>13. Len(text) <= Len(more)
    BY <2>6, <2>8, <2>9, <2>10
  <2>14. Goes(m + 1)
    BY <2>8, <2>12, <2>13 DEF more
  <2> HIDE DEF Goes
  <2> QED
    BY <2>1, <2>14
<1>7. Goes(n)
  <2>1. n - d \in Nat /\ n - d \in 0 .. n - d /\ d + (n - d) = n
    BY <1>1
  <2> HIDE DEF T
  <2>2. n - d \in T
    BY <1>5, <1>6, <2>1, Joins!UpTo
  <2> HIDE DEF Goes
  <2> QED
    BY <2>1, <2>2 DEF T
<1>8. Upto(t, n) = Bytes(t)
  <2>1. SubSeq(t, 1, n) = t
    BY <1>1
  <2> QED
    BY <2>1 DEF Upto
<1>9. Continues(a, t)
  BY <1>3, <1>7, <1>8 DEF Continues
<1>10. Ends(t, d) < Len(Bytes(t)) /\ Bytes(t)[Ends(t, d) + 1] = Slash
  <2>1. LaidOut(t, Bytes(t), Len(t))
    BY TextOf
  <2> QED
    BY <2>1 DEF LaidOut
<1> QED
  BY <1>2, <1>3, <1>9, <1>10 DEF Ends

\* What comes between a path and one that it holds goes on where the first ends, and
\* with no more than a slash.
LEMMA BetweenText ==
  ASSUME NEW a \in BytePaths, NEW x \in BytePaths, NEW t \in BytePaths,
         Continues(a, t), Len(Bytes(a)) < Len(Bytes(t)), Bytes(t)[Len(Bytes(a)) + 1] = Slash,
         Before(a, x), Before(x, t)
  PROVE  /\ Continues(a, x) /\ Len(Bytes(a)) < Len(Bytes(x))
         /\ Bytes(x)[Len(Bytes(a)) + 1] <= Slash
<1> DEFINE A == Bytes(a)
           X == Bytes(x)
           T == Bytes(t)
           n == Len(A)
<1>1. /\ A \in Seq(Nat) /\ X \in Seq(Nat) /\ T \in Seq(Nat)
      /\ n \in Nat /\ Len(X) \in Nat /\ Len(T) \in Nat
  BY TextOf
<1>2. \A i \in 1 .. n : T[i] = A[i]
  BY DEF Continues
<1>3. n < Len(T) /\ T[n + 1] = Slash
  OBVIOUS
<1>4. \E k \in Nat : PartsAt(A, X, k)
  BY BeforeAt
<1>5. \E k \in Nat : PartsAt(X, T, k)
  BY BeforeAt
<1> HIDE DEF A, X, T, n
<1>6. PICK m \in Nat : PartsAt(A, X, m)
  BY <1>4
<1>7. PICK k \in Nat : PartsAt(X, T, k)
  BY <1>5
<1>8. /\ m <= n /\ m < Len(X) /\ \A i \in 1 .. m : A[i] = X[i]
      /\ m < n => A[m + 1] < X[m + 1]
  BY <1>6 DEF PartsAt, n
<1>9. /\ k <= Len(X) /\ k < Len(T) /\ \A i \in 1 .. k : X[i] = T[i]
      /\ k < Len(X) => X[k + 1] < T[k + 1]
  BY <1>7 DEF PartsAt
<1>10. /\ \A i \in 1 .. n : A[i] \in Nat
       /\ \A i \in 1 .. Len(X) : X[i] \in Nat
       /\ \A i \in 1 .. Len(T) : T[i] \in Nat
  BY <1>1 DEF n
<1>11. ~(k < m)
  <2> SUFFICES ASSUME k < m PROVE FALSE
    OBVIOUS
  <2>1. k + 1 \in 1 .. m /\ k + 1 \in 1 .. n /\ k + 1 \in 1 .. Len(X) /\ k < Len(X)
    BY <1>1, <1>8
  <2>2. X[k + 1] = A[k + 1] /\ T[k + 1] = A[k + 1] /\ X[k + 1] < T[k + 1]
    BY <1>2, <1>8, <1>9, <2>1
  <2> QED
    BY <1>10, <2>1, <2>2
<1>12. m = n
  <2> SUFFICES ASSUME m < n PROVE FALSE
    BY <1>1, <1>8
  <2>1. m + 1 \in 1 .. n /\ m + 1 \in 1 .. Len(X) /\ m < Len(X)
    BY <1>1, <1>8
  <2>2. A[m + 1] < X[m + 1] /\ T[m + 1] = A[m + 1]
    BY <1>2, <1>8, <2>1
  <2>3. A[m + 1] \in Nat /\ X[m + 1] \in Nat
    BY <1>10, <2>1
  <2>4. CASE k = m
    BY <1>9, <2>1, <2>2, <2>3, <2>4
  <2>5. CASE m < k
    <3>1. m + 1 \in 1 .. k
      BY <2>5
    <3>2. X[m + 1] = T[m + 1]
      BY <1>9, <3>1
    <3> QED
      BY <2>2, <2>3, <3>2
  <2> QED
    BY <1>11, <2>4, <2>5
<1>13. n < Len(X) /\ n + 1 \in 1 .. Len(X) /\ \A i \in 1 .. n : X[i] = A[i]
  BY <1>1, <1>8, <1>12
<1>14. X[n + 1] <= Slash
  <2>1. X[n + 1] \in Nat /\ Slash \in Nat
    BY <1>10, <1>13 DEF Slash
  <2>2. CASE k = n
    BY <1>3, <1>9, <1>13, <2>1, <2>2
  <2>3. CASE n < k
    <3>1. n + 1 \in 1 .. k
      BY <1>1, <2>3
    <3>2. X[n + 1] = Slash
      BY <1>3, <1>9, <3>1
    <3> QED
      BY <2>1, <3>2
  <2> QED
    BY <1>1, <1>11, <1>12, <2>2, <2>3
<1>15. Continues(a, x)
  BY <1>1, <1>13 DEF Continues, A, X, n
<1> QED
  BY <1>13, <1>14, <1>15 DEF A, X, n

\* Two sequences as long as each other with the same elements are one.
LEMMA SameSeq ==
  ASSUME NEW S, NEW a \in Seq(S), NEW b \in Seq(S), Len(a) = Len(b),
         \A i \in 1 .. Len(a) : a[i] = b[i]
  PROVE  a = b
OBVIOUS

\* What goes on like a directory, and with no more than a slash, is below it or below
\* what is beside it.
LEMMA BelowOrBeside ==
  ASSUME NEW a \in BytePaths, NEW x \in BytePaths, Continues(a, x),
         Len(Bytes(a)) < Len(Bytes(x)), Bytes(x)[Len(Bytes(a)) + 1] <= Slash
  PROVE  /\ Len(a) <= Len(x) /\ \A j \in 1 .. Len(a) - 1 : x[j] = a[j]
         /\ \/ x[Len(a)] = a[Len(a)] /\ Len(a) < Len(x)
            \/ Beside(a, SubSeq(x, 1, Len(a)))
<1> DEFINE d == Len(a)
           A == Bytes(a)
           X == Bytes(x)
           ours == a[d]
           its == x[d]
           m == Len(ours)
           s == Starts(a, d)
<1>1. /\ a \in Seq(EntryNames) /\ d \in Nat \ {0} /\ x \in Seq(EntryNames) /\ Len(x) \in Nat \ {0}
      /\ A \in Seq(Nat) /\ Len(A) \in Nat /\ X \in Seq(Nat) /\ Len(X) \in Nat
  BY TextOf
<1>2. /\ Len(a) <= Len(x) /\ Starts(x, d) = s /\ \A j \in 1 .. d - 1 : x[j] = a[j]
      /\ m <= Len(its) /\ \A j \in 1 .. m : its[j] = ours[j]
  BY Parse DEF Alike
<1>3. d \in 1 .. Len(a) /\ d \in 1 .. Len(x)
  BY <1>1, <1>2
<1>4. /\ ours \in Seq(Nat \ {Slash}) /\ its \in Seq(Nat \ {Slash}) /\ m \in Nat /\ Len(its) \in Nat
  BY <1>3, TextOf
<1>5. s \in Nat /\ Len(A) = s + m
  <2>1. LaidOut(a, A, d) /\ Len(A) = Ends(a, d)
    BY TextOf
  <2> QED
    BY <1>3, <2>1 DEF LaidOut
<1>6. Ends(x, d) = s + Len(its) /\ \A j \in 1 .. Len(its) : X[s + j] = its[j]
  <2>1. LaidOut(x, X, Len(x))
    BY TextOf
  <2> QED
    BY <1>2, <1>3, <2>1 DEF LaidOut
<1>7. Len(x) = d => Len(X) = Ends(x, d)
  BY TextOf
<1>8. Len(A) < Len(X) /\ X[Len(A) + 1] <= Slash
  OBVIOUS
<1>9. CASE Len(its) = m
  <2> HIDE DEF ours, its, d, m, s, A, X
  <2>1. its = ours
    <3>1. Len(its) = Len(ours) /\ \A j \in 1 .. Len(its) : its[j] = ours[j]
      BY <1>2, <1>9 DEF m
    <3>2. its \in Seq(Nat \ {Slash}) /\ ours \in Seq(Nat \ {Slash})
      BY <1>4
    <3> QED
      BY <3>1, <3>2, SameSeq
  <2>2. Len(x) # d
    BY <1>1, <1>4, <1>5, <1>6, <1>7, <1>8, <1>9
  <2> QED
    BY <1>1, <1>2, <2>1, <2>2 DEF ours, its, d
<1>10. CASE Len(its) # m
  <2> DEFINE b == SubSeq(x, 1, d)
  <2>1. /\ b \in Seq(EntryNames) /\ Len(b) = d /\ \A j \in 1 .. d : b[j] = x[j]
    BY <1>1, <1>2
  <2>2. Last(a) = ours /\ Last(b) = its
    BY <1>1, <2>1 DEF Last
  <2>3. m < Len(its) /\ m + 1 \in 1 .. Len(its)
    BY <1>2, <1>4, <1>10
  <2>4. its[m + 1] \in Nat /\ its[m + 1] # Slash
    <3> HIDE DEF its, m
    <3> QED
      BY <1>4, <2>3
  <2>5. its[m + 1] < Slash
    <3> HIDE DEF its, m, s, A, X
    <3>1. X[s + (m + 1)] = its[m + 1] /\ s + (m + 1) = Len(A) + 1
      BY <1>4, <1>5, <1>6, <2>3
    <3>2. Slash \in Nat
      BY DEF Slash
    <3> QED
      BY <1>8, <2>4, <3>1, <3>2
  <2>6. Front(b) = Front(a)
    <3> DEFINE p == SubSeq(b, 1, d - 1)
               q == SubSeq(a, 1, d - 1)
    <3>0. Front(b) = p /\ Front(a) = q
      BY <2>1 DEF Front
    <3>1. b \in Seq(EntryNames) /\ Len(b) = d /\ d - 1 \in 0 .. d /\ Len(a) = d /\ a \in Seq(EntryNames)
      BY <1>1, <2>1
    <3>2. \A j \in 1 .. d - 1 : b[j] = a[j]
      BY <1>1, <1>2, <2>1
    <3> DEFINE e == d - 1
    <3> HIDE DEF b, d
    <3>3. e \in Nat /\ e <= Len(b) /\ e <= Len(a)
      BY <1>1, <3>1
    <3>4. /\ p \in Seq(EntryNames) /\ Len(p) = e /\ \A j \in 1 .. e : p[j] = b[j]
          /\ q \in Seq(EntryNames) /\ Len(q) = e /\ \A j \in 1 .. e : q[j] = a[j]
      <4> HIDE DEF e
      <4>1. /\ SubSeq(b, 1, e) \in Seq(EntryNames) /\ Len(SubSeq(b, 1, e)) = e
            /\ \A j \in 1 .. e : SubSeq(b, 1, e)[j] = b[j]
        BY <3>1, <3>3
      <4>2. /\ SubSeq(a, 1, e) \in Seq(EntryNames) /\ Len(SubSeq(a, 1, e)) = e
            /\ \A j \in 1 .. e : SubSeq(a, 1, e)[j] = a[j]
        BY <3>1, <3>3
      <4> QED
        BY <4>1, <4>2 DEF e
    <3> HIDE DEF p, q
    <3>5. \A j \in 1 .. e : p[j] = q[j]
      BY <3>2, <3>4
    <3>6. p = q
      BY <3>4, <3>5, SameSeq
    <3> QED
      BY <3>0, <3>6
  <2>7. IsStrictPrefix(ours, its)
    <3> HIDE DEF ours, its
    <3>1. ours \in Seq(Nat) /\ its \in Seq(Nat)
      BY <1>4
    <3>2. SubSeq(ours, 1, m) = SubSeq(its, 1, m)
      BY <1>2, <1>4, <3>1, SamePart
    <3> QED
      BY <1>2, <1>10, <3>2 DEF IsStrictPrefix, IsPrefix
  <2>8. Beside(a, b)
    <3> HIDE DEF b, its, ours
    <3> QED
      BY <2>1, <2>2, <2>5, <2>6, <2>7 DEF Beside
  <2> QED
    BY <1>2, <2>8
<1> QED
  BY <1>9, <1>10

\* What is beside a directory comes between it and what it holds.
LEMMA BesideComesBetween ==
  ASSUME NEW a \in BytePaths, NEW b \in BytePaths, NEW t \in BytePaths, Beside(a, b),
         Continues(a, t), Len(Bytes(a)) < Len(Bytes(t)), Bytes(t)[Len(Bytes(a)) + 1] = Slash
  PROVE  Before(a, b) /\ Before(b, t)
<1> DEFINE d == Len(a)
           A == Bytes(a)
           B == Bytes(b)
           T == Bytes(t)
           lead == Lead(a, d)
           ours == a[d]
           its == b[d]
           n == Len(A)
           m == Len(ours)
<1>1. /\ a \in Seq(EntryNames) /\ d \in Nat \ {0} /\ b \in Seq(EntryNames)
      /\ A \in Seq(Nat) /\ n \in Nat /\ B \in Seq(Nat) /\ Len(B) \in Nat
      /\ T \in Seq(Nat) /\ Len(T) \in Nat
  BY TextOf
<1>2. Len(b) = d /\ Front(b) = Front(a) /\ Last(a) = ours /\ Last(b) = its
  BY DEF Beside, Last
<1>3. IsStrictPrefix(ours, its) /\ its[m + 1] < Slash
  BY <1>2 DEF Beside
<1>4. d \in 1 .. Len(a) /\ d \in 1 .. Len(b)
  BY <1>1, <1>2
<1>5. /\ lead \in Seq(Nat) /\ ours \in Seq(Nat) /\ Upto(a, d) = lead \o ours
      /\ its \in Seq(Nat) /\ Upto(b, d) = Lead(b, d) \o its
  BY <1>4, LeadOf
<1>6. Lead(b, d) = lead
  <2>1. SubSeq(b, 1, d - 1) = SubSeq(a, 1, d - 1)
    BY <1>2 DEF Front
  <2> QED
    BY <2>1 DEF Lead, Upto
<1>7. A = lead \o ours /\ B = lead \o its
  <2>1. SubSeq(a, 1, d) = a /\ SubSeq(b, 1, d) = b
    BY <1>1, <1>2
  <2> QED
    BY <1>5, <1>6, <2>1 DEF Upto
<1>8. n < Len(T) /\ T[n + 1] = Slash /\ \A i \in 1 .. n : T[i] = A[i]
  BY DEF Continues
<1> HIDE DEF d, A, B, T, lead, ours, its, n, m
<1>9. m \in Nat /\ Len(its) \in Nat /\ Len(lead) \in Nat
  BY <1>5 DEF m
<1>10. m < Len(its) /\ \A j \in 1 .. m : its[j] = ours[j]
  <2>1. m <= Len(its) /\ SubSeq(ours, 1, m) = SubSeq(its, 1, m) /\ ours # its
    BY <1>3 DEF IsStrictPrefix, IsPrefix, m
  <2>2. \A j \in 1 .. m : ours[j] = its[j]
    <3>1. SubSeq(ours, 1, m) = SubSeq(its, 1, m) <=> \A j \in 1 .. m : ours[j] = its[j]
      BY <1>5, <1>9, <2>1, SamePart DEF m
    <3> QED
      BY <2>1, <3>1
  <2>3. m # Len(its)
    <3> SUFFICES ASSUME m = Len(its) PROVE FALSE
      OBVIOUS
    <3>1. Len(ours) = Len(its) /\ \A j \in 1 .. Len(ours) : ours[j] = its[j]
      BY <2>2 DEF m
    <3>2. ours = its
      BY <1>5, <3>1, SameSeq
    <3> QED
      BY <2>1, <3>2
  <2> QED
    BY <1>9, <2>1, <2>2, <2>3
<1>11. /\ n = Len(lead) + m
       /\ \A i \in 1 .. Len(lead) : A[i] = lead[i]
       /\ \A j \in 1 .. m : A[Len(lead) + j] = ours[j]
  BY <1>5, <1>7 DEF n, m
<1>12. /\ Len(B) = Len(lead) + Len(its)
       /\ \A i \in 1 .. Len(lead) : B[i] = lead[i]
       /\ \A j \in 1 .. Len(its) : B[Len(lead) + j] = its[j]
  BY <1>5, <1>7
<1>13. n < Len(B)
  BY <1>9, <1>10, <1>11, <1>12
<1>14. ASSUME NEW i \in 1 .. n PROVE B[i] = A[i]
  <2>1. CASE i \in 1 .. Len(lead)
    BY <1>11, <1>12, <2>1
  <2>2. CASE i \notin 1 .. Len(lead)
    <3> DEFINE j == i - Len(lead)
    <3>1. j \in 1 .. m /\ j \in 1 .. Len(its) /\ i = Len(lead) + j
      BY <1>9, <1>10, <1>11, <2>2
    <3> HIDE DEF j
    <3> QED
      BY <1>10, <1>11, <1>12, <3>1
  <2> QED
    BY <2>1, <2>2
<1>15. B[n + 1] < Slash
  <2>1. m + 1 \in 1 .. Len(its) /\ n + 1 = Len(lead) + (m + 1)
    BY <1>9, <1>10, <1>11
  <2> QED
    BY <1>3, <1>12, <2>1
<1>16. PartsAt(A, B, n)
  BY <1>1, <1>13, <1>14 DEF PartsAt, n
<1>17. PartsAt(B, T, n)
  <2>1. \A i \in 1 .. n : B[i] = T[i]
    BY <1>8, <1>14
  <2>2. n \in Nat /\ n <= Len(B) /\ n < Len(T) /\ B[n + 1] < T[n + 1]
    BY <1>1, <1>8, <1>13, <1>15 DEF n
  <2> QED
    BY <2>1, <2>2 DEF PartsAt
<1>18. (\E k \in Nat : PartsAt(A, B, k)) /\ (\E k \in Nat : PartsAt(B, T, k))
  BY <1>1, <1>16, <1>17
<1> QED
  BY <1>18, BeforeAt DEF A, B, T

\* combined has each entry once, in the order of their texts.
LEMMA CombinedSorted ==
  ASSUME NEW dirs, NEW files, IsFiniteSet(dirs \cup files), dirs \cup files \in SUBSET BytePaths
  PROVE  LET entries  == dirs \cup files
             combined == Combined(dirs, files)
             n        == Cardinality(entries)
         IN /\ n \in Nat /\ combined \in Seq(entries) /\ Len(combined) = n
            /\ \A x \in entries : \E i \in 1 .. n : combined[i] = x
            /\ \A i, j \in 1 .. n : i < j <=> Before(combined[i], combined[j])
<1> DEFINE E == dirs \cup files
           c == Combined(dirs, files)
           n == Cardinality(E)
           R == {pair \in E \X E : Before(pair[1], pair[2])}
           At(i) == CHOOSE x \in E : Cardinality({y \in E : Before(y, x)}) = i - 1
<1>1. \A x, y \in E : <<x, y>> \in R <=> Before(x, y)
  OBVIOUS
<1>2. c = [i \in 1 .. n |-> At(i)]
  BY DEF Combined, InOrder
<1>3. IsFiniteSet(E) /\ E \in SUBSET BytePaths
  OBVIOUS
<1> HIDE DEF E, R, c, At
<1>4. Orders(E, R)
  BY <1>1, <1>3, PathsOrdered DEF Orders
<1>5. \A x \in E : Lower(E, R, x) = {y \in E : Before(y, x)}
  BY <1>1 DEF Lower
<1>6. /\ n \in Nat
      /\ \A i \in 1 .. n : \E x \in E : Cardinality(Lower(E, R, x)) = i - 1
  BY <1>3, <1>4, Ranks
<1>7. ASSUME NEW i \in 1 .. n PROVE c[i] \in E /\ Cardinality(Lower(E, R, c[i])) = i - 1
  <2>1. c[i] = CHOOSE x \in E : Cardinality({y \in E : Before(y, x)}) = i - 1
    BY <1>2 DEF At
  <2>2. \E x \in E : Cardinality({y \in E : Before(y, x)}) = i - 1
    BY <1>5, <1>6
  <2>3. c[i] \in E /\ Cardinality({y \in E : Before(y, c[i])}) = i - 1
    BY <2>1, <2>2
  <2> QED
    BY <1>5, <2>3
<1>8. c = [i \in 1 .. n |-> c[i]]
  BY <1>2
<1>9. Sorted(E, R, c)
  <2>1. Ranked(E, R, c)
    BY <1>7, <1>8 DEF Ranked
  <2> QED
    BY <1>3, <1>4, <2>1, RankedIsSorted
<1>10. /\ c \in [1 .. n -> E]
       /\ \A x \in E : \E i \in 1 .. n : c[i] = x
       /\ \A i, j \in 1 .. n : i < j <=> <<c[i], c[j]>> \in R
  BY <1>9 DEF Sorted
<1>11. c \in Seq(E) /\ Len(c) = n
  <2> HIDE DEF n
  <2> QED
    BY <1>6, <1>10
<1>12. \A i, j \in 1 .. n : i < j <=> Before(c[i], c[j])
  BY <1>1, <1>7, <1>10
<1> QED
  BY <1>6, <1>10, <1>11, <1>12 DEF E, c

\* The entries with the directories that they are below.
WithParents(E) ==
  /\ E \in SUBSET BytePaths
  /\ \A e \in E : \A n \in 1 .. Len(e) - 1 : SubSeq(e, 1, n) \in E
Ordered(E, seq, n) ==
  /\ n \in Nat /\ seq \in Seq(E) /\ Len(seq) = n
  /\ \A x \in E : \E i \in 1 .. n : seq[i] = x
  /\ \A i, j \in 1 .. n : i < j <=> Before(seq[i], seq[j])

\* The line above the i-th that a reader takes for its directory at depth d.
AboveAt(seq, i, d) ==
  {j \in 1 .. i - 1 : Len(seq[j]) = d /\ \A k \in j + 1 .. i - 1 : Len(seq[k]) > d}

\* Between a directory and what it holds are only what it holds and what is beside it.
LEMMA Between ==
  ASSUME NEW a \in BytePaths, NEW x \in BytePaths, NEW t \in BytePaths,
         NEW d \in 1 .. Len(t) - 1, a = SubSeq(t, 1, d), Before(a, x), Before(x, t)
  PROVE  /\ d <= Len(x)
         /\ \/ x[d] = a[d] /\ d < Len(x)
            \/ Beside(a, SubSeq(x, 1, d))
<1>1. /\ Len(a) = d /\ Continues(a, t) /\ Len(Bytes(a)) < Len(Bytes(t))
      /\ Bytes(t)[Len(Bytes(a)) + 1] = Slash
  BY HeldText
<1>2. /\ Continues(a, x) /\ Len(Bytes(a)) < Len(Bytes(x))
      /\ Bytes(x)[Len(Bytes(a)) + 1] <= Slash
  BY <1>1, BetweenText
<1>3. /\ Len(a) <= Len(x)
      /\ \/ x[Len(a)] = a[Len(a)] /\ Len(a) < Len(x)
         \/ Beside(a, SubSeq(x, 1, Len(a)))
  BY <1>2, BelowOrBeside
<1> QED
  BY <1>1, <1>3

\* A directory comes before what it holds.
LEMMA HolderFirst ==
  ASSUME NEW t \in BytePaths, NEW d \in 1 .. Len(t) - 1, NEW a, a = SubSeq(t, 1, d)
  PROVE  a \in BytePaths /\ Before(a, t)
<1>1. /\ a \in BytePaths /\ Continues(a, t) /\ Len(Bytes(a)) < Len(Bytes(t))
  BY HeldText
<1>2. Len(Bytes(a)) \in Nat
  BY <1>1, TextOf
<1>3. PartsAt(Bytes(a), Bytes(t), Len(Bytes(a)))
  <2> DEFINE A == Bytes(a)
             T == Bytes(t)
             n == Len(A)
  <2>1. n \in Nat /\ n < Len(T) /\ \A i \in 1 .. n : T[i] = A[i]
    BY <1>1, <1>2 DEF Continues
  <2> HIDE DEF A, T, n
  <2>2. n <= Len(A) /\ ~(n < Len(A))
    BY <2>1 DEF n
  <2>3. PartsAt(A, T, n)
    BY <2>1, <2>2 DEF PartsAt
  <2> QED
    BY <2>3 DEF A, T, n
<1> QED
  BY <1>1, <1>2, <1>3, BeforeAt

\* At depth d a line reads as its path if nothing is beside the directory there.
LEMMA DepthReads ==
  ASSUME NEW E, WithParents(E), NEW seq, NEW n, Ordered(E, seq, n),
         NEW i \in 1 .. n, NEW d \in 1 .. Len(seq[i]) - 1
  PROVE  \E k \in 1 .. i - 1 :
           /\ AboveAt(seq, i, d) = {k}
           /\ Last(seq[k]) = seq[i][d] <=> ~\E e \in E : Beside(SubSeq(seq[i], 1, d), e)
<1> DEFINE t == seq[i]
           a == SubSeq(t, 1, d)
           S == {j \in 1 .. i - 1 : Len(seq[j]) <= d}
           U == {i - j : j \in S}
<1>1. /\ n \in Nat /\ \A j \in 1 .. n : seq[j] \in E /\ seq[j] \in BytePaths
      /\ E \in SUBSET BytePaths
  BY DEF Ordered, WithParents
<1>2. t \in E /\ t \in BytePaths /\ Len(t) \in Nat /\ d \in Nat \ {0} /\ i \in Nat \ {0}
  BY <1>1, TextOf
<1>3. a \in E
  BY <1>2 DEF WithParents
<1>4. a \in BytePaths /\ Before(a, t) /\ Len(a) = d
  <2>1. a \in BytePaths /\ Before(a, t)
    BY <1>2, HolderFirst
  <2>2. Len(a) = d
    BY <1>2, HeldText
  <2> QED
    BY <2>1, <2>2
<1>5. a[d] = t[d]
  <2>1. t \in Seq(EntryNames) /\ d <= Len(t)
    BY <1>2, TextOf
  <2> QED
    BY <1>2, <2>1
<1>6. /\ \A x \in E : \E j \in 1 .. n : seq[j] = x
      /\ \A j, k \in 1 .. n : j < k <=> Before(seq[j], seq[k])
  BY DEF Ordered
<1>7. /\ Continues(a, t) /\ Len(Bytes(a)) < Len(Bytes(t))
      /\ Bytes(t)[Len(Bytes(a)) + 1] = Slash
  BY <1>2, HeldText
<1>8. \A x \in BytePaths : Before(a, x) /\ Before(x, t) =>
                       /\ d <= Len(x)
                       /\ \/ x[d] = a[d] /\ d < Len(x)
                          \/ Beside(a, SubSeq(x, 1, d))
  BY <1>2, <1>4, Between
<1>9. \A e \in E : Beside(a, e) => Before(a, e) /\ Before(e, t)
  BY <1>1, <1>2, <1>4, <1>7, BesideComesBetween
<1>10. \A x \in BytePaths : Len(x) \in Nat \ {0} /\ x \in Seq(EntryNames)
  BY TextOf
<1> HIDE DEF a, t
<1>11. PICK ia \in 1 .. n : seq[ia] = a
  BY <1>3, <1>6
<1>12. ia < i
  BY <1>4, <1>6, <1>11 DEF t
<1>13. ia \in S
  BY <1>1, <1>2, <1>4, <1>11, <1>12
<1>14. PICK k \in S : \A j \in S : j <= k
  <2>1. U \in SUBSET Nat /\ U # {}
    BY <1>1, <1>2, <1>13
  <2>2. PICK u \in U : \A v \in U : u <= v
    <3> HIDE DEF U
    <3> QED
      BY <2>1, Joins!Least
  <2>3. PICK k \in S : u = i - k
    BY <2>2
  <2>4. \A j \in S : i - k <= i - j
    BY <2>2, <2>3
  <2>5. \A j \in S : j \in Nat
    BY <1>1
  <2> QED
    BY <1>2, <2>4, <2>5
<1> DEFINE x == seq[k]
<1>15. k \in 1 .. i - 1 /\ k \in 1 .. n /\ Len(x) <= d /\ ia <= k /\ x \in E /\ x \in BytePaths
  BY <1>1, <1>2, <1>13, <1>14
<1>16. \A j \in k + 1 .. i - 1 : Len(seq[j]) > d
  <2> TAKE j \in k + 1 .. i - 1
  <2>1. j \in 1 .. i - 1 /\ ~(j <= k) /\ j \in 1 .. n
    BY <1>1, <1>2, <1>15
  <2>2. ~(Len(seq[j]) <= d)
    BY <1>14, <2>1
  <2>3. Len(seq[j]) \in Nat
    BY <1>1, <1>10, <2>1
  <2> QED
    BY <1>2, <2>2, <2>3
<1>17. x = a \/ (Before(a, x) /\ Before(x, t))
  BY <1>1, <1>2, <1>6, <1>11, <1>15 DEF t
<1> HIDE DEF S, U, x
<1>18. x = a \/ Beside(a, SubSeq(x, 1, d))
  BY <1>2, <1>8, <1>10, <1>15, <1>17
<1>19. Len(x) = d
  BY <1>2, <1>4, <1>8, <1>10, <1>15, <1>17
<1>20. SubSeq(x, 1, d) = x /\ Last(x) = x[d]
  BY <1>10, <1>15, <1>19 DEF Last
<1>21. Beside(a, x) => x[d] # a[d]
  BY <1>4, <1>19 DEF Beside, Last, IsStrictPrefix
<1>22. x[d] = a[d] <=> ~\E e \in E : Beside(a, e)
  <2>1. ASSUME NEW e \in E, Beside(a, e) PROVE x # a
    <3>1. Before(a, e) /\ Before(e, t) /\ Len(e) = d
      BY <1>4, <1>9, <2>1 DEF Beside
    <3>2. PICK ie \in 1 .. n : seq[ie] = e
      BY <1>6
    <3>3. ia < ie /\ ie < i
      BY <1>6, <1>11, <3>1, <3>2 DEF t
    <3>4. ie \in S
      BY <1>1, <1>2, <3>1, <3>2, <3>3 DEF S
    <3>5. ia < k
      BY <1>1, <1>2, <1>14, <1>15, <3>3, <3>4
    <3>6. Before(a, x)
      BY <1>6, <1>11, <1>15, <3>5 DEF x
    <3> QED
      BY <1>4, <3>6, PathsOrdered
  <2>2. x = a => x[d] = a[d]
    OBVIOUS
  <2> QED
    BY <1>15, <1>18, <1>20, <1>21, <2>1, <2>2
<1>23. AboveAt(seq, i, d) = {k}
  <2>1. k \in AboveAt(seq, i, d)
    BY <1>15, <1>16, <1>19 DEF AboveAt, x
  <2>2. ASSUME NEW j \in AboveAt(seq, i, d) PROVE j = k
    <3>1. j \in 1 .. i - 1 /\ Len(seq[j]) = d /\ \A l \in j + 1 .. i - 1 : Len(seq[l]) > d
      BY <2>2 DEF AboveAt
    <3>2. ~(j < k)
      <4> SUFFICES ASSUME j < k PROVE FALSE
        OBVIOUS
      <4>1. k \in j + 1 .. i - 1
        BY <1>2, <1>15, <3>1
      <4>2. Len(x) > d
        BY <3>1, <4>1 DEF x
      <4> QED
        BY <1>2, <1>19, <4>2
    <3>3. ~(k < j)
      <4> SUFFICES ASSUME k < j PROVE FALSE
        OBVIOUS
      <4>1. j \in k + 1 .. i - 1
        BY <1>2, <1>15, <3>1
      <4>2. Len(seq[j]) > d
        BY <1>16, <4>1
      <4> QED
        BY <1>2, <3>1, <4>2
    <3> QED
      BY <1>2, <1>15, <3>1, <3>2, <3>3
  <2> QED
    BY <2>1, <2>2
<1> QED
  BY <1>5, <1>15, <1>20, <1>22, <1>23 DEF x, a, t

\* A line reads as its path exactly if nothing parts that from one of its directories.
LEMMA LineReads ==
  ASSUME NEW E, WithParents(E), NEW seq, NEW n, Ordered(E, seq, n), NEW i \in 1 .. n, NEW lines,
         \A j \in 1 .. i : lines[j].depth = Len(seq[j]) /\ lines[j].name = Last(seq[j])
  PROVE  ReadLine(lines, i) = seq[i] <=> ~Parted(E, seq[i])
<1> DEFINE t == seq[i]
           L == Len(t)
           read == ReadLine(lines, i)
           Said(d) == IF d = L THEN lines[i].name
                      ELSE IF AboveAt(seq, i, d) = {} THEN <<>>
                           ELSE lines[CHOOSE j \in AboveAt(seq, i, d) : TRUE].name
<1>1. /\ n \in Nat /\ i \in Nat \ {0} /\ \A j \in 1 .. n : seq[j] \in BytePaths
  BY DEF Ordered, WithParents
<1>2. t \in BytePaths /\ t \in Seq(EntryNames) /\ L \in Nat \ {0}
  BY <1>1, TextOf
<1>3. lines[i].depth = L /\ lines[i].name = t[L]
  <2>1. i \in 1 .. i
    BY <1>1
  <2> QED
    BY <2>1 DEF Last
<1>4. \A j \in 1 .. i - 1 : lines[j].depth = Len(seq[j]) /\ lines[j].name = Last(seq[j]) /\ Len(seq[j]) \in Nat
  <2> TAKE j \in 1 .. i - 1
  <2>1. j \in 1 .. i /\ j \in 1 .. n
    BY <1>1
  <2> QED
    BY <1>1, <2>1, TextOf
<1>5. \A d \in 1 .. L : d # L =>
        {j \in {j \in 1 .. i - 1 : lines[j].depth < lines[i].depth} :
           lines[j].depth = d /\ \A k \in j + 1 .. i - 1 : lines[k].depth > d} = AboveAt(seq, i, d)
  <2> TAKE d \in 1 .. L
  <2> HAVE d # L
  <2>1. d < L
    BY <1>2
  <2>2. \A j \in 1 .. i - 1 : \A k \in j + 1 .. i - 1 : k \in 1 .. i - 1
    BY <1>1
  <2> DEFINE Ours(j) == lines[j].depth = d /\ \A k \in j + 1 .. i - 1 : lines[k].depth > d
             Its(j) == Len(seq[j]) = d /\ \A k \in j + 1 .. i - 1 : Len(seq[k]) > d
  <2>3. \A j \in 1 .. i - 1 : Ours(j) <=> Its(j)
    BY <1>4, <2>2
  <2>4. \A j \in 1 .. i - 1 : Ours(j) => lines[j].depth < lines[i].depth
    BY <1>3, <2>1
  <2> HIDE DEF Ours, Its
  <2>5. {j \in {j \in 1 .. i - 1 : lines[j].depth < lines[i].depth} : Ours(j)} = {j \in 1 .. i - 1 : Its(j)}
    BY <2>3, <2>4
  <2> QED
    BY <2>5 DEF Ours, Its, AboveAt
<1> DEFINE Over(d) == {j \in {j \in 1 .. i - 1 : lines[j].depth < lines[i].depth} :
                         lines[j].depth = d /\ \A k \in j + 1 .. i - 1 : lines[k].depth > d}
           Value(d) == IF d = lines[i].depth THEN lines[i].name
                       ELSE IF Over(d) = {} THEN <<>> ELSE lines[CHOOSE j \in Over(d) : TRUE].name
<1>00. read = [d \in 1 .. lines[i].depth |-> Value(d)]
  BY Zenon DEF ReadLine
<1>6. read = [d \in 1 .. L |-> read[d]] /\ \A d \in 1 .. L : read[d] = Value(d)
  <2> HIDE DEF Value, read
  <2> QED
    BY <1>00, <1>3
<1>7. \A d \in 1 .. L : read[d] = Said(d)
  <2> TAKE d \in 1 .. L
  <2>1. read[d] = IF d = lines[i].depth THEN lines[i].name
                  ELSE IF Over(d) = {} THEN <<>> ELSE lines[CHOOSE j \in Over(d) : TRUE].name
    <3> HIDE DEF Over, read
    <3> QED
      BY <1>6
  <2>2. d # L => Over(d) = AboveAt(seq, i, d)
    BY <1>5
  <2> HIDE DEF Over, read
  <2> QED
    BY <1>3, <2>1, <2>2
<1>8. ASSUME NEW d \in 1 .. L - 1
      PROVE  read[d] = t[d] <=> ~\E e \in E : Beside(SubSeq(t, 1, d), e)
  <2>1. PICK k \in 1 .. i - 1 :
           /\ AboveAt(seq, i, d) = {k}
           /\ Last(seq[k]) = t[d] <=> ~\E e \in E : Beside(SubSeq(t, 1, d), e)
    BY DepthReads
  <2>2. d \in 1 .. L /\ d # L
    BY <1>2
  <2>3. read[d] = Said(d)
    BY <1>7, <2>2
  <2>4. (CHOOSE j \in AboveAt(seq, i, d) : TRUE) = k
    BY <2>1
  <2>5. AboveAt(seq, i, d) # {}
    BY <2>1
  <2>6. read[d] = lines[k].name
    BY <2>2, <2>3, <2>4, <2>5
  <2> QED
    BY <1>4, <2>1, <2>6
<1>9. read[L] = t[L]
  <2>1. L \in 1 .. L
    BY <1>2
  <2> QED
    BY <1>3, <1>7, <2>1
<1>10. read = t <=> \A d \in 1 .. L - 1 : read[d] = t[d]
  <2>1. ASSUME \A d \in 1 .. L - 1 : read[d] = t[d] PROVE read = t
    <3>1. \A d \in 1 .. L : d = L \/ d \in 1 .. L - 1
      BY <1>2
    <3>2. \A d \in 1 .. L : read[d] = t[d]
      BY <1>9, <2>1, <3>1
    <3>3. t = [d \in 1 .. L |-> t[d]]
      BY <1>2
    <3> HIDE DEF read, t, L
    <3> QED
      BY <1>6, <3>2, <3>3
  <2> QED
    BY <2>1
<1> HIDE DEF read
<1>11. read = t <=> \A d \in 1 .. L - 1 : ~\E e \in E : Beside(SubSeq(t, 1, d), e)
  BY <1>8, <1>10
<1> QED
  BY <1>11 DEF Parted, read

\* The lesser of two numbers.
LEMMA LesserOfTwo ==
  ASSUME NEW m \in Nat, NEW n \in Nat
  PROVE  Min({m, n}) = IF m <= n THEN m ELSE n
<1> DEFINE least == IF m <= n THEN m ELSE n
<1>1. \A x \in {m, n} : (\A y \in {m, n} : x <= y) <=> x = least
  OBVIOUS
<1>2. least \in {m, n}
  OBVIOUS
<1> HIDE DEF least
<1>3. (CHOOSE x \in {m, n} : \A y \in {m, n} : x <= y) = least
  BY <1>1, <1>2
<1> QED
  BY <1>3 DEF Min, least

\* What the listing of the entries says.
ListedWell(i) ==
  LET entries  == i.dirs \cup i.files
      combined == Combined(i.dirs, i.files)
      tree     == RenderTree(i.dirs, i.files)
  IN /\ ToSet(combined) = entries /\ Len(combined) = Cardinality(entries)
     /\ Len(tree.lines) = Min({TreeLimit, Cardinality(entries)})
     /\ tree.truncated <=> Len(tree.lines) < Cardinality(entries)
     /\ \A j \in DOMAIN tree.lines :
          ReadLine(tree.lines, j) = combined[j] <=> ~Parted(entries, combined[j])

\* It says what it should.
LEMMA AlwaysListedWell ==
  ASSUME NEW given \in TreeInputs
  PROVE  ListedWell(given)
<1> DEFINE E == given.dirs \cup given.files
           c == Combined(given.dirs, given.files)
           tree == RenderTree(given.dirs, given.files)
           n == Cardinality(E)
           shown == Min({n, TreeLimit})
<1>1. /\ IsFiniteSet(E)
      /\ \A e \in E : /\ e \in BytePaths
                      /\ \A d \in 1 .. Len(e) - 1 : SubSeq(e, 1, d) \in E
  BY TreeInputAssumption DEF BytePaths, EntryNames
<1>2. WithParents(E)
  <2> HIDE DEF E
  <2> QED
    BY <1>1 DEF WithParents
<1>3. /\ n \in Nat /\ c \in Seq(E) /\ Len(c) = n
      /\ \A x \in E : \E i \in 1 .. n : c[i] = x
      /\ \A i, j \in 1 .. n : i < j <=> Before(c[i], c[j])
  BY <1>1, CombinedSorted
<1>4. Ordered(E, c, n)
  <2> HIDE DEF E, c, n
  <2> QED
    BY <1>3 DEF Ordered
<1>5. ToSet(c) = E
  <2> HIDE DEF E, c, n
  <2>1. DOMAIN c = 1 .. n /\ \A i \in 1 .. n : c[i] \in E
    BY <1>3
  <2> QED
    BY <1>3, <2>1 DEF ToSet
<1>6. /\ tree.lines = [i \in 1 .. Min({Len(c), TreeLimit}) |->
                         [depth |-> Len(c[i]), name |-> Last(c[i]), dir |-> c[i] \in given.dirs]]
      /\ tree.truncated = (Len(c) > TreeLimit)
  BY DEF RenderTree
<1>7. /\ TreeLimit \in Nat /\ n \in Nat
      /\ shown = IF n <= TreeLimit THEN n ELSE TreeLimit
  BY <1>3, TreeAssumption, LesserOfTwo
<1> DEFINE lines == tree.lines
<1>8. lines = [i \in 1 .. shown |->
                 [depth |-> Len(c[i]), name |-> Last(c[i]), dir |-> c[i] \in given.dirs]]
  BY <1>3, <1>6
<1>9. tree.truncated <=> n > TreeLimit
  BY <1>3, <1>6
<1> HIDE DEF E, c, tree, n, shown, lines
<1>10. /\ DOMAIN lines = 1 .. shown
       /\ \A i \in 1 .. shown : lines[i].depth = Len(c[i]) /\ lines[i].name = Last(c[i])
  BY <1>8
<1>11. shown \in Nat /\ shown <= n
  BY <1>7
<1>12. Len(lines) = shown
  BY <1>8, <1>11
<1>13. tree.truncated <=> Len(lines) < n
  BY <1>7, <1>9, <1>12
<1>14. ASSUME NEW i \in DOMAIN lines PROVE ReadLine(lines, i) = c[i] <=> ~Parted(E, c[i])
  <2>1. i \in 1 .. n /\ \A j \in 1 .. i : j \in 1 .. shown
    BY <1>7, <1>10, <1>11
  <2>2. \A j \in 1 .. i : lines[j].depth = Len(c[j]) /\ lines[j].name = Last(c[j])
    BY <1>10, <2>1
  <2> QED
    BY <1>2, <1>4, <2>1, <2>2, LineReads
<1>15. /\ ToSet(c) = E /\ Len(c) = n /\ Len(lines) = Min({TreeLimit, n})
       /\ tree.truncated <=> Len(lines) < n
       /\ \A i \in DOMAIN lines : ReadLine(lines, i) = c[i] <=> ~Parted(E, c[i])
  <2>1. {TreeLimit, n} = {n, TreeLimit}
    OBVIOUS
  <2> QED
    BY <1>3, <1>5, <1>12, <1>13, <1>14, <2>1 DEF shown
<1> QED
  BY <1>15 DEF ListedWell, E, c, tree, n, lines

\* The tree lists every entry that the limit leaves room for, once, in order, and says
\* whether one is missing; a line reads as its path unless something parts that.
THEOREM TreeAlwaysReads == Spec => []TreeReads
<1>1. TreeReads <=> (about = "tree" => ListedWell(input))
  BY Zenon DEF TreeReads, ListedWell
<1>2. Picked => (about = "tree" => input \in TreeInputs)
  BY DEF Picked
<1>3. Picked => TreeReads
  BY <1>1, <1>2, AlwaysListedWell
<1> QED
  BY <1>3, PickedFromInputs, PTL
-----------------------------------------------------------------------------
(* inventory.sniff_text and detect_eol                                      *)

PieceTurn(c, file, piece) == file \o piece
Glued == INSTANCE Loops WITH Op <- PieceTurn

AwaitTurn(c, waiting, byte) == Await(waiting, byte)
Decoder == INSTANCE Loops WITH Op <- AwaitTurn

\* A file is its pieces one after the other.
LEMMA FileRuns ==
  ASSUME NEW text
  PROVE  FileOf(text) = Glued!Run(0, <<>>, text)
BY DEF FileOf, Glued!Run, PieceTurn, FoldLeft, MapThenFoldSet, Max, Glued!Max

\* The decoder takes one byte after the other.
LEMMA DecoderRuns ==
  ASSUME NEW bytes
  PROVE  Decodes(bytes) <=> Decoder!Run(0, 0, bytes) = 0
BY DEF Decodes, Decoder!Run, AwaitTurn, FoldLeft, MapThenFoldSet, Max, Decoder!Max

\* The bytes there are, and the pieces a file is cut into.
Byte == Single \cup Leads \cup Follows \cup Invalid
Pieces == Characters \cup {<<byte>> : byte \in Byte}

\* A character is one byte, the end of a line, or a byte and those that follow it.
LEMMA CharacterIs ==
  ASSUME NEW char \in Characters
  PROVE  /\ char \in Seq(Byte) /\ Len(char) >= 1
         /\ \/ Len(char) = 1 /\ char[1] \in Single
            \/ char = <<"CR", "LF">>
            \/ /\ char[1] \in Leads /\ Len(char) = 1 + Wait(char[1])
               /\ \A j \in 2 .. Len(char) : char[j] \in Follows
<1>1. CASE \E byte \in Single : char = <<byte>>
  BY <1>1 DEF Byte
<1>2. CASE char = <<"CR", "LF">>
  BY <1>2 DEF Byte, Single
<1>3. CASE \E byte \in Leads : \E rest \in [1 .. Wait(byte) -> Follows] : char = <<byte>> \o rest
  <2>0. PICK byte \in Leads : \E rest \in [1 .. Wait(byte) -> Follows] : char = <<byte>> \o rest
    BY <1>3
  <2>1. PICK rest \in [1 .. Wait(byte) -> Follows] : char = <<byte>> \o rest
    BY <2>0
  <2> DEFINE n == Wait(byte)
             one == <<byte>>
  <2>2. n \in Nat
    BY DEF Wait, Leads
  <2>3. one \in Seq(Byte) /\ Len(one) = 1 /\ one[1] = byte
    BY DEF Byte
  <2>4. rest \in Seq(Byte) /\ Len(rest) = n /\ \A j \in 1 .. n : rest[j] \in Follows
    <3>1. rest \in [1 .. n -> Follows]
      OBVIOUS
    <3> HIDE DEF n
    <3>2. rest \in Seq(Follows) /\ Len(rest) = n
      BY <2>2, <3>1
    <3>3. Follows \subseteq Byte
      BY DEF Byte
    <3>4. \A j \in 1 .. n : rest[j] \in Follows
      BY <3>1
    <3> HIDE DEF Byte
    <3>5. rest \in Seq(Byte)
      BY <3>2, <3>3
    <3> QED
      BY <3>2, <3>4, <3>5
  <2> HIDE DEF n, one
  <2>5. char \in Seq(Byte) /\ Len(char) = 1 + n /\ char[1] = byte
    BY <2>1, <2>2, <2>3, <2>4 DEF one
  <2>6. \A j \in 2 .. Len(char) : char[j] = rest[j - 1] /\ j - 1 \in 1 .. n
    BY <2>1, <2>2, <2>3, <2>4 DEF one
  <2> QED
    BY <2>2, <2>4, <2>5, <2>6 DEF n
<1> QED
  BY <1>1, <1>2, <1>3 DEF Characters

\* What the end of a line is in a piece.
LEMMA PieceIs ==
  ASSUME NEW piece \in Pieces
  PROVE  /\ piece \in Seq(Byte) /\ Len(piece) >= 1
         /\ \A j \in 1 .. Len(piece) :
              /\ piece[j] = "LF" => piece = <<"LF">> \/ (piece = <<"CR", "LF">> /\ j = 2)
              /\ piece[j] = "CR" => piece = <<"CR">> \/ (piece = <<"CR", "LF">> /\ j = 1)
<1>1. CASE \E byte \in Byte : piece = <<byte>>
  BY <1>1
<1>2. CASE piece \in Characters
  <2>1. CASE Len(piece) = 1 /\ piece[1] \in Single
    <3>1. piece = <<piece[1]>>
      BY <1>2, <2>1, CharacterIs
    <3> QED
      BY <1>2, <2>1, <3>1, CharacterIs
  <2>2. CASE piece = <<"CR", "LF">>
    BY <1>2, <2>2, CharacterIs
  <2>3. CASE piece[1] \in Leads /\ \A j \in 2 .. Len(piece) : piece[j] \in Follows
    <3>1. piece \in Seq(Byte) /\ Len(piece) >= 1
      BY <1>2, CharacterIs
    <3>2. \A b \in Leads \cup Follows : b # "LF" /\ b # "CR"
      BY DEF Leads, Follows
    <3>3. \A j \in 1 .. Len(piece) : piece[j] \in Leads \cup Follows
      BY <2>3, <3>1
    <3> QED
      BY <3>1, <3>2, <3>3
  <2> QED
    BY <1>2, <2>1, <2>2, <2>3, CharacterIs
<1> QED
  BY <1>1, <1>2 DEF Pieces

\* What is read of the first k pieces, and where they end.
FirstOf(text, k) == FileOf(SubSeq(text, 1, k))
EndOf(text, k) == Len(FirstOf(text, k))

\* A piece more is glued to what there is.
LEMMA NextPiece ==
  ASSUME NEW text \in Seq(Pieces)
  PROVE  /\ FirstOf(text, 0) = <<>>
         /\ FirstOf(text, Len(text)) = FileOf(text)
         /\ \A k \in 1 .. Len(text) : FirstOf(text, k) = FirstOf(text, k - 1) \o text[k]
<1>1. FirstOf(text, 0) = <<>>
  BY FileRuns, Glued!Start DEF FirstOf
<1>2. FirstOf(text, Len(text)) = FileOf(text)
  BY FileRuns, Glued!Finish DEF FirstOf
<1>3. \A k \in 1 .. Len(text) : FirstOf(text, k) = FirstOf(text, k - 1) \o text[k]
  <2> TAKE k \in 1 .. Len(text)
  <2>1. Glued!Run(0, <<>>, SubSeq(text, 1, k)) = PieceTurn(0, Glued!Run(0, <<>>, SubSeq(text, 1, k - 1)), text[k])
    BY Glued!Turn
  <2>2. FirstOf(text, k) = PieceTurn(0, FirstOf(text, k - 1), text[k])
    BY <2>1, FileRuns DEF FirstOf
  <2> QED
    BY <2>2 DEF PieceTurn
<1> QED
  BY <1>1, <1>2, <1>3

\* The first k pieces are in the file one behind the other, with nothing between them.
Spread(text, k) ==
  /\ FirstOf(text, k) \in Seq(Byte)
  /\ \A m \in 1 .. k :
       /\ EndOf(text, m - 1) \in Nat /\ EndOf(text, m - 1) + Len(text[m]) <= EndOf(text, k)
       /\ \A j \in 1 .. Len(text[m]) : FirstOf(text, k)[EndOf(text, m - 1) + j] = text[m][j]
  /\ \A i \in 1 .. EndOf(text, k) :
       \E m \in 1 .. k : \E j \in 1 .. Len(text[m]) : i = EndOf(text, m - 1) + j

\* They are.
LEMMA PiecesSpread ==
  ASSUME NEW text \in Seq(Pieces)
  PROVE  \A k \in 0 .. Len(text) : Spread(text, k)
<1> DEFINE n == Len(text)
           T == {k \in 0 .. n : Spread(text, k)}
<1>1. n \in Nat /\ \A k \in 1 .. n : text[k] \in Seq(Byte) /\ Len(text[k]) >= 1
  BY PieceIs
<1>2. 0 \in T
  <2> DEFINE none == <<>>
  <2>0. none \in Seq(Byte) /\ Len(none) = 0
    OBVIOUS
  <2> HIDE DEF none
  <2>1. FirstOf(text, 0) = none
    BY NextPiece DEF none
  <2>2. FirstOf(text, 0) \in Seq(Byte) /\ EndOf(text, 0) = 0
    BY <2>0, <2>1 DEF EndOf
  <2> QED
    BY <1>1, <2>2 DEF Spread
<1>3. ASSUME NEW k \in 1 .. n, k - 1 \in T PROVE k \in T
  <2> DEFINE a == FirstOf(text, k - 1)
             b == text[k]
             c == FirstOf(text, k)
             e == EndOf(text, k - 1)
  <2>1. c = a \o b /\ a \in Seq(Byte) /\ b \in Seq(Byte) /\ Len(b) >= 1
    BY <1>1, <1>3, NextPiece DEF Spread
  <2>2. EndOf(text, k) = Len(c) /\ e = Len(a)
    BY DEF EndOf
  <2> HIDE DEF a, b, c, e
  <2>3. /\ c \in Seq(Byte) /\ Len(c) = e + Len(b) /\ e \in Nat /\ Len(b) \in Nat
        /\ \A i \in 1 .. e : c[i] = a[i]
        /\ \A j \in 1 .. Len(b) : c[e + j] = b[j]
    BY <2>1, <2>2
  <2>4. ASSUME NEW m \in 1 .. k
        PROVE  /\ EndOf(text, m - 1) \in Nat /\ EndOf(text, m - 1) + Len(text[m]) <= EndOf(text, k)
               /\ \A j \in 1 .. Len(text[m]) : c[EndOf(text, m - 1) + j] = text[m][j]
    <3>1. CASE m = k
      BY <2>2, <2>3, <3>1 DEF b, e
    <3>2. CASE m \in 1 .. k - 1
      <4> DEFINE d == EndOf(text, m - 1)
                 l == Len(text[m])
      <4>1. /\ d \in Nat /\ d + l <= e
            /\ \A j \in 1 .. l : a[d + j] = text[m][j]
        BY <1>3, <3>2 DEF Spread, a, e
      <4>2. l \in Nat
        BY <1>1, <3>2
      <4> HIDE DEF d, l
      <4>3. d + l <= EndOf(text, k)
        BY <2>2, <2>3, <4>1, <4>2
      <4>4. ASSUME NEW j \in 1 .. l PROVE c[d + j] = text[m][j]
        <5>1. d + j \in 1 .. e
          BY <2>3, <4>1, <4>2
        <5> QED
          BY <2>3, <4>1, <5>1
      <4> QED
        BY <4>1, <4>3, <4>4 DEF d, l
    <3> QED
      BY <3>1, <3>2
  <2>5. ASSUME NEW i \in 1 .. EndOf(text, k)
        PROVE  \E m \in 1 .. k : \E j \in 1 .. Len(text[m]) : i = EndOf(text, m - 1) + j
    <3>1. CASE i \in 1 .. e
      <4>1. PICK m \in 1 .. k - 1 : \E j \in 1 .. Len(text[m]) : i = EndOf(text, m - 1) + j
        BY <1>3, <3>1 DEF Spread, e
      <4> QED
        BY <4>1
    <3>2. CASE i > e
      <4> DEFINE j == i - e
      <4>1. j \in 1 .. Len(b) /\ i = e + j
        BY <2>2, <2>3, <3>2
      <4> HIDE DEF j
      <4> QED
        BY <4>1 DEF b, e
    <3> QED
      BY <2>2, <2>3, <3>1, <3>2
  <2> QED
    <3>1. FirstOf(text, k) \in Seq(Byte)
      BY <2>3 DEF c
    <3>2. \A m \in 1 .. k :
            /\ EndOf(text, m - 1) \in Nat /\ EndOf(text, m - 1) + Len(text[m]) <= EndOf(text, k)
            /\ \A j \in 1 .. Len(text[m]) : FirstOf(text, k)[EndOf(text, m - 1) + j] = text[m][j]
      BY <2>4, Zenon DEF c
    <3>3. Spread(text, k)
      BY <2>5, <3>1, <3>2, Zenon DEF Spread
    <3>4. k \in 0 .. n
      BY <1>1
    <3> QED
      BY <3>3, <3>4, Zenon
<1> HIDE DEF T, n
<1>4. \A k \in 0 .. n : k \in T
  BY <1>1, <1>2, <1>3, Glued!UpTo
<1> QED
  BY <1>4 DEF T, n

\* Where the pieces of a file are.
LEMMA WherePieces ==
  ASSUME NEW text \in Seq(Pieces)
  PROVE  /\ FileOf(text) \in Seq(Byte)
         /\ EndOf(text, 0) = 0 /\ EndOf(text, Len(text)) = Len(FileOf(text))
         /\ \A k \in 0 .. Len(text) : EndOf(text, k) \in Nat /\ EndOf(text, k) <= Len(FileOf(text))
         /\ \A k \in 1 .. Len(text) : EndOf(text, k) = EndOf(text, k - 1) + Len(text[k])
         /\ \A k, m \in 0 .. Len(text) : k < m => EndOf(text, k) < EndOf(text, m)
         /\ \A m \in 1 .. Len(text) : \A j \in 1 .. Len(text[m]) :
              FileOf(text)[EndOf(text, m - 1) + j] = text[m][j]
         /\ \A i \in 1 .. Len(FileOf(text)) :
              \E m \in 1 .. Len(text) : \E j \in 1 .. Len(text[m]) : i = EndOf(text, m - 1) + j
<1> DEFINE n == Len(text)
<1>1. n \in Nat /\ \A k \in 1 .. n : text[k] \in Seq(Byte) /\ Len(text[k]) \in Nat /\ Len(text[k]) >= 1
  BY PieceIs
<1>2. \A k \in 0 .. n : Spread(text, k)
  BY PiecesSpread
<1>3. FirstOf(text, n) = FileOf(text) /\ EndOf(text, n) = Len(FileOf(text))
  BY NextPiece DEF EndOf
<1>4. \A k \in 0 .. n : EndOf(text, k) \in Nat
  BY <1>2 DEF Spread, EndOf
<1>5. EndOf(text, 0) = 0
  <2> DEFINE none == <<>>
  <2>1. Len(none) = 0
    OBVIOUS
  <2> HIDE DEF none
  <2>2. FirstOf(text, 0) = none
    BY NextPiece DEF none
  <2> QED
    BY <2>1, <2>2 DEF EndOf
<1>6. \A k \in 1 .. n : EndOf(text, k) = EndOf(text, k - 1) + Len(text[k])
  <2> TAKE k \in 1 .. n
  <2> DEFINE a == FirstOf(text, k - 1)
             b == text[k]
  <2>1. FirstOf(text, k) = a \o b
    BY NextPiece
  <2>2. a \in Seq(Byte) /\ b \in Seq(Byte)
    <3>1. k - 1 \in 0 .. n
      BY <1>1
    <3> QED
      BY <1>1, <1>2, <3>1 DEF Spread
  <2> HIDE DEF a, b
  <2>3. Len(a \o b) = Len(a) + Len(b)
    BY <2>2
  <2> QED
    BY <2>1, <2>3 DEF EndOf, a, b
<1> HIDE DEF n
<1>7. ASSUME NEW k \in 0 .. n, NEW m \in 0 .. n, k < m PROVE EndOf(text, k) < EndOf(text, m)
  <2> DEFINE i == k + 1
  <2>1. i \in 1 .. m /\ i \in 1 .. n /\ i - 1 = k
    BY <1>1, <1>7
  <2> HIDE DEF i
  <2>2. EndOf(text, i - 1) + Len(text[i]) <= EndOf(text, m)
    BY <1>2, <1>7, <2>1 DEF Spread
  <2> QED
    BY <1>1, <1>4, <1>7, <2>1, <2>2
<1>8. \A k \in 0 .. n : EndOf(text, k) <= EndOf(text, n)
  <2> TAKE k \in 0 .. n
  <2>1. k = n \/ k < n
    BY <1>1
  <2> QED
    BY <1>1, <1>4, <1>7, <2>1
<1>9. Spread(text, n)
  BY <1>1, <1>2
<1>10. FileOf(text) \in Seq(Byte)
  BY <1>3, <1>9 DEF Spread
<1>11. \A m \in 1 .. n : \A j \in 1 .. Len(text[m]) : FileOf(text)[EndOf(text, m - 1) + j] = text[m][j]
  BY <1>3, <1>9 DEF Spread
<1>12. \A i \in 1 .. Len(FileOf(text)) :
         \E m \in 1 .. n : \E j \in 1 .. Len(text[m]) : i = EndOf(text, m - 1) + j
  BY <1>3, <1>9 DEF Spread
<1> QED
  BY <1>3, <1>4, <1>5, <1>6, <1>7, <1>8, <1>10, <1>11, <1>12 DEF n

\* What the decoder still waits for within a character.
Left(char, j) == IF char = <<"CR", "LF">> THEN 0 ELSE Len(char) - j

\* A byte of a character is one that it waits for.
LEMMA ByteTaken ==
  ASSUME NEW char \in Characters, NEW j \in 1 .. Len(char)
  PROVE  /\ Await(IF j = 1 THEN 0 ELSE Left(char, j - 1), char[j]) = Left(char, j)
         /\ Left(char, Len(char)) = 0
<1>0. Len(char) \in Nat
  BY CharacterIs
<1>1. CASE Len(char) = 1 /\ char[1] \in Single
  <2>1. char # <<"CR", "LF">>
    <3> DEFINE pair == <<"CR", "LF">>
    <3>1. Len(pair) = 2
      OBVIOUS
    <3> HIDE DEF pair
    <3>2. char # pair
      BY <1>1, <3>1
    <3> QED
      BY <3>2 DEF pair
  <2>2. j = 1 /\ Left(char, 1) = 0
    BY <1>1, <2>1 DEF Left
  <2>3. \A b \in Single : Await(0, b) = 0
    BY DEF Await, Single, Leads
  <2> QED
    BY <1>1, <2>2, <2>3
<1>2. CASE char = <<"CR", "LF">>
  <2>1. /\ Len(char) = 2 /\ char[1] = "CR" /\ char[2] = "LF"
    BY <1>2
  <2>2. Await(0, "CR") = 0 /\ Await(0, "LF") = 0
    BY DEF Await, Single, Leads
  <2>3. \A i : Left(char, i) = 0
    BY <1>2 DEF Left
  <2>4. j = 1 \/ j = 2
    BY <2>1
  <2> HIDE <1>2
  <2> QED
    BY <2>1, <2>2, <2>3, <2>4
<1>3. CASE char[1] \in Leads /\ Len(char) = 1 + Wait(char[1]) /\ \A i \in 2 .. Len(char) : char[i] \in Follows
  <2>1. char # <<"CR", "LF">>
    BY <1>3 DEF Leads
  <2>2. \A i \in Nat : Left(char, i) = Len(char) - i
    BY <2>1 DEF Left
  <2>3. \A b \in Leads : Await(0, b) = Wait(b)
    BY DEF Await, Single, Leads
  <2>4. CASE j = 1
    <3>1. Left(char, 1) = Wait(char[1])
      <4>1. \A b \in Leads : Wait(b) \in Nat
        BY DEF Wait, Leads
      <4> QED
        BY <1>3, <2>2, <4>1
    <3> QED
      BY <1>0, <1>3, <2>2, <2>3, <2>4, <3>1
  <2>5. CASE j > 1
    <3> DEFINE w == Left(char, j - 1)
    <3>1. w = Len(char) - (j - 1) /\ Left(char, j) = Len(char) - j /\ Left(char, Len(char)) = 0
      BY <1>0, <2>2
    <3> HIDE DEF w
    <3>2. w \in Nat /\ w > 0 /\ w - 1 = Left(char, j) /\ char[j] \in Follows
      BY <1>0, <1>3, <2>5, <3>1
    <3>3. \A b : w > 0 /\ b \in Follows => Await(w, b) = w - 1
      BY <3>2 DEF Await
    <3> QED
      BY <2>5, <3>1, <3>2, <3>3 DEF w
  <2> QED
    BY <1>0, <2>4, <2>5
<1> QED
  BY <1>1, <1>2, <1>3, CharacterIs

\* What the decoder has after k bytes.
Waits(bytes, k) == Decoder!Run(0, 0, SubSeq(bytes, 1, k))

\* It goes from byte to byte.
LEMMA NextByte ==
  ASSUME NEW bytes \in Seq(Byte)
  PROVE  /\ Waits(bytes, 0) = 0
         /\ Decodes(bytes) <=> Waits(bytes, Len(bytes)) = 0
         /\ \A k \in 1 .. Len(bytes) : Waits(bytes, k) = Await(Waits(bytes, k - 1), bytes[k])
<1>1. Waits(bytes, 0) = 0
  BY Decoder!Start DEF Waits
<1>2. Decodes(bytes) <=> Waits(bytes, Len(bytes)) = 0
  BY DecoderRuns, Decoder!Finish DEF Waits
<1>3. ASSUME NEW k \in 1 .. Len(bytes) PROVE Waits(bytes, k) = Await(Waits(bytes, k - 1), bytes[k])
  <2>1. Waits(bytes, k) = AwaitTurn(0, Waits(bytes, k - 1), bytes[k])
    BY Decoder!Turn DEF Waits
  <2> QED
    BY <2>1 DEF AwaitTurn
<1> QED
  BY <1>1, <1>2, <1>3

\* In a text it waits for what is left of a character.
LEMMA WaitsForRest ==
  ASSUME NEW text \in Seq(Characters), NEW m \in 1 .. Len(text), NEW j \in 1 .. Len(text[m])
  PROVE  Waits(FileOf(text), EndOf(text, m - 1) + j) = Left(text[m], j)
<1> DEFINE file == FileOf(text)
           n == Len(file)
           c == Len(text)
           T == {k \in 0 .. n : \A h \in 1 .. c : \A i \in 1 .. Len(text[h]) :
                                  k = EndOf(text, h - 1) + i => Waits(file, k) = Left(text[h], i)}
<1>0. text \in Seq(Pieces) /\ c \in Nat /\ \A h \in 1 .. c : text[h] \in Characters
  BY DEF Pieces
<1>1. /\ file \in Seq(Byte) /\ n \in Nat
      /\ EndOf(text, 0) = 0
      /\ \A k \in 0 .. c : EndOf(text, k) \in Nat /\ EndOf(text, k) <= n
      /\ \A k \in 1 .. c : EndOf(text, k) = EndOf(text, k - 1) + Len(text[k])
      /\ \A h \in 1 .. c : \A i \in 1 .. Len(text[h]) : file[EndOf(text, h - 1) + i] = text[h][i]
  <2>1. text \in Seq(Pieces)
    BY <1>0
  <2>2. file \in Seq(Byte) /\ n \in Nat
    BY <2>1, WherePieces
  <2>3. \A k \in 0 .. c : EndOf(text, k) \in Nat /\ EndOf(text, k) <= n
    BY <2>1, WherePieces
  <2>4. \A h \in 1 .. c : \A i \in 1 .. Len(text[h]) : file[EndOf(text, h - 1) + i] = text[h][i]
    BY <2>1, WherePieces
  <2>5. EndOf(text, 0) = 0 /\ \A k \in 1 .. c : EndOf(text, k) = EndOf(text, k - 1) + Len(text[k])
    BY <2>1, WherePieces
  <2> HIDE DEF file, n, c
  <2> QED
    BY <2>2, <2>3, <2>4, <2>5
<1>2. \A h \in 1 .. c : Len(text[h]) \in Nat /\ Len(text[h]) >= 1
  BY <1>0, CharacterIs
<1>3. /\ Waits(file, 0) = 0
      /\ \A k \in 1 .. n : Waits(file, k) = Await(Waits(file, k - 1), file[k])
  BY <1>1, NextByte
<1> HIDE DEF file, n, c
<1>4. 0 \in T
  <2>1. \A h \in 1 .. c : EndOf(text, h - 1) \in Nat
    BY <1>0, <1>1
  <2>2. \A h \in 1 .. c : \A i \in 1 .. Len(text[h]) : EndOf(text, h - 1) + i # 0
    BY <1>2, <2>1
  <2> QED
    BY <1>1, <2>2
<1>5. ASSUME NEW k \in 1 .. n, k - 1 \in T PROVE k \in T
  <2> SUFFICES ASSUME NEW h \in 1 .. c, NEW i \in 1 .. Len(text[h]), k = EndOf(text, h - 1) + i
               PROVE  Waits(file, k) = Left(text[h], i)
    BY <1>1
  <2>1. EndOf(text, h - 1) \in Nat /\ h - 1 \in 0 .. c
    BY <1>0, <1>1
  <2>2. file[k] = text[h][i]
    BY <1>1
  <2>3. Waits(file, k) = Await(Waits(file, k - 1), text[h][i])
    BY <1>3, <2>2
  <2>4. Await(IF i = 1 THEN 0 ELSE Left(text[h], i - 1), text[h][i]) = Left(text[h], i)
    BY <1>0, ByteTaken
  <2>5. CASE i = 1 /\ h = 1
    <3>1. k - 1 = 0
      BY <1>1, <2>5
    <3>2. Waits(file, k - 1) = 0
      BY <1>3, <3>1
    <3> QED
      BY <2>3, <2>4, <2>5, <3>2
  <2>6. CASE i = 1 /\ h > 1
    <3> DEFINE g == h - 1
               l == Len(text[g])
    <3>1. g \in 1 .. c /\ l \in 1 .. Len(text[g])
      BY <1>0, <1>2, <2>6
    <3>2. k - 1 = EndOf(text, g - 1) + l
      <4>1. EndOf(text, g) = EndOf(text, g - 1) + l
        BY <1>1, <3>1
      <4>2. k - 1 = EndOf(text, g)
        BY <2>1, <2>6
      <4> QED
        BY <4>1, <4>2
    <3>3. Left(text[g], l) = 0
      BY <1>0, <3>1, ByteTaken
    <3> HIDE DEF g, l
    <3>4. Waits(file, k - 1) = 0
      BY <1>5, <3>1, <3>2, <3>3
    <3> QED
      BY <2>3, <2>4, <2>6, <3>4
  <2>7. CASE i > 1
    <3>1. i - 1 \in 1 .. Len(text[h]) /\ k - 1 = EndOf(text, h - 1) + (i - 1)
      BY <1>2, <2>1, <2>7
    <3>2. Waits(file, k - 1) = Left(text[h], i - 1)
      BY <1>5, <3>1
    <3> QED
      BY <2>3, <2>4, <2>7, <3>2
  <2> QED
    BY <1>2, <2>5, <2>6, <2>7
<1> HIDE DEF T
<1>6. \A k \in 0 .. n : k \in T
  BY <1>1, <1>4, <1>5, Decoder!UpTo
<1>7. EndOf(text, m - 1) + j \in 0 .. n
  <2>1. m \in 1 .. c /\ m - 1 \in 0 .. c /\ m \in 0 .. c
    BY <1>0 DEF c
  <2>2. EndOf(text, m - 1) + Len(text[m]) <= n /\ EndOf(text, m - 1) \in Nat
    BY <1>1, <2>1
  <2> QED
    BY <1>1, <1>2, <2>1, <2>2
<1>8. EndOf(text, m - 1) + j \in T
  BY <1>6, <1>7
<1> QED
  BY <1>8 DEF T, file, c

\* A text decodes up to where one of its characters ends.
LEMMA DecodesToEnds ==
  ASSUME NEW text \in Seq(Characters), NEW k \in 0 .. Len(text)
  PROVE  Decodes(SubSeq(FileOf(text), 1, EndOf(text, k)))
<1> DEFINE file == FileOf(text)
           e == EndOf(text, k)
           part == SubSeq(file, 1, e)
<1>1. text \in Seq(Pieces)
  BY DEF Pieces
<1>2. /\ file \in Seq(Byte) /\ e \in Nat /\ e <= Len(file) /\ EndOf(text, 0) = 0
      /\ \A i \in 1 .. Len(text) : EndOf(text, i) = EndOf(text, i - 1) + Len(text[i])
  BY <1>1, WherePieces
<1>3. Waits(file, e) = 0
  <2>1. CASE k = 0
    BY <1>2, <2>1, NextByte
  <2>2. CASE k # 0
    <3> DEFINE l == Len(text[k])
    <3>1. k \in 1 .. Len(text) /\ text[k] \in Characters
      BY <2>2
    <3>2. l \in 1 .. Len(text[k]) /\ e = EndOf(text, k - 1) + l
      BY <1>2, <3>1, CharacterIs
    <3>3. Left(text[k], l) = 0
      BY <3>1, <3>2, ByteTaken
    <3> HIDE DEF e, l
    <3>4. Waits(file, EndOf(text, k - 1) + l) = Left(text[k], l)
      BY <3>1, <3>2, WaitsForRest
    <3> QED
      BY <3>2, <3>3, <3>4
  <2> QED
    BY <2>1, <2>2
<1> HIDE DEF file, e
<1>4. part \in Seq(Byte) /\ Len(part) = e
  BY <1>2
<1>5. SubSeq(part, 1, e) = part
  <2> HIDE DEF part
  <2> QED
    BY <1>4
<1>6. Waits(part, e) = Waits(file, e)
  BY <1>5 DEF Waits, part
<1> HIDE DEF part
<1>7. Decodes(part)
  BY <1>3, <1>4, <1>6, NextByte
<1> QED
  BY <1>7 DEF part, file, e

\* What decodes has no byte that is in no text.
LEMMA DecodedIsText ==
  ASSUME NEW bytes \in Seq(Byte), Decodes(bytes)
  PROVE  \A i \in 1 .. Len(bytes) : bytes[i] \notin Invalid
<1> DEFINE n == Len(bytes)
           T == {k \in 0 .. n : /\ Waits(bytes, k) \in Int
                                /\ Waits(bytes, k) >= 0 => \A i \in 1 .. k : bytes[i] \notin Invalid}
<1>1. /\ n \in Nat /\ Waits(bytes, 0) = 0 /\ Waits(bytes, n) = 0
      /\ \A k \in 1 .. n : Waits(bytes, k) = Await(Waits(bytes, k - 1), bytes[k])
  BY NextByte
<1>2. 0 \in T
  BY <1>1
<1>3. ASSUME NEW k \in 1 .. n, k - 1 \in T PROVE k \in T
  <2> DEFINE w == Waits(bytes, k - 1)
             b == bytes[k]
  <2>1. w \in Int /\ (w >= 0 => \A i \in 1 .. k - 1 : bytes[i] \notin Invalid)
    BY <1>3
  <2>2. Waits(bytes, k) = Await(w, b)
    BY <1>1
  <2> HIDE DEF w, b
  <2>3. Await(w, b) \in Int /\ (Await(w, b) >= 0 => w >= 0 /\ b \notin Invalid)
    <3>1. \A l \in Leads : Wait(l) \in Nat /\ l \notin Single /\ l \notin Invalid
      BY DEF Wait, Leads, Single, Invalid
    <3>2. (\A s \in Single : s \notin Invalid) /\ \A f \in Follows : f \notin Invalid
      BY DEF Single, Follows, Invalid
    <3>3. CASE w = 0 /\ b \in Single
      <4>1. Await(w, b) = 0
        BY <3>1, <3>3 DEF Await
      <4> QED
        BY <3>2, <3>3, <4>1
    <3>4. CASE w = 0 /\ b \in Leads
      <4>1. Await(w, b) = Wait(b)
        BY <3>1, <3>4 DEF Await
      <4> QED
        BY <3>1, <3>4, <4>1
    <3>5. CASE w > 0 /\ b \in Follows
      <4>1. Await(w, b) = w - 1
        BY <2>1, <3>5 DEF Await
      <4> QED
        BY <2>1, <3>2, <3>5, <4>1
    <3>6. CASE ~(w = 0 /\ b \in Single) /\ ~(w = 0 /\ b \in Leads) /\ ~(w > 0 /\ b \in Follows)
      <4>1. Await(w, b) = -1
        BY <3>6 DEF Await
      <4> QED
        BY <4>1
    <3> QED
      BY <3>3, <3>4, <3>5, <3>6
  <2>4. Waits(bytes, k) >= 0 => \A i \in 1 .. k : bytes[i] \notin Invalid
    BY <2>1, <2>2, <2>3 DEF b
  <2> QED
    BY <2>2, <2>3, <2>4
<1> HIDE DEF T, n
<1>4. \A k \in 0 .. n : k \in T
  BY <1>1, <1>2, <1>3, Decoder!UpTo
<1>5. n \in T
  BY <1>1, <1>4
<1> QED
  BY <1>1, <1>5 DEF T, n

\* A set is larger than one that is mapped into it if something in it is left out.
LEMMA MoreThanMapped ==
  ASSUME NEW P, NEW L, IsFiniteSet(L), NEW f \in Injection(P, L)
  PROVE  Cardinality(L) > Cardinality(P) <=> \E x \in L : \A i \in P : f[i] # x
<1>1. /\ IsFiniteSet(P) /\ Cardinality(P) <= Cardinality(L)
      /\ Cardinality(P) = Cardinality(L) <=> f \in Surjection(P, L)
  BY FS_Injection
<1>2. Cardinality(P) \in Nat /\ Cardinality(L) \in Nat
  BY <1>1, FS_CardinalityType
<1>3. f \in [P -> L]
  BY DEF Injection
<1>4. f \in Surjection(P, L) <=> \A x \in L : \E i \in P : f[i] = x
  BY <1>3 DEF Surjection
<1> QED
  BY <1>1, <1>2, <1>4

\* Where a pair that ends a line is, and a half of one without the other.
PairAt(head, k) == k \in 1 .. Len(head) - 1 /\ head[k] = "CR" /\ head[k + 1] = "LF"
LoneLF(head, k) == k \in 1 .. Len(head) /\ head[k] = "LF" /\ ~PairAt(head, k - 1)
LoneCR(head, k) == k \in 1 .. Len(head) /\ head[k] = "CR" /\ ~PairAt(head, k)

\* What is counted twice less the pairs is what is alone.
LEMMA LineEndsCounted ==
  ASSUME NEW head \in Seq(Byte)
  PROVE  DetectEol(head) = (IF \E k \in Nat : LoneLF(head, k) THEN {"LF"} ELSE {})
                           \cup (IF \E k \in Nat : PairAt(head, k) THEN {"CRLF"} ELSE {})
                           \cup (IF \E k \in Nat : LoneCR(head, k) THEN {"CR"} ELSE {})
<1> DEFINE n == Len(head)
           P == {i \in 1 .. n - 1 : head[i] = "CR" /\ head[i + 1] = "LF"}
           At(b) == {i \in DOMAIN head : head[i] = b}
           next == [i \in P |-> i + 1]
           here == [i \in P |-> i]
<1>1. n \in Nat /\ DOMAIN head = 1 .. n
  OBVIOUS
<1>2. IsFiniteSet(P) /\ \A b : IsFiniteSet(At(b))
  <2>1. IsFiniteSet(1 .. n)
    BY <1>1, FS_Interval
  <2>2. P \in SUBSET (1 .. n) /\ \A b : At(b) \in SUBSET (1 .. n)
    BY <1>1
  <2> HIDE DEF P, At, n
  <2> QED
    BY <2>1, <2>2, FS_Subset
<1>3. \A k : k \in P <=> PairAt(head, k)
  BY DEF PairAt
<1>4. P \subseteq Nat
  BY <1>1
<1>5. next \in Injection(P, At("LF")) /\ here \in Injection(P, At("CR"))
  <2>1. next \in [P -> At("LF")] /\ here \in [P -> At("CR")]
    BY <1>1
  <2>2. \A i, j \in P : next[i] = next[j] => i = j
    BY <1>4
  <2>3. \A i, j \in P : here[i] = here[j] => i = j
    OBVIOUS
  <2> HIDE DEF next, here, P, At
  <2> QED
    BY <2>1, <2>2, <2>3 DEF Injection, IsInjective
<1>6. Cardinality(At("LF")) > Cardinality(P) <=> \E k \in Nat : LoneLF(head, k)
  <2>1. Cardinality(At("LF")) > Cardinality(P) <=> \E x \in At("LF") : \A i \in P : next[i] # x
    <3> HIDE DEF next, P, At
    <3> QED
      BY <1>2, <1>5, MoreThanMapped
  <2>2. \A x \in Nat : (\A i \in P : next[i] # x) <=> ~PairAt(head, x - 1)
    <3>1. \A i \in P : next[i] = i + 1
      OBVIOUS
    <3> HIDE DEF next, P
    <3> QED
      BY <1>3, <1>4, <3>1
  <2>3. \A x \in Nat : x \in At("LF") <=> x \in 1 .. n /\ head[x] = "LF"
    BY <1>1
  <2>4. At("LF") \subseteq Nat
    BY <1>1
  <2> HIDE DEF next, P, At
  <2> QED
    BY <2>1, <2>2, <2>3, <2>4 DEF LoneLF
<1>7. Cardinality(At("CR")) > Cardinality(P) <=> \E k \in Nat : LoneCR(head, k)
  <2>1. Cardinality(At("CR")) > Cardinality(P) <=> \E x \in At("CR") : \A i \in P : here[i] # x
    <3> HIDE DEF here, P, At
    <3> QED
      BY <1>2, <1>5, MoreThanMapped
  <2>2. \A x \in Nat : (\A i \in P : here[i] # x) <=> ~PairAt(head, x)
    <3>1. \A i \in P : here[i] = i
      OBVIOUS
    <3> HIDE DEF here, P
    <3> QED
      BY <1>3, <1>4, <3>1
  <2>3. \A x \in Nat : x \in At("CR") <=> x \in 1 .. n /\ head[x] = "CR"
    BY <1>1
  <2>4. At("CR") \subseteq Nat
    BY <1>1
  <2> HIDE DEF here, P, At
  <2> QED
    BY <2>1, <2>2, <2>3, <2>4 DEF LoneCR
<1>8. Cardinality(P) > 0 <=> \E k \in Nat : PairAt(head, k)
  <2>1. Cardinality(P) \in Nat /\ (Cardinality(P) = 0 <=> P = {})
    <3> HIDE DEF P
    <3> QED
      BY <1>2, FS_CardinalityType, FS_EmptySet
  <2> HIDE DEF P
  <2> QED
    BY <1>3, <1>4, <2>1
<1>9. DetectEol(head) = (IF Cardinality(At("LF")) > Cardinality(P) THEN {"LF"} ELSE {})
                        \cup (IF Cardinality(P) > 0 THEN {"CRLF"} ELSE {})
                        \cup (IF Cardinality(At("CR")) > Cardinality(P) THEN {"CR"} ELSE {})
  BY DEF DetectEol, Count
<1> HIDE DEF P, At
<1> QED
  BY <1>6, <1>7, <1>8, <1>9

\* A file that is cut into pieces as far as it can be.
CutUp(text) ==
  /\ text \in Seq(Pieces)
  /\ \A i \in 1 .. Len(text) - 1 : text[i] # <<"CR">> \/ text[i + 1] # <<"LF">>

\* The pieces that are the end of a line, and where.
LEMMA EndPieces ==
  ASSUME NEW text, CutUp(text)
  PROVE  /\ \A m \in 1 .. Len(text) :
              /\ text[m] \in {<<"LF">>, <<"CR">>} => EndOf(text, m) = EndOf(text, m - 1) + 1
              /\ text[m] = <<"CR", "LF">> => EndOf(text, m) = EndOf(text, m - 1) + 2
              /\ text[m] = <<"LF">> => FileOf(text)[EndOf(text, m)] = "LF"
              /\ text[m] = <<"CR">> => FileOf(text)[EndOf(text, m)] = "CR"
              /\ text[m] = <<"CR", "LF">> => PairAt(FileOf(text), EndOf(text, m) - 1)
         /\ \A k \in 1 .. Len(FileOf(text)) : FileOf(text)[k] = "LF" =>
              \E m \in 1 .. Len(text) : text[m] \in {<<"LF">>, <<"CR", "LF">>} /\ EndOf(text, m) = k
         /\ \A k \in 1 .. Len(FileOf(text)) : FileOf(text)[k] = "CR" =>
              \E m \in 1 .. Len(text) : \/ text[m] = <<"CR">> /\ EndOf(text, m) = k
                                        \/ text[m] = <<"CR", "LF">> /\ EndOf(text, m) = k + 1
<1> DEFINE file == FileOf(text)
           c == Len(text)
           lf == <<"LF">>
           cr == <<"CR">>
           crlf == <<"CR", "LF">>
<1>0. text \in Seq(Pieces) /\ c \in Nat /\ \A m \in 1 .. c : text[m] \in Pieces
  BY DEF CutUp
<1>1. /\ file \in Seq(Byte)
      /\ \A k \in 0 .. c : EndOf(text, k) \in Nat /\ EndOf(text, k) <= Len(file)
      /\ \A k \in 1 .. c : EndOf(text, k) = EndOf(text, k - 1) + Len(text[k])
      /\ \A m \in 1 .. c : \A j \in 1 .. Len(text[m]) : file[EndOf(text, m - 1) + j] = text[m][j]
      /\ \A i \in 1 .. Len(file) : \E m \in 1 .. c : \E j \in 1 .. Len(text[m]) : i = EndOf(text, m - 1) + j
  BY <1>0, WherePieces
<1>2. /\ Len(lf) = 1 /\ lf[1] = "LF" /\ Len(cr) = 1 /\ cr[1] = "CR"
      /\ Len(crlf) = 2 /\ crlf[1] = "CR" /\ crlf[2] = "LF"
  OBVIOUS
<1>3. \A m \in 1 .. c : \A j \in 1 .. Len(text[m]) :
        /\ text[m][j] = "LF" => text[m] = lf \/ (text[m] = crlf /\ j = 2)
        /\ text[m][j] = "CR" => text[m] = cr \/ (text[m] = crlf /\ j = 1)
  BY <1>0, PieceIs
<1> HIDE DEF file, c, lf, cr, crlf
<1>4. \A m \in 1 .. c : m - 1 \in 0 .. c /\ m \in 0 .. c
  BY <1>0
<1>5. ASSUME NEW m \in 1 .. c
      PROVE  /\ text[m] \in {lf, cr} => EndOf(text, m) = EndOf(text, m - 1) + 1
             /\ text[m] = crlf => EndOf(text, m) = EndOf(text, m - 1) + 2
             /\ text[m] = lf => file[EndOf(text, m)] = "LF"
             /\ text[m] = cr => file[EndOf(text, m)] = "CR"
             /\ text[m] = crlf => PairAt(file, EndOf(text, m) - 1)
  <2> DEFINE d == EndOf(text, m - 1)
             e == EndOf(text, m)
  <2>1. d \in Nat /\ e \in Nat /\ e <= Len(file) /\ e = d + Len(text[m])
    BY <1>1, <1>4
  <2>2. \A j \in 1 .. Len(text[m]) : file[d + j] = text[m][j]
    BY <1>1
  <2>3. Len(file) \in Nat
    BY <1>1
  <2> HIDE DEF d, e
  <2>4. text[m] = lf => e = d + 1 /\ file[d + 1] = "LF"
    <3> SUFFICES ASSUME text[m] = lf PROVE e = d + 1 /\ file[d + 1] = "LF"
      OBVIOUS
    <3>1. Len(text[m]) = 1 /\ text[m][1] = "LF"
      BY <1>2
    <3> QED
      BY <2>1, <2>2, <3>1
  <2>5. text[m] = cr => e = d + 1 /\ file[d + 1] = "CR"
    <3> SUFFICES ASSUME text[m] = cr PROVE e = d + 1 /\ file[d + 1] = "CR"
      OBVIOUS
    <3>1. Len(text[m]) = 1 /\ text[m][1] = "CR"
      BY <1>2
    <3> QED
      BY <2>1, <2>2, <3>1
  <2>6. text[m] = crlf => e = d + 2 /\ file[d + 1] = "CR" /\ file[d + 2] = "LF"
    <3> SUFFICES ASSUME text[m] = crlf PROVE e = d + 2 /\ file[d + 1] = "CR" /\ file[d + 2] = "LF"
      OBVIOUS
    <3>1. Len(text[m]) = 2 /\ text[m][1] = "CR" /\ text[m][2] = "LF"
      BY <1>2
    <3> QED
      BY <2>1, <2>2, <3>1
  <2>7. text[m] = crlf => PairAt(file, e - 1)
    <3>1. e = d + 2 => e - 1 = d + 1 /\ (d + 1) + 1 = d + 2 /\ d + 1 \in 1 .. Len(file) - 1
      BY <2>1, <2>3
    <3> QED
      BY <2>6, <3>1 DEF PairAt
  <2> QED
    BY <2>4, <2>5, <2>6, <2>7 DEF d, e
<1>6. ASSUME NEW k \in 1 .. Len(file), file[k] = "LF"
      PROVE  \E m \in 1 .. c : text[m] \in {lf, crlf} /\ EndOf(text, m) = k
  <2>1. PICK m \in 1 .. c : \E j \in 1 .. Len(text[m]) : k = EndOf(text, m - 1) + j
    BY <1>1
  <2>2. PICK j \in 1 .. Len(text[m]) : k = EndOf(text, m - 1) + j
    BY <2>1
  <2>3. text[m][j] = "LF"
    BY <1>1, <1>6, <2>2
  <2>4. CASE text[m] = lf
    <3>1. j = 1
      <4>1. Len(text[m]) = 1
        BY <1>2, <2>4
      <4> QED
        BY <4>1
    <3> QED
      BY <1>5, <2>2, <2>4, <3>1
  <2>5. CASE text[m] = crlf /\ j = 2
    BY <1>5, <2>2, <2>5
  <2> QED
    BY <1>3, <2>3, <2>4, <2>5
<1>7. ASSUME NEW k \in 1 .. Len(file), file[k] = "CR"
      PROVE  \E m \in 1 .. c : \/ text[m] = cr /\ EndOf(text, m) = k
                               \/ text[m] = crlf /\ EndOf(text, m) = k + 1
  <2>1. PICK m \in 1 .. c : \E j \in 1 .. Len(text[m]) : k = EndOf(text, m - 1) + j
    BY <1>1
  <2>2. PICK j \in 1 .. Len(text[m]) : k = EndOf(text, m - 1) + j
    BY <2>1
  <2>3. text[m][j] = "CR"
    BY <1>1, <1>7, <2>2
  <2>4. CASE text[m] = cr
    <3>1. j = 1
      <4>1. Len(text[m]) = 1
        BY <1>2, <2>4
      <4> QED
        BY <4>1
    <3> QED
      BY <1>5, <2>2, <2>4, <3>1
  <2>5. CASE text[m] = crlf /\ j = 1
    <3>1. EndOf(text, m - 1) \in Nat
      BY <1>1, <1>4
    <3> QED
      BY <1>5, <2>2, <2>5, <3>1
  <2> QED
    BY <1>3, <2>3, <2>4, <2>5
<1> QED
  BY <1>5, <1>6, <1>7 DEF file, c, lf, cr, crlf

\* A pair of bytes that ends a line is one piece, and the other line ends are pieces.
LEMMA PairsArePieces ==
  ASSUME NEW text, CutUp(text)
  PROVE  /\ \A k : PairAt(FileOf(text), k) => \E m \in 1 .. Len(text) : text[m] = <<"CR", "LF">> /\ EndOf(text, m) = k + 1
         /\ \A m \in 1 .. Len(text) : text[m] = <<"LF">> => ~PairAt(FileOf(text), EndOf(text, m) - 1)
         /\ \A m \in 1 .. Len(text) : text[m] = <<"CR">> => ~PairAt(FileOf(text), EndOf(text, m))
<1> DEFINE file == FileOf(text)
           c == Len(text)
           lf == <<"LF">>
           cr == <<"CR">>
           crlf == <<"CR", "LF">>
<1>1. /\ c \in Nat /\ \A k \in 0 .. c : EndOf(text, k) \in Nat
      /\ \A k, m \in 0 .. c : k < m => EndOf(text, k) < EndOf(text, m)
      /\ Len(file) \in Nat
  <2>1. text \in Seq(Pieces)
    BY DEF CutUp
  <2>2. file \in Seq(Byte) /\ c \in Nat
    BY <2>1, WherePieces
  <2> QED
    BY <2>1, <2>2, WherePieces
<1>2. lf # crlf /\ cr # crlf /\ lf # cr
  <2>1. Len(lf) = 1 /\ lf[1] = "LF" /\ Len(cr) = 1 /\ cr[1] = "CR" /\ Len(crlf) = 2
    OBVIOUS
  <2> HIDE DEF lf, cr, crlf
  <2> QED
    BY <2>1
<1>3. \A i \in 1 .. c - 1 : text[i] # cr \/ text[i + 1] # lf
  BY DEF CutUp
<1>4. \A m \in 1 .. c : /\ text[m] \in {lf, cr} => EndOf(text, m) = EndOf(text, m - 1) + 1
                        /\ text[m] = crlf => EndOf(text, m) = EndOf(text, m - 1) + 2
  BY EndPieces
<1>5. \A k \in 1 .. Len(file) : file[k] = "LF" =>
        \E m \in 1 .. c : text[m] \in {lf, crlf} /\ EndOf(text, m) = k
  BY EndPieces
<1>6. \A k \in 1 .. Len(file) : file[k] = "CR" =>
        \E m \in 1 .. c : (text[m] = cr /\ EndOf(text, m) = k) \/ (text[m] = crlf /\ EndOf(text, m) = k + 1)
  BY EndPieces
<1> HIDE DEF file, c, lf, cr, crlf
<1>7. \A k, m \in 0 .. c : /\ EndOf(text, k) = EndOf(text, m) => k = m
                           /\ EndOf(text, k) < EndOf(text, m) => k < m
  BY <1>1
<1>8. \A m \in 1 .. c : m \in 0 .. c /\ m - 1 \in 0 .. c
  BY <1>1
<1>9. \A m, h \in 1 .. c : text[h] = crlf => EndOf(text, m) # EndOf(text, h) - 1
  <2> SUFFICES ASSUME NEW m \in 1 .. c, NEW h \in 1 .. c, text[h] = crlf, EndOf(text, m) = EndOf(text, h) - 1
               PROVE  FALSE
    OBVIOUS
  <2>1. EndOf(text, h) = EndOf(text, h - 1) + 2 /\ EndOf(text, h - 1) \in Nat /\ EndOf(text, h) \in Nat
    BY <1>1, <1>4, <1>8
  <2>2. EndOf(text, h - 1) < EndOf(text, m) /\ EndOf(text, m) < EndOf(text, h)
    BY <2>1
  <2>3. h - 1 < m /\ m < h
    BY <1>7, <1>8, <2>2
  <2> QED
    BY <2>3
<1>10. ASSUME NEW k, PairAt(file, k)
       PROVE  \E m \in 1 .. c : text[m] = crlf /\ EndOf(text, m) = k + 1
  <2>1. k \in Nat /\ k \in 1 .. Len(file) /\ k + 1 \in 1 .. Len(file) /\ file[k] = "CR" /\ file[k + 1] = "LF"
    BY <1>1, <1>10 DEF PairAt
  <2>2. PICK m \in 1 .. c : (text[m] = cr /\ EndOf(text, m) = k) \/ (text[m] = crlf /\ EndOf(text, m) = k + 1)
    BY <1>6, <2>1
  <2>3. PICK h \in 1 .. c : text[h] \in {lf, crlf} /\ EndOf(text, h) = k + 1
    BY <1>5, <2>1
  <2>4. ASSUME text[m] = cr, EndOf(text, m) = k, text[h] = lf PROVE FALSE
    <3>1. EndOf(text, h) = EndOf(text, h - 1) + 1 /\ EndOf(text, h - 1) \in Nat
      BY <1>1, <1>4, <1>8, <2>4
    <3>2. EndOf(text, m) = EndOf(text, h - 1)
      BY <2>1, <2>3, <2>4, <3>1
    <3>3. m = h - 1
      BY <1>7, <1>8, <3>2
    <3>4. m \in 1 .. c - 1 /\ m + 1 = h
      BY <1>1, <3>3
    <3> QED
      BY <1>3, <2>4, <3>4
  <2>5. ASSUME EndOf(text, m) = k, text[h] = crlf PROVE FALSE
    BY <1>9, <2>1, <2>3, <2>5
  <2> QED
    BY <2>2, <2>3, <2>4, <2>5
<1>11. ASSUME NEW m \in 1 .. c, text[m] = lf, PairAt(file, EndOf(text, m) - 1) PROVE FALSE
  <2>1. PICK h \in 1 .. c : text[h] = crlf /\ EndOf(text, h) = EndOf(text, m) - 1 + 1
    BY <1>10, <1>11
  <2>2. EndOf(text, h) = EndOf(text, m)
    BY <1>1, <1>8, <2>1
  <2>3. h = m
    BY <1>7, <1>8, <2>2
  <2> QED
    BY <1>2, <1>11, <2>1, <2>3
<1>12. ASSUME NEW m \in 1 .. c, text[m] = cr, PairAt(file, EndOf(text, m)) PROVE FALSE
  <2>1. PICK h \in 1 .. c : text[h] = crlf /\ EndOf(text, h) = EndOf(text, m) + 1
    BY <1>10, <1>12
  <2>2. EndOf(text, m) = EndOf(text, h) - 1
    BY <1>1, <1>8, <2>1
  <2> QED
    BY <1>9, <2>1, <2>2
<1> QED
  BY <1>10, <1>11, <1>12 DEF file, c, lf, cr, crlf

\* What a sample of n bytes has is what the file has there.
LEMMA InSample ==
  ASSUME NEW file \in Seq(Byte), NEW n \in 0 .. Len(file)
  PROVE  /\ SubSeq(file, 1, n) \in Seq(Byte) /\ Len(SubSeq(file, 1, n)) = n
         /\ \A k \in 1 .. n : SubSeq(file, 1, n)[k] = file[k]
         /\ \A k : PairAt(SubSeq(file, 1, n), k) <=> PairAt(file, k) /\ k < n
<1> DEFINE head == SubSeq(file, 1, n)
<1>1. head \in Seq(Byte) /\ Len(head) = n /\ \A k \in 1 .. n : head[k] = file[k]
  BY PrefixOf
<1>2. Len(file) \in Nat /\ n \in Nat /\ n <= Len(file)
  OBVIOUS
<1> HIDE DEF head
<1>3. ASSUME NEW k PROVE PairAt(head, k) <=> PairAt(file, k) /\ k < n
  <2>1. CASE k \in 1 .. n - 1
    <3>1. k \in 1 .. n /\ k + 1 \in 1 .. n /\ k < n /\ k \in 1 .. Len(file) - 1
      BY <1>2, <2>1
    <3> QED
      BY <1>1, <2>1, <3>1 DEF PairAt
  <2>2. CASE k \notin 1 .. n - 1
    BY <1>1, <1>2, <2>2 DEF PairAt
  <2> QED
    BY <2>1, <2>2
<1> QED
  BY <1>1, <1>3 DEF head

\* The line ends in a sample are the pieces in it, and the half of a pair.
LEMMA EndsInSample ==
  ASSUME NEW text, CutUp(text), NEW n \in 0 .. Len(FileOf(text)),
         NEW head, head = SubSeq(FileOf(text), 1, n)
  PROVE  /\ (\E k \in Nat : LoneLF(head, k)) <=> \E m \in 1 .. Len(text) : EndOf(text, m) <= n /\ text[m] = <<"LF">>
         /\ (\E k \in Nat : PairAt(head, k)) <=> \E m \in 1 .. Len(text) : EndOf(text, m) <= n /\ text[m] = <<"CR", "LF">>
         /\ (\E k \in Nat : LoneCR(head, k)) <=>
              \/ \E m \in 1 .. Len(text) : EndOf(text, m) <= n /\ text[m] = <<"CR">>
              \/ n < Len(FileOf(text)) /\ n > 0 /\ head[n] = "CR" /\ \A m \in 0 .. Len(text) : EndOf(text, m) # n
<1> DEFINE file == FileOf(text)
           c == Len(text)
           lf == <<"LF">>
           cr == <<"CR">>
           crlf == <<"CR", "LF">>
<1>1. /\ c \in Nat /\ n \in Nat /\ n <= Len(file) /\ Len(file) \in Nat /\ file \in Seq(Byte)
      /\ \A k \in 0 .. c : EndOf(text, k) \in Nat /\ EndOf(text, k) <= Len(file)
      /\ \A k, m \in 0 .. c : k < m => EndOf(text, k) < EndOf(text, m)
  <2>1. text \in Seq(Pieces)
    BY DEF CutUp
  <2>2. file \in Seq(Byte) /\ c \in Nat
    BY <2>1, WherePieces
  <2> QED
    BY <2>1, <2>2, WherePieces
<1>2. /\ head \in Seq(Byte) /\ Len(head) = n /\ \A k \in 1 .. n : head[k] = file[k]
      /\ \A k : PairAt(head, k) <=> PairAt(file, k) /\ k < n
  BY <1>1, InSample
<1>3. \A m \in 1 .. c :
        /\ text[m] \in {lf, cr} => EndOf(text, m) = EndOf(text, m - 1) + 1
        /\ text[m] = crlf => EndOf(text, m) = EndOf(text, m - 1) + 2
        /\ text[m] = lf => file[EndOf(text, m)] = "LF"
        /\ text[m] = cr => file[EndOf(text, m)] = "CR"
        /\ text[m] = crlf => PairAt(file, EndOf(text, m) - 1)
  BY EndPieces
<1>4. \A k \in 1 .. Len(file) : file[k] = "LF" => \E m \in 1 .. c : text[m] \in {lf, crlf} /\ EndOf(text, m) = k
  BY EndPieces
<1>5. \A k \in 1 .. Len(file) : file[k] = "CR" =>
        \E m \in 1 .. c : (text[m] = cr /\ EndOf(text, m) = k) \/ (text[m] = crlf /\ EndOf(text, m) = k + 1)
  BY EndPieces
<1>6. /\ \A k : PairAt(file, k) => \E m \in 1 .. c : text[m] = crlf /\ EndOf(text, m) = k + 1
      /\ \A m \in 1 .. c : text[m] = lf => ~PairAt(file, EndOf(text, m) - 1)
      /\ \A m \in 1 .. c : text[m] = cr => ~PairAt(file, EndOf(text, m))
  BY PairsArePieces
<1> HIDE DEF file, c, lf, cr, crlf
<1>7. \A m \in 1 .. c : m \in 0 .. c /\ m - 1 \in 0 .. c /\ EndOf(text, m) \in Nat /\ EndOf(text, m - 1) \in Nat
  BY <1>1
<1>8. ASSUME NEW k \in Nat, LoneLF(head, k)
      PROVE  \E m \in 1 .. c : EndOf(text, m) <= n /\ text[m] = lf
  <2>1. k \in 1 .. n /\ k \in 1 .. Len(file) /\ file[k] = "LF" /\ ~PairAt(file, k - 1)
    BY <1>1, <1>2, <1>8 DEF LoneLF
  <2>2. PICK m \in 1 .. c : text[m] \in {lf, crlf} /\ EndOf(text, m) = k
    BY <1>4, <2>1
  <2> QED
    BY <1>3, <2>1, <2>2
<1>9. ASSUME NEW m \in 1 .. c, EndOf(text, m) <= n, text[m] = lf
      PROVE  \E k \in Nat : LoneLF(head, k)
  <2> DEFINE k == EndOf(text, m)
  <2>1. k \in 1 .. n /\ file[k] = "LF" /\ ~PairAt(file, k - 1)
    BY <1>1, <1>3, <1>6, <1>7, <1>9
  <2> HIDE DEF k
  <2>2. LoneLF(head, k)
    BY <1>2, <2>1 DEF LoneLF
  <2> QED
    BY <2>1, <2>2
<1>10. ASSUME NEW k \in Nat, PairAt(head, k)
       PROVE  \E m \in 1 .. c : EndOf(text, m) <= n /\ text[m] = crlf
  <2>1. PICK m \in 1 .. c : text[m] = crlf /\ EndOf(text, m) = k + 1
    BY <1>2, <1>6, <1>10
  <2>2. k < n
    BY <1>2, <1>10
  <2> QED
    BY <1>1, <2>1, <2>2
<1>11. ASSUME NEW m \in 1 .. c, EndOf(text, m) <= n, text[m] = crlf
       PROVE  \E k \in Nat : PairAt(head, k)
  <2> DEFINE k == EndOf(text, m) - 1
  <2>1. k \in Nat /\ k < n /\ PairAt(file, k)
    BY <1>1, <1>3, <1>7, <1>11
  <2> QED
    BY <1>2, <2>1
<1>12. ASSUME NEW k \in Nat, LoneCR(head, k)
       PROVE  \/ \E m \in 1 .. c : EndOf(text, m) <= n /\ text[m] = cr
              \/ n < Len(file) /\ n > 0 /\ head[n] = "CR" /\ \A m \in 0 .. c : EndOf(text, m) # n
  <2>1. k \in 1 .. n /\ k \in 1 .. Len(file) /\ file[k] = "CR" /\ ~(PairAt(file, k) /\ k < n) /\ head[k] = "CR"
    BY <1>1, <1>2, <1>12 DEF LoneCR
  <2>2. PICK m \in 1 .. c : (text[m] = cr /\ EndOf(text, m) = k) \/ (text[m] = crlf /\ EndOf(text, m) = k + 1)
    BY <1>5, <2>1
  <2>3. CASE text[m] = cr /\ EndOf(text, m) = k
    BY <2>1, <2>3
  <2>4. CASE text[m] = crlf /\ EndOf(text, m) = k + 1
    <3>1. PairAt(file, k)
      <4>1. EndOf(text, m) - 1 = k
        BY <2>4
      <4> QED
        BY <1>3, <2>4, <4>1
    <3>2. k = n
      BY <1>1, <2>1, <3>1
    <3>3. n < Len(file)
      <4>1. EndOf(text, m) <= Len(file)
        BY <1>1, <1>7
      <4> QED
        BY <1>1, <2>4, <3>2, <4>1
    <3>4. ASSUME NEW h \in 0 .. c, EndOf(text, h) = n PROVE FALSE
      <4>1. EndOf(text, m) = EndOf(text, m - 1) + 2
        BY <1>3, <2>4
      <4>2. EndOf(text, m - 1) < EndOf(text, h) /\ EndOf(text, h) < EndOf(text, m)
        BY <1>1, <1>7, <2>4, <3>2, <3>4, <4>1
      <4>3. ~(m <= h) /\ ~(h <= m - 1)
        <5>1. ~(m < h) /\ m # h
          BY <1>1, <1>7, <4>2
        <5>2. ~(h < m - 1) /\ h # m - 1
          BY <1>1, <1>7, <4>2
        <5> QED
          BY <1>1, <5>1, <5>2
      <4> QED
        BY <1>1, <4>3
    <3> QED
      BY <2>1, <3>2, <3>3, <3>4
  <2> QED
    BY <2>2, <2>3, <2>4
<1>13. ASSUME NEW m \in 1 .. c, EndOf(text, m) <= n, text[m] = cr
       PROVE  \E k \in Nat : LoneCR(head, k)
  <2> DEFINE k == EndOf(text, m)
  <2>1. k \in 1 .. n /\ file[k] = "CR" /\ ~PairAt(file, k)
    BY <1>1, <1>3, <1>6, <1>7, <1>13
  <2> HIDE DEF k
  <2>2. LoneCR(head, k)
    BY <1>2, <2>1 DEF LoneCR
  <2> QED
    BY <2>1, <2>2
<1>14. ASSUME n > 0, head[n] = "CR" PROVE \E k \in Nat : LoneCR(head, k)
  <2>1. LoneCR(head, n)
    BY <1>1, <1>2, <1>14 DEF LoneCR
  <2> QED
    BY <1>1, <2>1
<1>15. (\E k \in Nat : LoneLF(head, k)) <=> \E m \in 1 .. c : EndOf(text, m) <= n /\ text[m] = lf
  BY <1>8, <1>9
<1>16. (\E k \in Nat : PairAt(head, k)) <=> \E m \in 1 .. c : EndOf(text, m) <= n /\ text[m] = crlf
  BY <1>10, <1>11
<1>17. (\E k \in Nat : LoneCR(head, k)) <=>
         \/ \E m \in 1 .. c : EndOf(text, m) <= n /\ text[m] = cr
         \/ n < Len(file) /\ n > 0 /\ head[n] = "CR" /\ \A m \in 0 .. c : EndOf(text, m) # n
  BY <1>12, <1>13, <1>14
<1> QED
  BY <1>15, <1>16, <1>17 DEF file, c, lf, cr, crlf

\* What TextTold says of a file.
ToldAs(text) ==
  LET file  == FileOf(text)
      head  == HeadOf(file)
      said  == SniffText(head).encoding
      End(n) == Len(FileOf(SubSeq(text, 1, n)))
      EndSet == {End(n) : n \in 0 .. Len(text)}
      Whole == {i \in DOMAIN text : End(i) <= Len(head)}
      Marks  == {m \in ToSet(ByteOrderMarks) : IsPrefix(m.bytes, head)}
  IN IF Marks # {}
     THEN \E m \in Marks : m.encoding = said /\ \A n \in Marks : Len(n.bytes) <= Len(m.bytes)
     ELSE /\ said # "utf-8" /\ head # <<>> =>
               \/ \E i \in DOMAIN text : text[i] \notin Characters
               \/ Contains(file, "nul") \/ Contains(file, "ctl")
               \/ Len(head) \notin EndSet /\ Len(head) - 4 \notin EndSet
          /\ said = "utf-8" => \A i \in 1 .. Len(head) - 4 : head[i] \notin Invalid
          /\ DetectEol(head) =
               (UNION {LineEnd(text[i]) : i \in Whole})
               \cup (IF Len(head) < Len(file) /\ head # <<>> /\ Last(head) = "CR"
                        /\ Len(head) \notin EndSet THEN {"CR"} ELSE {})

\* The marks that a sample begins with, by their place.
MarksOf(head) == {i \in 1 .. 5 : IsPrefix(ByteOrderMarks[i].bytes, head)}

\* The first of them is the longest.
LEMMA FirstMark ==
  ASSUME NEW head \in Seq(Byte)
  PROVE  /\ MarksOf(head) = {} => MarkOf(head) = 0
         /\ MarksOf(head) # {} =>
              /\ MarkOf(head) \in MarksOf(head) /\ head # <<>>
              /\ \A i \in MarksOf(head) :
                   Len(ByteOrderMarks[i].bytes) <= Len(ByteOrderMarks[MarkOf(head)].bytes)
         /\ {m \in ToSet(ByteOrderMarks) : IsPrefix(m.bytes, head)} = {ByteOrderMarks[i] : i \in MarksOf(head)}
<1> DEFINE I == MarksOf(head)
           size == [i \in 1 .. 5 |-> Len(ByteOrderMarks[i].bytes)]
           first == [i \in 1 .. 5 |-> ByteOrderMarks[i].bytes[1]]
<1>1. Len(ByteOrderMarks) = 5 /\ DOMAIN ByteOrderMarks = 1 .. 5
  BY DEF ByteOrderMarks
<1>2. /\ /\ \A i \in 1 .. 5 : size[i] \in Nat /\ size[i] >= 1 /\ size[i] <= 4
         /\ size[2] = 4
         /\ first[1] = "EF" /\ first[2] = "FF" /\ first[3] = "nul" /\ first[4] = "FF" /\ first[5] = "FE"
      /\ \A i \in 1 .. 5 : ByteOrderMarks[i].bytes \in Seq(Byte)
  <2>1. /\ ByteOrderMarks[1].bytes = <<"EF", "BB", "BF">>
        /\ ByteOrderMarks[2].bytes = <<"FF", "FE", "nul", "nul">>
        /\ ByteOrderMarks[3].bytes = <<"nul", "nul", "FE", "FF">>
        /\ ByteOrderMarks[4].bytes = <<"FF", "FE">>
        /\ ByteOrderMarks[5].bytes = <<"FE", "FF">>
    BY DEF ByteOrderMarks
  <2> DEFINE mark(i) == ByteOrderMarks[i].bytes
  <2>2. Len(mark(1)) = 3 /\ mark(1)[1] = "EF" /\ mark(1) \in Seq(Byte)
    <3> DEFINE m == <<"EF", "BB", "BF">>
    <3>1. Len(m) = 3 /\ m[1] = "EF" /\ m \in Seq(Byte)
      BY DEF Byte, Single, Leads, Follows, Invalid
    <3>2. mark(1) = m
      BY <2>1
    <3> HIDE DEF m, mark
    <3> QED
      BY <3>1, <3>2
  <2>3. Len(mark(2)) = 4 /\ mark(2)[1] = "FF" /\ mark(2) \in Seq(Byte)
    <3> DEFINE m == <<"FF", "FE", "nul", "nul">>
    <3>1. Len(m) = 4 /\ m[1] = "FF" /\ m \in Seq(Byte)
      BY DEF Byte, Single, Leads, Follows, Invalid
    <3>2. mark(2) = m
      BY <2>1
    <3> HIDE DEF m, mark
    <3> QED
      BY <3>1, <3>2
  <2>4. Len(mark(3)) = 4 /\ mark(3)[1] = "nul" /\ mark(3) \in Seq(Byte)
    <3> DEFINE m == <<"nul", "nul", "FE", "FF">>
    <3>1. Len(m) = 4 /\ m[1] = "nul" /\ m \in Seq(Byte)
      BY DEF Byte, Single, Leads, Follows, Invalid
    <3>2. mark(3) = m
      BY <2>1
    <3> HIDE DEF m, mark
    <3> QED
      BY <3>1, <3>2
  <2>5. Len(mark(4)) = 2 /\ mark(4)[1] = "FF" /\ mark(4) \in Seq(Byte)
    <3> DEFINE m == <<"FF", "FE">>
    <3>1. Len(m) = 2 /\ m[1] = "FF" /\ m \in Seq(Byte)
      BY DEF Byte, Single, Leads, Follows, Invalid
    <3>2. mark(4) = m
      BY <2>1
    <3> HIDE DEF m, mark
    <3> QED
      BY <3>1, <3>2
  <2>6. Len(mark(5)) = 2 /\ mark(5)[1] = "FE" /\ mark(5) \in Seq(Byte)
    <3> DEFINE m == <<"FE", "FF">>
    <3>1. Len(m) = 2 /\ m[1] = "FE" /\ m \in Seq(Byte)
      BY DEF Byte, Single, Leads, Follows, Invalid
    <3>2. mark(5) = m
      BY <2>1
    <3> HIDE DEF m, mark
    <3> QED
      BY <3>1, <3>2
  <2>7. \A i \in 1 .. 5 : size[i] = Len(mark(i)) /\ first[i] = mark(i)[1]
    OBVIOUS
  <2>8. \A i \in 1 .. 5 : i = 1 \/ i = 2 \/ i = 3 \/ i = 4 \/ i = 5
    OBVIOUS
  <2> HIDE DEF size, first, mark
  <2>9. /\ size[1] = 3 /\ size[2] = 4 /\ size[3] = 4 /\ size[4] = 2 /\ size[5] = 2
        /\ first[1] = "EF" /\ first[2] = "FF" /\ first[3] = "nul" /\ first[4] = "FF" /\ first[5] = "FE"
    <3>1. 1 \in 1 .. 5 /\ 2 \in 1 .. 5 /\ 3 \in 1 .. 5 /\ 4 \in 1 .. 5 /\ 5 \in 1 .. 5
      OBVIOUS
    <3> QED
      BY <2>2, <2>3, <2>4, <2>5, <2>6, <2>7, <3>1
  <2>10. \A i \in 1 .. 5 : mark(i) \in Seq(Byte)
    BY <2>2, <2>3, <2>4, <2>5, <2>6, <2>8
  <2>11. \A i \in 1 .. 5 : size[i] \in Nat /\ size[i] >= 1 /\ size[i] <= 4
    BY <2>8, <2>9
  <2> QED
    BY <2>9, <2>10, <2>11 DEF mark
<1>8. /\ \A i \in 1 .. 5 : size[i] \in Nat /\ size[i] >= 1 /\ size[i] <= 4
       /\ size[2] = 4
       /\ first[1] = "EF" /\ first[2] = "FF" /\ first[3] = "nul" /\ first[4] = "FF" /\ first[5] = "FE"
  BY <1>2, Zenon
<1>3. MarkOf(head) = IF I # {} THEN Min(I) ELSE 0
  BY <1>1 DEF MarkOf, SelectInSeq, MarksOf
<1>4. {m \in ToSet(ByteOrderMarks) : IsPrefix(m.bytes, head)} = {ByteOrderMarks[i] : i \in I}
  <2> DEFINE marks == ByteOrderMarks
  <2>1. ToSet(ByteOrderMarks) = {ByteOrderMarks[i] : i \in 1 .. 5}
    BY <1>1 DEF ToSet
  <2> QED
    BY <2>1 DEF MarksOf
<1>5. \A i \in I : i \in 1 .. 5 /\ Len(head) >= size[i] /\ head[1] = first[i]
  <2> TAKE i \in I
  <2> DEFINE b == ByteOrderMarks[i].bytes
  <2>1. i \in 1 .. 5 /\ IsPrefix(b, head)
    BY DEF MarksOf
  <2>2. b \in Seq(Byte)
    BY <1>2, <2>1
  <2>3. Len(b) = size[i] /\ b[1] = first[i]
    BY <2>1
  <2> HIDE DEF b
  <2>4. Len(b) <= Len(head) /\ SubSeq(b, 1, Len(b)) = SubSeq(head, 1, Len(b)) /\ Len(b) >= 1
    BY <1>8, <2>1, <2>3 DEF IsPrefix
  <2>5. b[1] = head[1]
    <3>1. SubSeq(b, 1, Len(b))[1] = b[1]
      BY <2>2, <2>4
    <3>2. SubSeq(head, 1, Len(b))[1] = head[1]
      BY <2>2, <2>4
    <3> QED
      BY <2>4, <3>1, <3>2
  <2> QED
    BY <2>1, <2>3, <2>4, <2>5
<1>6. ASSUME I # {}
      PROVE  MarkOf(head) \in I /\ head # <<>> /\ \A i \in I : size[i] <= size[MarkOf(head)]
  <2> HIDE DEF I, size, first
  <2>1. PICK k \in I : \A i \in I : k <= i
    <3>1. I \in SUBSET Nat
      BY <1>5
    <3> QED
      BY <1>6, <3>1, Decoder!Least
  <2>2. Min(I) = k
    <3>1. \A x \in I : (\A y \in I : x <= y) => x = k
      BY <1>5, <2>1
    <3> QED
      BY <2>1, <3>1 DEF Min
  <2>3. MarkOf(head) = k
    BY <1>3, <1>6, <2>2
  <2>4. Len(head) >= 1
    BY <1>8, <1>5, <2>1
  <2>5. head # <<>>
    <3> DEFINE none == <<>>
    <3>1. Len(none) = 0
      OBVIOUS
    <3> HIDE DEF none
    <3>2. head # none
      BY <2>4, <3>1
    <3> QED
      BY <3>2 DEF none
  <2>6. ASSUME NEW i \in I PROVE size[i] <= size[k]
    <3>1. i = k \/ k = 2
      BY <1>8, <1>5, <2>1
    <3> QED
      BY <1>8, <1>5, <2>1, <3>1
  <2> QED
    BY <2>1, <2>3, <2>5, <2>6
<1>7. \A i \in I : size[i] = Len(ByteOrderMarks[i].bytes)
  BY <1>5
<1> HIDE DEF I, size, first
<1> QED
  BY <1>3, <1>4, <1>6, <1>7 DEF I

\* What sniff_text says without a mark.
LEMMA SniffedUnmarked ==
  ASSUME NEW head, MarkOf(head) = 0
  PROVE  /\ SniffText(head).encoding = "utf-8" =>
              head # <<>> /\ (Decodes(head) \/ Decodes(WithoutTail(head)))
         /\ /\ head # <<>> /\ ~Contains(head, "nul") /\ ~(50 * Count(head, "ctl") > Len(head))
            /\ Decodes(head) \/ Decodes(WithoutTail(head))
            => SniffText(head).encoding = "utf-8"
<1>1. ASSUME head = <<>> PROVE SniffText(head).encoding = "none"
  BY <1>1 DEF SniffText, Sniffed
<1>2. ASSUME head # <<>>
      PROVE  SniffText(head) =
               IF Contains(head, "nul") \/ 50 * Count(head, "ctl") > Len(head) THEN Sniffed("binary", "none")
               ELSE IF Decodes(head) \/ Decodes(WithoutTail(head)) THEN Sniffed("text", "utf-8")
               ELSE IF \A i \in DOMAIN head : head[i] \notin Undefined THEN Sniffed("text", "unknown-8bit")
               ELSE Sniffed("unknown", "none")
  BY <1>2 DEF SniffText
<1>3. /\ Sniffed("binary", "none").encoding = "none" /\ Sniffed("text", "utf-8").encoding = "utf-8"
      /\ Sniffed("text", "unknown-8bit").encoding = "unknown-8bit" /\ Sniffed("unknown", "none").encoding = "none"
  BY DEF Sniffed
<1> QED
  BY <1>1, <1>2, <1>3

\* The sample of a file, with and without its last four bytes.
LEMMA SampleIs ==
  ASSUME NEW file \in Seq(Byte)
  PROVE  /\ Len(HeadOf(file)) \in 0 .. Len(file)
         /\ HeadOf(file) = SubSeq(file, 1, Len(HeadOf(file)))
         /\ HeadOf(file) \in Seq(Byte)
         /\ \A k \in 1 .. Len(HeadOf(file)) : HeadOf(file)[k] = file[k]
         /\ HeadOf(file) # <<>> <=> Len(HeadOf(file)) > 0
         /\ Len(HeadOf(file)) >= 4 =>
              /\ WithoutTail(HeadOf(file)) = SubSeq(file, 1, Len(HeadOf(file)) - 4)
              /\ WithoutTail(HeadOf(file)) \in Seq(Byte)
              /\ Len(WithoutTail(HeadOf(file))) = Len(HeadOf(file)) - 4
              /\ \A k \in 1 .. Len(HeadOf(file)) - 4 : WithoutTail(HeadOf(file))[k] = HeadOf(file)[k]
<1> DEFINE n == Min({Len(file), HeadBytes})
           head == SubSeq(file, 1, n)
           rest == SubSeq(head, 1, n - 4)
           same == SubSeq(file, 1, n - 4)
<1>1. n \in 0 .. Len(file)
  <2>1. Len(file) \in Nat /\ HeadBytes \in Nat
    BY HeadAssumption
  <2>2. n = Len(file) \/ (n = HeadBytes /\ HeadBytes <= Len(file))
    BY <2>1, LesserOfTwo
  <2> HIDE DEF n
  <2> QED
    BY <2>1, <2>2
<1> HIDE DEF n
<1>2. head \in Seq(Byte) /\ Len(head) = n /\ \A k \in 1 .. n : head[k] = file[k]
  BY <1>1, PrefixOf
<1>3. ASSUME n >= 4
      PROVE  /\ rest = same /\ rest \in Seq(Byte) /\ Len(rest) = n - 4
             /\ \A k \in 1 .. n - 4 : rest[k] = head[k]
  <2>1. n - 4 \in 0 .. Len(head) /\ n - 4 \in 0 .. Len(file)
    BY <1>1, <1>2, <1>3
  <2>2. rest \in Seq(Byte) /\ Len(rest) = n - 4 /\ \A k \in 1 .. n - 4 : rest[k] = head[k]
    <3> HIDE DEF head
    <3> QED
      BY <1>2, <2>1, PrefixOf
  <2>3. same \in Seq(Byte) /\ Len(same) = n - 4 /\ \A k \in 1 .. n - 4 : same[k] = file[k]
    BY <2>1, PrefixOf
  <2>4. \A k \in 1 .. n - 4 : k \in 1 .. n
    BY <1>1, <1>3
  <2> HIDE DEF head, rest, same
  <2>5. \A k \in 1 .. n - 4 : rest[k] = same[k]
    BY <1>2, <2>2, <2>3, <2>4
  <2>6. rest = same
    BY <2>2, <2>3, <2>5, SameSeq
  <2> QED
    BY <2>2, <2>6
<1>4. HeadOf(file) = head
  BY DEF HeadOf, n
<1>5. WithoutTail(head) = rest
  BY <1>2 DEF WithoutTail
<1>6. head # <<>> <=> n > 0
  <2> DEFINE none == <<>>
  <2>1. none \in Seq(Byte) /\ Len(none) = 0
    OBVIOUS
  <2> HIDE DEF none, head
  <2>2. head # none <=> n > 0
    <3>1. Len(head) = 0 => head = none
      BY <1>2, <2>1, SameSeq
    <3> QED
      BY <1>1, <1>2, <2>1, <3>1
  <2> QED
    BY <2>2 DEF none
<1> HIDE DEF head, rest
<1> QED
  BY <1>1, <1>2, <1>3, <1>4, <1>5, <1>6 DEF same, head

\* A text whose sample, or that without its last four bytes, ends where a character
\* does, is told to be one.
LEMMA TextIsTold ==
  ASSUME NEW text \in Seq(Characters), NEW k \in 0 .. Len(text),
         MarkOf(HeadOf(FileOf(text))) = 0, HeadOf(FileOf(text)) # <<>>,
         ~Contains(FileOf(text), "nul"), ~Contains(FileOf(text), "ctl"),
         EndOf(text, k) = Len(HeadOf(FileOf(text))) \/ EndOf(text, k) = Len(HeadOf(FileOf(text))) - 4
  PROVE  SniffText(HeadOf(FileOf(text))).encoding = "utf-8"
<1> DEFINE file == FileOf(text)
           head == HeadOf(file)
           n == Len(head)
<1>1. text \in Seq(Pieces)
  BY DEF Pieces
<1>2. file \in Seq(Byte) /\ EndOf(text, k) \in Nat
  BY <1>1, WherePieces
<1>3. /\ n \in 0 .. Len(file) /\ head = SubSeq(file, 1, n) /\ head \in Seq(Byte)
      /\ \A i \in 1 .. n : head[i] = file[i]
      /\ n >= 4 => WithoutTail(head) = SubSeq(file, 1, n - 4)
  BY <1>2, SampleIs
<1>4. Decodes(SubSeq(file, 1, EndOf(text, k)))
  BY DecodesToEnds
<1>5. MarkOf(head) = 0 /\ head # <<>> /\ ~Contains(file, "nul") /\ ~Contains(file, "ctl")
      /\ (EndOf(text, k) = n \/ EndOf(text, k) = n - 4)
  OBVIOUS
<1> HIDE DEF head, file
<1>6. Decodes(head) \/ Decodes(WithoutTail(head))
  <2>1. CASE EndOf(text, k) = n
    BY <1>3, <1>4, <2>1
  <2>2. CASE EndOf(text, k) = n - 4
    <3>1. n >= 4
      <4>1. n \in Nat
        BY <1>3
      <4> HIDE DEF n
      <4> QED
        BY <1>2, <2>2, <4>1
    <3> QED
      BY <1>3, <1>4, <2>2, <3>1
  <2> QED
    BY <1>5, <2>1, <2>2
<1>7. Len(file) \in Nat /\ n \in Nat /\ n <= Len(file)
  BY <1>2, <1>3
<1>8. \A b : Contains(head, b) => Contains(file, b)
  <2>1. \A i \in 1 .. n : i \in 1 .. Len(file)
    BY <1>7
  <2> QED
    BY <1>3, <2>1 DEF Contains
<1>9. ~Contains(head, "nul")
  BY <1>5, <1>8
<1>10. ~(50 * Count(head, "ctl") > n)
  <2>1. DOMAIN head = 1 .. n
    BY <1>3
  <2>2. \A i \in 1 .. n : head[i] # "ctl"
    BY <1>5, <1>8 DEF Contains
  <2>3. {i \in DOMAIN head : head[i] = "ctl"} = {}
    BY <2>1, <2>2
  <2>4. Count(head, "ctl") = 0
    BY <2>3, FS_EmptySet DEF Count
  <2> QED
    BY <1>7, <2>4
<1>11. SniffText(head).encoding = "utf-8"
  BY <1>5, <1>6, <1>9, <1>10, SniffedUnmarked
<1> QED
  BY <1>11 DEF head, file

\* What is told to be UTF-8 has no byte but the last four that no text has.
LEMMA ToldIsText ==
  ASSUME NEW file \in Seq(Byte), MarkOf(HeadOf(file)) = 0, SniffText(HeadOf(file)).encoding = "utf-8"
  PROVE  \A i \in 1 .. Len(HeadOf(file)) - 4 : HeadOf(file)[i] \notin Invalid
<1> DEFINE head == HeadOf(file)
           n == Len(head)
<1> SUFFICES ASSUME NEW i \in 1 .. n - 4 PROVE head[i] \notin Invalid
  OBVIOUS
<1>1. /\ n \in 0 .. Len(file) /\ head \in Seq(Byte)
      /\ n >= 4 => /\ WithoutTail(head) \in Seq(Byte) /\ Len(WithoutTail(head)) = n - 4
                   /\ \A j \in 1 .. n - 4 : WithoutTail(head)[j] = head[j]
  BY SampleIs
<1>2. Decodes(head) \/ Decodes(WithoutTail(head))
  BY SniffedUnmarked
<1> HIDE DEF head
<1>3. n \in Nat /\ n >= 4 /\ i \in 1 .. n
  BY <1>1
<1>4. CASE Decodes(head)
  BY <1>1, <1>3, <1>4, DecodedIsText
<1>5. CASE Decodes(WithoutTail(head))
  <2>1. WithoutTail(head)[i] \notin Invalid
    BY <1>1, <1>3, <1>5, DecodedIsText
  <2> QED
    BY <1>1, <1>3, <2>1
<1> QED
  BY <1>2, <1>4, <1>5

\* The line end that a piece is.
LEMMA LineEndIs ==
  ASSUME NEW piece
  PROVE  LineEnd(piece) = IF piece = <<"LF">> THEN {"LF"}
                          ELSE IF piece = <<"CR", "LF">> THEN {"CRLF"}
                          ELSE IF piece = <<"CR">> THEN {"CR"} ELSE {}
<1> DEFINE lf == <<"LF">>
           cr == <<"CR">>
           crlf == <<"CR", "LF">>
<1>1. lf # crlf /\ cr # crlf /\ lf # cr
  <2>1. Len(lf) = 1 /\ lf[1] = "LF" /\ Len(cr) = 1 /\ cr[1] = "CR" /\ Len(crlf) = 2
    OBVIOUS
  <2> HIDE DEF lf, cr, crlf
  <2> QED
    BY <2>1
<1>2. LineEnd(piece) = CASE piece = lf -> {"LF"} [] piece = crlf -> {"CRLF"} [] piece = cr -> {"CR"} [] OTHER -> {}
  BY DEF LineEnd
<1> HIDE DEF lf, cr, crlf
<1>3. LineEnd(piece) = IF piece = lf THEN {"LF"} ELSE IF piece = crlf THEN {"CRLF"}
                       ELSE IF piece = cr THEN {"CR"} ELSE {}
  BY <1>1, <1>2
<1> QED
  BY <1>3 DEF lf, cr, crlf

\* The line ends of a sample.
LEMMA LineEndsTold ==
  ASSUME NEW text, CutUp(text)
  PROVE  LET file == FileOf(text)
             head == HeadOf(file)
         IN DetectEol(head) =
              (UNION {LineEnd(text[i]) : i \in {j \in DOMAIN text : EndOf(text, j) <= Len(head)}})
              \cup (IF Len(head) < Len(file) /\ head # <<>> /\ Last(head) = "CR"
                       /\ Len(head) \notin {EndOf(text, m) : m \in 0 .. Len(text)} THEN {"CR"} ELSE {})
<1> DEFINE file == FileOf(text)
           head == HeadOf(file)
           n == Len(head)
           c == Len(text)
           Whole == {i \in DOMAIN text : EndOf(text, i) <= n}
           Half == n < Len(file) /\ head # <<>> /\ Last(head) = "CR" /\ n \notin {EndOf(text, m) : m \in 0 .. c}
           lf == <<"LF">>
           cr == <<"CR">>
           crlf == <<"CR", "LF">>
           F == \E m \in 1 .. c : EndOf(text, m) <= n /\ text[m] = lf
           B == \E m \in 1 .. c : EndOf(text, m) <= n /\ text[m] = crlf
           R == \E m \in 1 .. c : EndOf(text, m) <= n /\ text[m] = cr
<1>1. text \in Seq(Pieces) /\ c \in Nat /\ DOMAIN text = 1 .. c
  BY DEF CutUp
<1>2. file \in Seq(Byte)
  BY <1>1, WherePieces
<1>3. /\ n \in 0 .. Len(file) /\ head = SubSeq(file, 1, n) /\ head \in Seq(Byte)
      /\ head # <<>> <=> n > 0
  BY <1>2, SampleIs
<1>4. DetectEol(head) = (IF \E k \in Nat : LoneLF(head, k) THEN {"LF"} ELSE {})
                        \cup (IF \E k \in Nat : PairAt(head, k) THEN {"CRLF"} ELSE {})
                        \cup (IF \E k \in Nat : LoneCR(head, k) THEN {"CR"} ELSE {})
  BY <1>3, LineEndsCounted
<1>5. /\ (\E k \in Nat : LoneLF(head, k)) <=> F
      /\ (\E k \in Nat : PairAt(head, k)) <=> B
      /\ (\E k \in Nat : LoneCR(head, k)) <=>
           R \/ (n < Len(file) /\ n > 0 /\ head[n] = "CR" /\ \A m \in 0 .. c : EndOf(text, m) # n)
  <2> DEFINE h == head
  <2>1. h = SubSeq(FileOf(text), 1, n) /\ n \in 0 .. Len(FileOf(text))
    BY <1>3
  <2> HIDE DEF head
  <2> QED
    BY <2>1, EndsInSample
<1>6. Half <=> n < Len(file) /\ n > 0 /\ head[n] = "CR" /\ \A m \in 0 .. c : EndOf(text, m) # n
  <2>1. Last(head) = head[n]
    BY DEF Last
  <2> HIDE DEF head, file
  <2> QED
    BY <1>3, <2>1
<1>7. \A i \in DOMAIN text : LineEnd(text[i]) = IF text[i] = lf THEN {"LF"} ELSE IF text[i] = crlf THEN {"CRLF"}
                                               ELSE IF text[i] = cr THEN {"CR"} ELSE {}
  BY LineEndIs
<1>8. lf # crlf /\ cr # crlf /\ lf # cr
  <2>1. Len(lf) = 1 /\ lf[1] = "LF" /\ Len(cr) = 1 /\ cr[1] = "CR" /\ Len(crlf) = 2
    OBVIOUS
  <2> HIDE DEF lf, cr, crlf
  <2> QED
    BY <2>1
<1> DEFINE U == UNION {LineEnd(text[i]) : i \in Whole}
<1>9. \A x : x \in U <=> \E i \in 1 .. c : EndOf(text, i) <= n /\ x \in LineEnd(text[i])
  BY <1>1
<1> HIDE DEF head, file, c, lf, cr, crlf, U, n
<1>10. U = (IF F THEN {"LF"} ELSE {}) \cup (IF B THEN {"CRLF"} ELSE {}) \cup (IF R THEN {"CR"} ELSE {})
  <2> DEFINE V == (IF F THEN {"LF"} ELSE {}) \cup (IF B THEN {"CRLF"} ELSE {}) \cup (IF R THEN {"CR"} ELSE {})
  <2>1. ASSUME NEW x, x \in U PROVE x \in V
    <3>1. PICK i \in 1 .. c : EndOf(text, i) <= n /\ x \in LineEnd(text[i])
      BY <1>9, <2>1
    <3>2. \/ text[i] = lf /\ x = "LF"
          \/ text[i] = crlf /\ x = "CRLF"
          \/ text[i] = cr /\ x = "CR"
      BY <1>1, <1>7, <3>1 DEF c
    <3> QED
      BY <3>1, <3>2
  <2>2. ASSUME NEW x, x \in V PROVE x \in U
    <3>1. (x = "LF" /\ F) \/ (x = "CRLF" /\ B) \/ (x = "CR" /\ R)
      BY <2>2
    <3>2. PICK i \in 1 .. c : /\ EndOf(text, i) <= n
                              /\ \/ text[i] = lf /\ x = "LF"
                                 \/ text[i] = crlf /\ x = "CRLF"
                                 \/ text[i] = cr /\ x = "CR"
      BY <3>1
    <3>3. x \in LineEnd(text[i])
      BY <1>1, <1>7, <1>8, <3>2 DEF c
    <3> QED
      BY <1>9, <3>2, <3>3
  <2> HIDE DEF V
  <2>3. U = V
    BY <2>1, <2>2
  <2> QED
    BY <2>3 DEF V
<1> DEFINE P == \E k \in Nat : PairAt(head, k)
           L == \E k \in Nat : LoneLF(head, k)
           C == \E k \in Nat : LoneCR(head, k)
<1>11. DetectEol(head) = U \cup (IF Half THEN {"CR"} ELSE {})
  <2>1. (L <=> F) /\ (P <=> B) /\ (C <=> R \/ Half)
    BY <1>5, <1>6
  <2>2. DetectEol(head) = (IF L THEN {"LF"} ELSE {}) \cup (IF P THEN {"CRLF"} ELSE {}) \cup (IF C THEN {"CR"} ELSE {})
    BY <1>4
  <2> HIDE DEF L, P, C, F, B, R, Half
  <2> QED
    BY <1>10, <2>1, <2>2
<1> QED
  BY <1>11 DEF U, head, file, c, n

\* Every file is told so.
LEMMA AlwaysToldAs ==
  ASSUME NEW text, CutUp(text)
  PROVE  ToldAs(text)
<1> DEFINE file == FileOf(text)
           head == HeadOf(file)
           said == SniffText(head).encoding
           EndSet == {EndOf(text, m) : m \in 0 .. Len(text)}
           Marks == {m \in ToSet(ByteOrderMarks) : IsPrefix(m.bytes, head)}
           Read == DetectEol(head) =
                     (UNION {LineEnd(text[i]) : i \in {j \in DOMAIN text : EndOf(text, j) <= Len(head)}})
                     \cup (IF Len(head) < Len(file) /\ head # <<>> /\ Last(head) = "CR"
                              /\ Len(head) \notin EndSet THEN {"CR"} ELSE {})
           Longest == \E m \in Marks : m.encoding = said /\ \A n \in Marks : Len(n.bytes) <= Len(m.bytes)
           Text == said # "utf-8" /\ head # <<>> =>
                     \/ \E i \in DOMAIN text : text[i] \notin Characters
                     \/ Contains(file, "nul") \/ Contains(file, "ctl")
                     \/ Len(head) \notin EndSet /\ Len(head) - 4 \notin EndSet
           Clean == said = "utf-8" => \A i \in 1 .. Len(head) - 4 : head[i] \notin Invalid
<1>1. text \in Seq(Pieces) /\ file \in Seq(Byte)
  BY WherePieces DEF CutUp
<1>2. head \in Seq(Byte)
  BY <1>1, SampleIs
<1>3. Read
  BY LineEndsTold
<1>4. ASSUME Marks # {} PROVE Longest
  <2> DEFINE I == MarksOf(head)
             k == MarkOf(head)
  <2>1. Marks = {ByteOrderMarks[i] : i \in I}
    BY <1>2, FirstMark
  <2>2. I # {}
    BY <1>4, <2>1
  <2>3. /\ k \in I /\ head # <<>>
        /\ \A i \in I : Len(ByteOrderMarks[i].bytes) <= Len(ByteOrderMarks[k].bytes)
    BY <1>2, <2>2, FirstMark
  <2>4. k # 0
    BY <2>3 DEF MarksOf
  <2>5. said = ByteOrderMarks[k].encoding
    <3> HIDE DEF head
    <3>1. SniffText(head) = Sniffed("text", ByteOrderMarks[k].encoding)
      BY <2>3, <2>4 DEF SniffText
    <3> QED
      BY <3>1 DEF Sniffed
  <2> HIDE DEF Marks, I, k, said
  <2> QED
    BY <2>1, <2>3, <2>5
<1>5. ASSUME Marks = {} PROVE MarkOf(head) = 0
  <2>1. Marks = {ByteOrderMarks[i] : i \in MarksOf(head)}
    BY <1>2, FirstMark
  <2>2. MarksOf(head) = {}
    <3> HIDE DEF Marks, head
    <3> QED
      BY <1>5, <2>1
  <2> QED
    BY <1>2, <2>2, FirstMark
<1>6. ASSUME Marks = {} PROVE Text
  <2> SUFFICES ASSUME said # "utf-8", head # <<>>, \A i \in DOMAIN text : text[i] \in Characters,
                      ~Contains(file, "nul"), ~Contains(file, "ctl"),
                      Len(head) \in EndSet \/ Len(head) - 4 \in EndSet
               PROVE  FALSE
    <3> HIDE DEF said, head, file, EndSet, Marks
    <3> QED
      OBVIOUS
  <2>1. text \in Seq(Characters)
    BY <1>1
  <2>2. PICK k \in 0 .. Len(text) : EndOf(text, k) = Len(head) \/ EndOf(text, k) = Len(head) - 4
    <3> HIDE DEF head
    <3> QED
      OBVIOUS
  <2>3. MarkOf(head) = 0
    BY <1>5, <1>6
  <2>4. said = "utf-8"
    BY <2>1, <2>2, <2>3, TextIsTold
  <2> QED
    BY <2>4
<1>7. ASSUME Marks = {} PROVE Clean
  BY <1>1, <1>5, <1>7, ToldIsText
<1>8. ToldAs(text) <=> IF Marks # {} THEN Longest ELSE Text /\ Clean /\ Read
  BY DEF ToldAs, EndOf, FirstOf
<1> HIDE DEF Marks, Longest, Text, Clean, Read
<1> QED
  BY <1>3, <1>4, <1>6, <1>7, <1>8

\* The encoding and the line ends that are told of a file are those of its text, as far
\* as the sample shows them.
THEOREM TextAlwaysTold == Spec => []TextTold
<1>1. TextTold <=> (about = "text" => ToldAs(input))
  BY Zenon DEF TextTold, ToldAs
<1>2. Picked => (about = "text" => input \in TextInputs)
  BY DEF Picked
<1>3. ASSUME NEW text \in TextInputs PROVE CutUp(text)
  BY TextInputAssumption DEF CutUp, Pieces, Byte
<1>4. Picked => TextTold
  BY <1>1, <1>2, <1>3, AlwaysToldAs
<1> QED
  BY <1>4, PickedFromInputs, PTL
=============================================================================
