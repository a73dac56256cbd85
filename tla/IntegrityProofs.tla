-------------------------- MODULE IntegrityProofs ---------------------------
(***************************************************************************)
(* Theorems about Integrity, for any set of files, contents and versions,  *)
(* any number of changes and commands, and a kill at any step:             *)
(* TypeCorrect, PassCoversBaseline, ChangesDetected and                    *)
(* FalseAlarmsAreEmptyFiles, from the invariant IInv.                      *)
(***************************************************************************)
EXTENDS Integrity, TLAPS

\* What a command has collected about the files it is past, when nothing has
\* changed since it began.
Gathered(S) ==
  /\ DOMAIN found = {f \in S : Shown(start, f)}
  /\ \A f \in DOMAIN found : found[f].size = SizeOf[start.file[f].data]

\* The hash that build_record notes of file f of repository r.
HashOf(r, f) == IF r.file[f].access = "open" THEN r.file[f].data ELSE NoHash

\* The table is what inventory notes of repository r.
Records(table, r) ==
  /\ DOMAIN table = {f \in File : Shown(r, f)}
  /\ \A f \in DOMAIN table :
       table[f].size = SizeOf[r.file[f].data] /\ table[f].sha = HashOf(r, f)

\* A walk takes the paths in order.
WalkInv ==
  /\ quiet => repo = start
  /\ pc \in {"record", "hash", "walk"} =>
       /\ \A f \in DOMAIN found, g \in todo : f < g
       /\ quiet => Gathered(File \ todo)

\* Only the record of the file examined last lacks its hash.
InventoryInv ==
  /\ pc \in {"record", "hash", "saveVcs"} => git \in {start.vcs, NoGit}
  /\ pc \in {"record", "hash"} /\ quiet =>
       \A f \in DOMAIN found :
         pc = "record" \/ (\E g \in DOMAIN found : f < g) => found[f].sha = HashOf(start, f)
  /\ pc = "saveVcs" => base = start /\ ~complete /\ (baseQuiet => Records(rows, base))

\* What a whole baseline says of the repository it was taken from.
BaselineInv ==
  complete =>
    /\ vcsFile = "whole" /\ vcsSaved \in {base.vcs, NoGit}
    /\ baseQuiet => Records(rows, base)

\* File f does not deviate, as verify sees it in repository start.
Matches(f) ==
  rows[f].sha # NoHash =>
    /\ found[f].size = rows[f].size /\ rows[f].size # 0
    /\ start.file[f].access = "open" => start.file[f].data = rows[f].sha

EmptyFile(r) == \E f \in File : Shown(r, f) /\ SizeOf[r.file[f].data] = 0

\* As long as no deviation has been found, what has been compared matches; between
\* two samples of one repository, only an empty file deviates.
CompareInv ==
  pc \in {"compare", "judged"} =>
    /\ todo \subseteq DOMAIN rows \cap DOMAIN found
    /\ quiet => Gathered(File)
    /\ ~mutated => DOMAIN rows = DOMAIN found
    /\ quiet /\ ~mutated => \A f \in DOMAIN rows \ todo : Matches(f)
    /\ Comparable /\ start = base /\ mutated => EmptyFile(base)

JudgeInv ==
  pc = "judged" =>
    /\ todo = {}
    /\ quiet => git \in {start.vcs, NoGit}
    /\ verdict = "PASS" => ~mutated /\ vcsSaved = git
    /\ verdict = "FAIL" => mutated \/ vcsFile = "absent" \/ vcsSaved # git

IInv == TypeOK /\ WalkInv /\ InventoryInv /\ BaselineInv /\ CompareInv /\ JudgeInv
-----------------------------------------------------------------------------
\* A file that is shown has contents, and these have a size.
LEMMA ShownFacts ==
  ASSUME NEW r \in Repositories, NEW f \in File, Shown(r, f)
  PROVE  /\ r.file[f] \in [data : Contents, access : Access]
         /\ r.file[f].data \in Contents /\ r.file[f].access \in Access
         /\ SizeOf[r.file[f].data] \in Nat
BY ContentsAssumption DEF Repositories, FileState, Shown

\* What is noted of a file is a row.
LEMMA AddRowType ==
  ASSUME NEW table, IsTable(table), NEW f \in File, NEW row \in Row
  PROVE  /\ IsTable(AddRow(table, f, row))
         /\ DOMAIN AddRow(table, f, row) = DOMAIN table \cup {f}
BY DEF IsTable, AddRow

LEMMA NoRowsType == IsTable(NoRows) /\ DOMAIN NoRows = {}
BY DEF IsTable, NoRows

\* What the walk does with the next file.
LEMMA ExamineFacts ==
  ASSUME TypeOK, NEW f \in File, Examine(f)
  PROVE  /\ f \in todo /\ todo' = todo \ {f} /\ \A g \in todo : f <= g
         /\ IsTable(found')
         /\ ~Present(f) => found' = found
         /\ Present(f) =>
              /\ DOMAIN found' = DOMAIN found \cup {f}
              /\ found'[f].size = SizeOf[repo.file[f].data]
              /\ \A g \in DOMAIN found : g # f => found'[g] = found[g]
<1>1. f \in todo /\ todo' = todo \ {f} /\ \A g \in todo : f <= g
  BY DEF Examine, NextFile
<1>2. IsTable(found)
  BY DEF TypeOK
<1>3. ASSUME Present(f)
      PROVE  /\ IsTable(found') /\ DOMAIN found' = DOMAIN found \cup {f}
             /\ found'[f].size = SizeOf[repo.file[f].data]
             /\ \A g \in DOMAIN found : g # f => found'[g] = found[g]
  <2> DEFINE row == [size |-> SizeOf[Data(f)], sha |-> NoHash]
  <2>1. SizeOf[Data(f)] \in Nat
    BY <1>3, ShownFacts DEF TypeOK, Present, Data
  <2>2. row \in Row /\ row.size = SizeOf[repo.file[f].data]
    BY <2>1 DEF Row, Data
  <2>3. found' = AddRow(found, f, row)
    BY <1>3 DEF Examine
  <2> HIDE DEF row
  <2>4. IsTable(found') /\ DOMAIN found' = DOMAIN found \cup {f}
    BY <1>2, <2>2, <2>3, AddRowType
  <2>5. found'[f] = row /\ \A g \in DOMAIN found : g # f => found'[g] = found[g]
    BY <2>3 DEF AddRow
  <2> QED
    BY <2>2, <2>4, <2>5
<1>4. ~Present(f) => found' = found
  BY DEF Examine
<1> QED
  BY <1>1, <1>2, <1>3, <1>4

\* build_record completes the row of the greatest file gathered.
LEMMA HashRecordFacts ==
  ASSUME TypeOK, NEW f \in File, HashRecord(f)
  PROVE  /\ f \in DOMAIN found /\ \A g \in DOMAIN found : g <= f
         /\ IsTable(found') /\ DOMAIN found' = DOMAIN found
         /\ \A g \in DOMAIN found : found'[g].size = found[g].size
         /\ found'[f].sha = IF Readable(f) THEN repo.file[f].data ELSE NoHash
         /\ \A g \in DOMAIN found : g # f => found'[g] = found[g]
<1> DEFINE sha == IF Readable(f) THEN repo.file[f].data ELSE NoHash
<1>1. f \in DOMAIN found /\ \A g \in DOMAIN found : g <= f
  BY DEF HashRecord
<1>2. sha \in Contents \cup {NoHash}
  BY ShownFacts DEF TypeOK, Readable, Present
<1>3. found' = [found EXCEPT ![f].sha = sha]
  BY DEF HashRecord, Data
<1>4. DOMAIN found \subseteq File /\ \A g \in DOMAIN found : found[g] \in Row
  BY DEF TypeOK, IsTable
<1> HIDE DEF sha
<1>5. /\ DOMAIN found' = DOMAIN found
      /\ \A g \in DOMAIN found : found'[g] = IF g = f THEN [found[g] EXCEPT !.sha = sha] ELSE found[g]
  BY <1>1, <1>3
<1>6. found[f] \in Row
  BY <1>1, <1>4
<1>7. /\ [found[f] EXCEPT !.sha = sha] \in Row
      /\ [found[f] EXCEPT !.sha = sha].size = found[f].size
      /\ [found[f] EXCEPT !.sha = sha].sha = sha
  BY <1>2, <1>6 DEF Row
<1>8. found'[f] \in Row /\ found'[f].size = found[f].size /\ found'[f].sha = sha
  BY <1>1, <1>5, <1>7
<1>9. IsTable(found') /\ \A g \in DOMAIN found : found'[g].size = found[g].size
  BY <1>4, <1>5, <1>8 DEF IsTable
<1> QED
  BY <1>1, <1>5, <1>8, <1>9 DEF sha
-----------------------------------------------------------------------------
LEMMA InitType == Init => TypeOK
<1> SUFFICES ASSUME Init PROVE TypeOK
  OBVIOUS
<1>1. repo \in Repositories
  BY DEF Init, Repositories
<1>2. start \in Repositories /\ base \in Repositories
  BY <1>1 DEF Init
<1>3. changes \in 0..MaxChanges /\ inventories \in 0..MaxInventories
  BY BoundsAssumption DEF Init
<1>4. IsTable(rows) /\ IsTable(found)
  BY NoRowsType DEF Init
<1>5. {mutated, quiet, baseQuiet, complete} \subseteq BOOLEAN
  BY DEF Init
<1> QED
  BY <1>1, <1>2, <1>3, <1>4, <1>5 DEF Init, TypeOK

\* What the end of a command leaves is in range.
LEMMA EndType ==
  ASSUME TypeOK, End, base' \in Repositories
  PROVE  /\ pc' = "idle" /\ todo' = {} /\ IsTable(found') /\ git' = NoGit
         /\ mutated' = FALSE /\ start' \in Repositories /\ quiet' = FALSE
BY NoRowsType DEF End

LEMMA NextType == TypeOK /\ [Next]_vars => TypeOK'
<1> SUFFICES ASSUME TypeOK, [Next]_vars PROVE TypeOK'
  OBVIOUS
<1>0. base \in Repositories /\ repo \in Repositories /\ start \in Repositories
  BY DEF TypeOK
<1>1. CASE Change
  <2>1. repo' \in Repositories
    BY <1>1 DEF TypeOK, Repositories, Change
  <2>2. changes' \in 0..MaxChanges
    BY <1>1, BoundsAssumption DEF TypeOK, Change
  <2> QED
    BY <1>1, <2>1, <2>2 DEF TypeOK, Change, saved, baseline
<1>2. CASE StartInventory
  <2>1. inventories' \in 0..MaxInventories /\ git' \in Versions \cup {NoGit}
    BY <1>2, BoundsAssumption DEF TypeOK, StartInventory, Collect, Repositories
  <2> QED
    BY <1>2, <2>1, NoRowsType DEF TypeOK, StartInventory, saved, baseline
<1>3. ASSUME NEW f \in File, ExamineForRecord(f) PROVE TypeOK'
  <2>1. Examine(f)
    BY <1>3 DEF ExamineForRecord
  <2>2. DOMAIN found \cap todo = {}
    BY <1>3 DEF TypeOK, ExamineForRecord
  <2>3. IsTable(found') /\ todo' \subseteq File /\ DOMAIN found' \cap todo' = {}
    BY <2>1, <2>2, ExamineFacts DEF TypeOK
  <2> QED
    BY <1>3, <2>3 DEF TypeOK, ExamineForRecord, saved, history, counts
<1>4. ASSUME NEW f \in File, HashRecord(f) PROVE TypeOK'
  <2>1. IsTable(found') /\ DOMAIN found' = DOMAIN found
    BY <1>4, HashRecordFacts
  <2> QED
    BY <1>4, <2>1 DEF TypeOK, HashRecord, saved, history, counts
<1>5. CASE SaveRows
  BY <1>5 DEF TypeOK, SaveRows, counts
<1>6. CASE SaveVcs
  <2>1. End /\ base' = base
    BY <1>6 DEF SaveVcs
  <2> QED
    BY <1>0, <1>6, <2>1, EndType DEF TypeOK, SaveVcs, counts
<1>7. CASE KilledInRows
  <2>1. End /\ base' = start
    BY <1>7 DEF KilledInRows
  <2>2. IsTable(rows')
    BY <1>7 DEF TypeOK, KilledInRows, IsTable
  <2> QED
    BY <1>0, <1>7, <2>1, <2>2, EndType DEF TypeOK, KilledInRows, counts
<1>8. CASE KilledInVcs
  <2>1. End /\ base' = base
    BY <1>8 DEF KilledInVcs, baseline
  <2> QED
    BY <1>0, <1>8, <2>1, EndType DEF TypeOK, KilledInVcs, baseline, counts
<1>9. CASE StartVerify
  BY <1>9, NoRowsType DEF TypeOK, StartVerify, saved, baseline, counts
<1>10. ASSUME NEW f \in File, Walk(f) PROVE TypeOK'
  <2>1. Examine(f)
    BY <1>10 DEF Walk
  <2>2. DOMAIN found \cap todo = {}
    BY <1>10 DEF TypeOK, Walk
  <2>3. IsTable(found') /\ todo' \subseteq File /\ DOMAIN found' \cap todo' = {}
    BY <2>1, <2>2, ExamineFacts DEF TypeOK
  <2> QED
    BY <1>10, <2>3 DEF TypeOK, Walk, saved, history, counts
<1>11. ASSUME NEW f \in File, Compare(f) PROVE TypeOK'
  <2>1. mutated' \in BOOLEAN
    BY <1>11 DEF TypeOK, Compare, Deviates, SizeChanged, HashChanged, Readable, Present, Shown
  <2> QED
    BY <1>11, <2>1 DEF TypeOK, Compare, saved, history, counts
<1>12. CASE AddedRemoved
  BY <1>12 DEF TypeOK, AddedRemoved, IsTable, saved, history, counts
<1>13. CASE Judge
  <2>1. git' \in Versions \cup {NoGit} /\ verdict' \in {"PASS", "FAIL"}
    BY <1>0, <1>13 DEF Judge, Collect, Repositories
  <2> QED
    BY <1>13, <2>1 DEF TypeOK, Judge, saved, history, counts
<1>14. CASE EndVerify
  <2>1. End /\ base' = base
    BY <1>14 DEF EndVerify, baseline
  <2> QED
    BY <1>0, <1>14, <2>1, EndType DEF TypeOK, EndVerify, saved, baseline, counts
<1>15. CASE VerifyFails
  <2>1. End /\ base' = base
    BY <1>15 DEF VerifyFails, baseline
  <2> QED
    BY <1>0, <1>15, <2>1, EndType DEF TypeOK, VerifyFails, saved, baseline, counts
<1>16. CASE Killed
  <2>1. End /\ base' = base
    BY <1>16 DEF Killed, baseline
  <2> QED
    BY <1>0, <1>16, <2>1, EndType DEF TypeOK, Killed, saved, baseline, counts
<1>17. CASE UNCHANGED vars
  BY <1>17 DEF TypeOK, vars
<1> QED
  BY <1>1, <1>2, <1>3, <1>4, <1>5, <1>6, <1>7, <1>8, <1>9, <1>10, <1>11, <1>12, <1>13,
     <1>14, <1>15, <1>16, <1>17
  DEF Next, Inventory, Verify

\* Every variable keeps its range, and a walk gathers only files it is past.
THEOREM TypeCorrect == Spec => []TypeOK
BY InitType, NextType, PTL DEF Spec
-----------------------------------------------------------------------------
LEMMA InitInv == Init => IInv
BY InitType
DEF Init, IInv, WalkInv, InventoryInv, BaselineInv, CompareInv, JudgeInv, Comparable

\* A baseline that nobody writes stays what it is.
LEMMA BaselineStays == BaselineInv /\ UNCHANGED <<saved, baseline>> => BaselineInv'
BY DEF BaselineInv, saved, baseline, Records, HashOf, Shown

\* Between commands the invariant is about the baseline only.
LEMMA EndsClean ==
  ASSUME TypeOK', BaselineInv', pc' = "idle", quiet' = FALSE
  PROVE  IInv'
BY DEF IInv, WalkInv, InventoryInv, CompareInv, JudgeInv, Comparable

\* A walk begins with nothing.
LEMMA StartGathers ==
  ASSUME todo' = File, found' = NoRows
  PROVE  /\ \A f \in DOMAIN found', g \in todo' : f < g
         /\ Gathered(File \ todo)'
BY NoRowsType DEF Gathered

\* A walk goes on in order, and gathers what is shown of an unchanged repository.
LEMMA ExamineGathers ==
  ASSUME TypeOK, NEW f \in File, Examine(f),
         \A g \in DOMAIN found, h \in todo : g < h
  PROVE  /\ \A g \in DOMAIN found', h \in todo' : g < h
         /\ \A g \in DOMAIN found : g # f
         /\ repo = start /\ start' = start /\ Gathered(File \ todo) => Gathered(File \ todo)'
<1>1. /\ f \in todo /\ todo' = todo \ {f} /\ \A g \in todo : f <= g
      /\ todo \subseteq File /\ DOMAIN found \subseteq File /\ File \subseteq Int
  BY ExamineFacts, FileAssumption DEF TypeOK, IsTable
<1>2. \A g \in DOMAIN found : g # f
  BY <1>1
<1>3. CASE Present(f)
  <2>1. /\ DOMAIN found' = DOMAIN found \cup {f}
        /\ found'[f].size = SizeOf[repo.file[f].data]
        /\ \A g \in DOMAIN found : found'[g] = found[g]
    BY <1>2, <1>3, ExamineFacts
  <2>2. \A g \in DOMAIN found', h \in todo' : g < h
    BY <1>1, <2>1
  <2>3. ASSUME repo = start, start' = start, Gathered(File \ todo) PROVE Gathered(File \ todo)'
    <3>1. DOMAIN found' = {g \in File \ todo' : Shown(start, g)}
      BY <1>1, <1>3, <2>1, <2>3 DEF Gathered, Present
    <3>2. \A g \in DOMAIN found' : found'[g].size = SizeOf[start.file[g].data]
      BY <2>1, <2>3 DEF Gathered
    <3> QED
      BY <2>3, <3>1, <3>2 DEF Gathered, Shown
  <2> QED
    BY <1>2, <2>2, <2>3
<1>4. CASE ~Present(f)
  <2>1. found' = found
    BY <1>4, ExamineFacts
  <2>2. \A g \in DOMAIN found', h \in todo' : g < h
    BY <1>1, <2>1
  <2>3. ASSUME repo = start, start' = start, Gathered(File \ todo) PROVE Gathered(File \ todo)'
    <3>1. {g \in File \ todo' : Shown(start, g)} = {g \in File \ todo : Shown(start, g)}
      BY <1>1, <1>4, <2>3 DEF Present
    <3> QED
      BY <2>1, <2>3, <3>1 DEF Gathered, Shown
  <2> QED
    BY <1>2, <2>2, <2>3
<1> QED
  BY <1>3, <1>4
-----------------------------------------------------------------------------
LEMMA ChangeInv == IInv /\ Change => IInv'
<1> SUFFICES ASSUME IInv, Change PROVE IInv'
  OBVIOUS
<1>1. /\ UNCHANGED <<saved, pc, todo, found, git, mutated, verdict, start, baseline>>
      /\ quiet' = FALSE
  BY DEF Change
<1>2. TypeOK'
  BY NextType DEF IInv, Next
<1>3. WalkInv'
  BY <1>1 DEF IInv, WalkInv
<1>4. InventoryInv'
  BY <1>1 DEF IInv, InventoryInv, saved, baseline, Records, HashOf, Shown
<1>5. BaselineInv'
  BY <1>1, BaselineStays DEF IInv
<1>6. CompareInv' /\ JudgeInv'
  BY <1>1 DEF IInv, CompareInv, JudgeInv, Comparable, saved
<1> QED
  BY <1>2, <1>3, <1>4, <1>5, <1>6 DEF IInv

LEMMA StartInventoryInv == IInv /\ StartInventory => IInv'
<1> SUFFICES ASSUME IInv, StartInventory PROVE IInv'
  OBVIOUS
<1>1. /\ pc' = "record" /\ todo' = File /\ found' = NoRows /\ UNCHANGED <<saved, baseline>>
      /\ start' = repo /\ repo' = repo /\ git' \in {repo.vcs, NoGit}
  BY DEF StartInventory, Collect
<1>2. TypeOK'
  BY NextType DEF IInv, Next, Inventory
<1>3. WalkInv'
  BY <1>1, StartGathers DEF WalkInv
<1>4. InventoryInv'
  BY <1>1, NoRowsType DEF InventoryInv
<1>5. BaselineInv'
  BY <1>1, BaselineStays DEF IInv
<1> QED
  BY <1>1, <1>2, <1>3, <1>4, <1>5 DEF IInv, CompareInv, JudgeInv

LEMMA ExamineForRecordInv == ASSUME IInv, NEW f \in File, ExamineForRecord(f) PROVE IInv'
<1>1. /\ pc = "record" /\ Examine(f) /\ pc' = IF Present(f) THEN "hash" ELSE "record"
      /\ UNCHANGED <<repo, saved, git, start, quiet, baseline>>
  BY DEF ExamineForRecord, history, baseline
<1>2. TypeOK /\ TypeOK'
  BY NextType DEF IInv, Next, Inventory
<1>3. \A g \in DOMAIN found, h \in todo : g < h
  BY <1>1 DEF IInv, WalkInv
<1>4. /\ \A g \in DOMAIN found', h \in todo' : g < h
      /\ \A g \in DOMAIN found : g # f
      /\ repo = start /\ Gathered(File \ todo) => Gathered(File \ todo)'
  BY <1>1, <1>2, <1>3, ExamineGathers
<1>5. WalkInv'
  BY <1>1, <1>4 DEF IInv, WalkInv
<1>6. InventoryInv'
  <2>1. ASSUME quiet, NEW g \in DOMAIN found',
               pc' = "record" \/ \E h \in DOMAIN found' : g < h
        PROVE  found'[g].sha = HashOf(start, g)
    <3>1. \A h \in DOMAIN found : found[h].sha = HashOf(start, h)
      BY <1>1, <2>1 DEF IInv, InventoryInv
    <3>2. CASE ~Present(f)
      BY <1>1, <1>2, <3>1, <3>2, ExamineFacts
    <3>3. CASE Present(f)
      <4>1. /\ DOMAIN found' = DOMAIN found \cup {f} /\ f \in todo
            /\ \A h \in DOMAIN found : found'[h] = found[h]
        BY <1>1, <1>2, <1>4, <3>3, ExamineFacts
      <4>2. g # f
        <5>1. \A h \in DOMAIN found : h < f
          BY <1>3, <4>1
        <5>2. f \in Int /\ DOMAIN found \subseteq Int
          BY <1>2, FileAssumption DEF TypeOK, IsTable
        <5>3. pc' # "record"
          BY <1>1, <3>3
        <5> QED
          BY <2>1, <4>1, <5>1, <5>2, <5>3
      <4> QED
        BY <3>1, <4>1, <4>2
    <3> QED
      BY <3>2, <3>3
  <2> QED
    BY <1>1, <2>1 DEF IInv, InventoryInv, HashOf
<1>7. BaselineInv'
  BY <1>1, BaselineStays DEF IInv
<1> QED
  BY <1>1, <1>2, <1>5, <1>6, <1>7 DEF IInv, CompareInv, JudgeInv

LEMMA HashRecordInv == ASSUME IInv, NEW f \in File, HashRecord(f) PROVE IInv'
<1>1. /\ pc = "hash" /\ pc' = "record"
      /\ UNCHANGED <<repo, saved, todo, git, start, quiet, baseline>>
  BY DEF HashRecord, history, baseline
<1>2. TypeOK /\ TypeOK'
  BY NextType DEF IInv, Next, Inventory
<1>3. /\ f \in DOMAIN found /\ \A g \in DOMAIN found : g <= f
      /\ DOMAIN found' = DOMAIN found
      /\ \A g \in DOMAIN found : found'[g].size = found[g].size
      /\ found'[f].sha = IF Readable(f) THEN repo.file[f].data ELSE NoHash
      /\ \A g \in DOMAIN found : g # f => found'[g] = found[g]
  BY <1>2, HashRecordFacts
<1>4. WalkInv'
  BY <1>1, <1>3 DEF IInv, WalkInv, Gathered, Shown
<1>5. InventoryInv'
  <2>1. ASSUME quiet, NEW g \in DOMAIN found PROVE found'[g].sha = HashOf(start, g)
    <3>1. CASE g = f
      <4>1. repo = start /\ Shown(start, f)
        BY <1>1, <1>3, <2>1 DEF IInv, WalkInv, Gathered
      <4> QED
        BY <1>3, <3>1, <4>1 DEF HashOf, Readable, Present
    <3>2. CASE g # f
      <4>1. DOMAIN found \subseteq Int
        BY <1>2, FileAssumption DEF TypeOK, IsTable
      <4>2. g < f
        BY <1>3, <3>2, <4>1
      <4> QED
        BY <1>1, <1>3, <2>1, <3>2, <4>2 DEF IInv, InventoryInv
    <3> QED
      BY <3>1, <3>2
  <2> QED
    BY <1>1, <1>3, <2>1 DEF IInv, InventoryInv, HashOf
<1>6. BaselineInv'
  BY <1>1, BaselineStays DEF IInv
<1> QED
  BY <1>1, <1>2, <1>4, <1>5, <1>6 DEF IInv, CompareInv, JudgeInv

LEMMA SaveRowsInv == IInv /\ SaveRows => IInv'
<1> SUFFICES ASSUME IInv, SaveRows PROVE IInv'
  OBVIOUS
<1>1. /\ pc = "record" /\ todo = {} /\ rows' = found
      /\ base' = start /\ baseQuiet' = quiet /\ complete' = FALSE /\ pc' = "saveVcs"
      /\ UNCHANGED <<repo, git, start, quiet>>
  BY DEF SaveRows
<1>2. TypeOK'
  BY NextType DEF IInv, Next, Inventory
<1>3. quiet => Records(found, start)
  BY <1>1 DEF IInv, WalkInv, InventoryInv, Gathered, Records
<1>4. WalkInv'
  BY <1>1 DEF IInv, WalkInv
<1>5. InventoryInv'
  BY <1>1, <1>3 DEF IInv, InventoryInv, Records, HashOf, Shown
<1> QED
  BY <1>1, <1>2, <1>4, <1>5 DEF IInv, BaselineInv, CompareInv, JudgeInv

LEMMA SaveVcsInv == IInv /\ SaveVcs => IInv'
<1> SUFFICES ASSUME IInv, SaveVcs PROVE IInv'
  OBVIOUS
<1>1. /\ pc = "saveVcs" /\ pc' = "idle" /\ quiet' = FALSE
      /\ vcsFile' = "whole" /\ vcsSaved' = git /\ UNCHANGED <<rows, base, baseQuiet>>
  BY DEF SaveVcs, End
<1>2. TypeOK'
  BY NextType DEF IInv, Next, Inventory
<1>3. git \in {base.vcs, NoGit} /\ (baseQuiet => Records(rows, base))
  BY <1>1 DEF IInv, InventoryInv
<1>4. BaselineInv'
  BY <1>1, <1>3 DEF BaselineInv, Records, HashOf, Shown
<1> QED
  BY <1>1, <1>2, <1>4, EndsClean

\* A killed inventory leaves no baseline that counts as whole.
LEMMA KilledWritingInv == IInv /\ (KilledInRows \/ KilledInVcs) => IInv'
<1> SUFFICES ASSUME IInv, KilledInRows \/ KilledInVcs PROVE IInv'
  OBVIOUS
<1>1. TypeOK'
  BY NextType DEF IInv, Next, Inventory
<1>2. complete' = FALSE
  BY DEF IInv, TypeOK, InventoryInv, KilledInRows, KilledInVcs, baseline
<1>3. pc' = "idle" /\ quiet' = FALSE
  BY DEF KilledInRows, KilledInVcs, End
<1> QED
  BY <1>1, <1>2, <1>3, EndsClean DEF BaselineInv

LEMMA EndInv == IInv /\ (EndVerify \/ VerifyFails \/ Killed) => IInv'
<1> SUFFICES ASSUME IInv, EndVerify \/ VerifyFails \/ Killed PROVE IInv'
  OBVIOUS
<1>1. TypeOK'
  BY NextType DEF IInv, Next, Verify
<1>2. pc' = "idle" /\ quiet' = FALSE /\ UNCHANGED <<saved, baseline>>
  BY DEF EndVerify, VerifyFails, Killed, End
<1>3. BaselineInv'
  BY <1>2, BaselineStays DEF IInv
<1> QED
  BY <1>1, <1>2, <1>3, EndsClean
-----------------------------------------------------------------------------
LEMMA StartVerifyInv == IInv /\ StartVerify => IInv'
<1> SUFFICES ASSUME IInv, StartVerify PROVE IInv'
  OBVIOUS
<1>1. pc = "idle" /\ UNCHANGED <<repo, saved, git, baseline>>
  BY DEF StartVerify
<1>2. TypeOK' /\ BaselineInv'
  BY <1>1, NextType, BaselineStays DEF IInv, Next, Verify
<1>3. CASE pc' = "walk"
  <2>1. todo' = File /\ found' = NoRows /\ start' = repo
    BY <1>1, <1>3 DEF StartVerify
  <2>2. WalkInv'
    BY <1>1, <2>1, StartGathers DEF WalkInv
  <2> QED
    BY <1>2, <1>3, <2>2 DEF IInv, InventoryInv, CompareInv, JudgeInv
<1>4. CASE UNCHANGED <<pc, start, quiet>>
  BY <1>1, <1>2, <1>4 DEF IInv, WalkInv, InventoryInv, CompareInv, JudgeInv
<1> QED
  BY <1>3, <1>4 DEF StartVerify

LEMMA WalkKeepsInv == ASSUME IInv, NEW f \in File, Walk(f) PROVE IInv'
<1>1. /\ pc = "walk" /\ pc' = "walk" /\ Examine(f)
      /\ UNCHANGED <<repo, saved, start, quiet, baseline>>
  BY DEF Walk, history, baseline
<1>2. TypeOK /\ TypeOK' /\ BaselineInv'
  BY <1>1, NextType, BaselineStays DEF IInv, Next, Verify
<1>3. \A g \in DOMAIN found, h \in todo : g < h
  BY <1>1 DEF IInv, WalkInv
<1>4. WalkInv'
  BY <1>1, <1>2, <1>3, ExamineGathers DEF IInv, WalkInv
<1> QED
  BY <1>1, <1>2, <1>4 DEF IInv, InventoryInv, CompareInv, JudgeInv

LEMMA AddedRemovedInv == IInv /\ AddedRemoved => IInv'
<1> SUFFICES ASSUME IInv, AddedRemoved PROVE IInv'
  OBVIOUS
<1>1. /\ pc = "walk" /\ todo = {} /\ pc' = "compare"
      /\ mutated' = (DOMAIN rows # DOMAIN found)
      /\ todo' = DOMAIN rows \cap DOMAIN found
      /\ UNCHANGED <<repo, saved, found, start, quiet, baseline>>
  BY DEF AddedRemoved, history, baseline
<1>2. TypeOK' /\ BaselineInv'
  BY <1>1, NextType, BaselineStays DEF IInv, Next, Verify
<1>3. WalkInv'
  BY <1>1 DEF IInv, WalkInv
<1>4. quiet => Gathered(File)
  BY <1>1 DEF IInv, WalkInv
<1>5. Comparable /\ start = base => DOMAIN rows = DOMAIN found
  BY <1>4 DEF IInv, BaselineInv, Comparable, Gathered, Records
<1>6. CompareInv'
  <2>1. todo' \subseteq DOMAIN rows' \cap DOMAIN found'
    BY <1>1 DEF saved
  <2>2. (quiet => Gathered(File))'
    BY <1>1, <1>4 DEF Gathered, Shown
  <2>3. ~mutated' => DOMAIN rows' = DOMAIN found' /\ DOMAIN rows' \ todo' = {}
    BY <1>1 DEF saved
  <2>4. (Comparable /\ start = base => ~mutated)'
    BY <1>1, <1>5 DEF Comparable, saved, baseline
  <2> QED
    BY <2>1, <2>2, <2>3, <2>4 DEF CompareInv
<1> QED
  BY <1>1, <1>2, <1>3, <1>6 DEF IInv, InventoryInv, JudgeInv

\* A file that is compared and does not deviate matches; one that deviates, when both
\* samples saw one repository, is empty.
LEMMA ComparedFile ==
  ASSUME IInv, pc = "compare", quiet, NEW f \in todo
  PROVE  /\ ~Deviates(f) => Matches(f)
         /\ Comparable /\ start = base /\ Deviates(f) => EmptyFile(base)
<1>1. /\ repo = start /\ f \in DOMAIN rows /\ f \in DOMAIN found /\ f \in File
      /\ Shown(start, f) /\ found[f].size = SizeOf[start.file[f].data]
  BY DEF IInv, TypeOK, IsTable, WalkInv, CompareInv, Gathered
<1>2. SizeOf[start.file[f].data] \in Nat
  BY <1>1, ShownFacts DEF IInv, TypeOK
<1>3. Readable(f) <=> start.file[f].access = "open"
  BY <1>1 DEF Readable, Present
<1>4. ~Deviates(f) => Matches(f)
  BY <1>1, <1>2, <1>3 DEF Deviates, SizeChanged, HashChanged, Matches, Data
<1>5. ASSUME Comparable, start = base, Deviates(f) PROVE EmptyFile(base)
  <2>1. rows[f].size = SizeOf[base.file[f].data] /\ rows[f].sha = HashOf(base, f)
    BY <1>1, <1>5 DEF IInv, BaselineInv, Comparable, Records
  <2>2. rows[f].sha # NoHash
    BY <1>5 DEF Deviates
  <2>3. ~HashChanged(f)
    BY <1>1, <1>5, <2>1, <2>2 DEF HashChanged, HashOf, Data
  <2>4. SizeOf[base.file[f].data] = 0
    BY <1>1, <1>5, <2>1, <2>3 DEF Deviates, SizeChanged
  <2> QED
    BY <1>1, <1>5, <2>4 DEF EmptyFile
<1> QED
  BY <1>4, <1>5

LEMMA CompareKeepsInv == ASSUME IInv, NEW f \in File, Compare(f) PROVE IInv'
<1>1. /\ pc = "compare" /\ pc' = "compare" /\ f \in todo /\ todo' = todo \ {f}
      /\ mutated' = (mutated \/ Deviates(f))
      /\ UNCHANGED <<repo, saved, found, start, quiet, baseline>>
  BY DEF Compare, NextFile, history, baseline
<1>2. TypeOK' /\ BaselineInv'
  BY <1>1, NextType, BaselineStays DEF IInv, Next, Verify
<1>3. WalkInv'
  BY <1>1 DEF IInv, WalkInv
<1>4. CompareInv'
  <2>1. (todo \subseteq DOMAIN rows \cap DOMAIN found)'
    BY <1>1 DEF IInv, CompareInv, saved
  <2>2. (quiet => Gathered(File))'
    BY <1>1 DEF IInv, CompareInv, Gathered, Shown
  <2>3. (~mutated => DOMAIN rows = DOMAIN found)'
    BY <1>1 DEF IInv, CompareInv, saved
  <2>4. (quiet /\ ~mutated => \A g \in DOMAIN rows \ todo : Matches(g))'
    <3>1. ASSUME quiet, ~mutated' PROVE \A g \in DOMAIN rows \ todo' : Matches(g)
      BY <1>1, <3>1, ComparedFile DEF IInv, CompareInv
    <3> QED
      BY <1>1, <3>1 DEF saved, Matches
  <2>5. (Comparable /\ start = base /\ mutated => EmptyFile(base))'
    <3>1. ASSUME Comparable, start = base, mutated' PROVE EmptyFile(base)
      BY <1>1, <3>1, ComparedFile DEF IInv, CompareInv, Comparable
    <3> QED
      BY <1>1, <3>1 DEF Comparable, baseline, EmptyFile, Shown
  <2> QED
    BY <2>1, <2>2, <2>3, <2>4, <2>5 DEF CompareInv
<1> QED
  BY <1>1, <1>2, <1>3, <1>4 DEF IInv, InventoryInv, JudgeInv

LEMMA JudgeKeepsInv == IInv /\ Judge => IInv'
<1> SUFFICES ASSUME IInv, Judge PROVE IInv'
  OBVIOUS
<1>1. /\ pc = "compare" /\ pc' = "judged" /\ todo = {} /\ git' \in {repo.vcs, NoGit}
      /\ verdict' = IF mutated \/ vcsFile = "absent" \/ vcsSaved # git' THEN "FAIL" ELSE "PASS"
      /\ UNCHANGED <<repo, saved, todo, found, mutated, start, quiet, baseline>>
  BY DEF Judge, Collect, history, baseline
<1>2. TypeOK' /\ BaselineInv'
  BY <1>1, NextType, BaselineStays DEF IInv, Next, Verify
<1>3. WalkInv'
  BY <1>1 DEF IInv, WalkInv
<1>4. CompareInv'
  BY <1>1 DEF IInv, CompareInv, Comparable, Gathered, Matches, EmptyFile, Shown, saved, baseline
<1>5. JudgeInv'
  <2>1. quiet => repo.vcs = start.vcs
    BY DEF IInv, WalkInv
  <2> QED
    BY <1>1, <2>1 DEF JudgeInv, saved
<1> QED
  BY <1>1, <1>2, <1>3, <1>4, <1>5 DEF IInv, InventoryInv

LEMMA Invariant == Spec => []IInv
<1>1. IInv /\ [Next]_vars => IInv'
  <2> SUFFICES ASSUME IInv, [Next]_vars PROVE IInv'
    OBVIOUS
  <2>1. CASE UNCHANGED vars
    <3>1. TypeOK'
      BY <2>1, NextType DEF IInv
    <3>2. BaselineInv'
      BY <2>1, BaselineStays DEF IInv, vars, saved, baseline
    <3>3. WalkInv' /\ InventoryInv'
      BY <2>1 DEF IInv, vars, WalkInv, InventoryInv, Gathered, Records, HashOf, Shown
    <3>4. CompareInv'
      BY <2>1 DEF IInv, vars, CompareInv, Comparable, Gathered, Matches, EmptyFile, Shown
    <3>5. JudgeInv'
      BY <2>1 DEF IInv, vars, JudgeInv
    <3> QED
      BY <3>1, <3>2, <3>3, <3>4, <3>5 DEF IInv
  <2>2. CASE Change \/ Killed
    BY <2>2, ChangeInv, EndInv
  <2>3. CASE Inventory
    BY <2>3, StartInventoryInv, ExamineForRecordInv, HashRecordInv, SaveRowsInv, SaveVcsInv,
       KilledWritingInv
    DEF Inventory
  <2>4. CASE Verify
    BY <2>4, StartVerifyInv, WalkKeepsInv, CompareKeepsInv, AddedRemovedInv, JudgeKeepsInv, EndInv
    DEF Verify
  <2> QED
    BY <2>1, <2>2, <2>3, <2>4 DEF Next
<1> QED
  BY <1>1, InitInv, PTL DEF Spec
-----------------------------------------------------------------------------
\* Whatever a killed inventory left, PASS means that the files shown are exactly those
\* that the baseline lists.
THEOREM PassCoversBaseline == Spec => []PassCovers
<1>1. IInv => PassCovers
  BY DEF IInv, CompareInv, JudgeInv, Gathered, PassCovers, Judged
<1> QED
  BY <1>1, Invariant, PTL

\* PASS finds every change between two undisturbed samples.
THEOREM ChangesDetected == Spec => []DetectsChange
<1>1. IInv => DetectsChange
  <2> SUFFICES ASSUME IInv, Judged("PASS"), Comparable
               PROVE  /\ git # NoGit => start.vcs = base.vcs
                      /\ \A f \in File :
                           /\ Shown(base, f) = Shown(start, f)
                           /\ Shown(start, f) /\ base.file[f].access = "open" =>
                                /\ SizeOf[start.file[f].data] = SizeOf[base.file[f].data]
                                /\ start.file[f].access = "open" => start.file[f] = base.file[f]
    BY DEF DetectsChange
  <2>1. /\ quiet /\ ~mutated /\ todo = {} /\ vcsSaved = git /\ git \in {start.vcs, NoGit}
        /\ vcsSaved \in {base.vcs, NoGit} /\ Records(rows, base) /\ Gathered(File)
        /\ DOMAIN rows = DOMAIN found /\ \A f \in DOMAIN rows : Matches(f)
    BY DEF IInv, JudgeInv, CompareInv, BaselineInv, Judged, Comparable
  <2>2. git # NoGit => start.vcs = base.vcs
    BY <2>1
  <2>3. ASSUME NEW f \in File
        PROVE  /\ Shown(base, f) = Shown(start, f)
               /\ Shown(start, f) /\ base.file[f].access = "open" =>
                    /\ SizeOf[start.file[f].data] = SizeOf[base.file[f].data]
                    /\ start.file[f].access = "open" => start.file[f] = base.file[f]
    <3>1. Shown(base, f) <=> Shown(start, f)
      BY <2>1 DEF Records, Gathered
    <3>2. ASSUME Shown(start, f), base.file[f].access = "open"
          PROVE  /\ SizeOf[start.file[f].data] = SizeOf[base.file[f].data]
                 /\ start.file[f].access = "open" => start.file[f] = base.file[f]
      <4>1. /\ start.file[f] \in [data : Contents, access : Access]
            /\ base.file[f] \in [data : Contents, access : Access]
            /\ base.file[f].data \in Contents
        BY <3>1, <3>2, ShownFacts DEF IInv, TypeOK
      <4>2. /\ rows[f].size = SizeOf[base.file[f].data] /\ rows[f].sha = base.file[f].data
            /\ found[f].size = SizeOf[start.file[f].data] /\ f \in DOMAIN rows
        BY <2>1, <3>1, <3>2 DEF Records, Gathered, HashOf
      <4>3. rows[f].sha # NoHash
        BY <4>1, <4>2, ContentsAssumption
      <4>4. /\ found[f].size = rows[f].size
            /\ start.file[f].access = "open" => start.file[f].data = rows[f].sha
        BY <2>1, <4>2, <4>3 DEF Matches
      <4> QED
        BY <3>2, <4>1, <4>2, <4>4
    <3> QED
      BY <3>1, <3>2 DEF Shown
  <2> QED
    BY <2>2, <2>3
<1> QED
  BY <1>1, Invariant, PTL

\* With nothing changed, and git answering alike, FAIL means that the repository holds
\* an empty file.
THEOREM FalseAlarmsAreEmptyFiles == Spec => []FalseAlarmIsEmptyFile
<1>1. IInv => FalseAlarmIsEmptyFile
  <2> SUFFICES ASSUME IInv, SameSample, Judged("FAIL") PROVE EmptyFile(base)
    BY DEF FalseAlarmIsEmptyFile, EmptyFile
  <2>1. /\ Comparable /\ start = base /\ (git = NoGit) = (vcsSaved = NoGit)
        /\ git \in {start.vcs, NoGit} /\ vcsSaved \in {base.vcs, NoGit} /\ vcsFile = "whole"
        /\ mutated \/ vcsFile = "absent" \/ vcsSaved # git
    BY DEF IInv, JudgeInv, BaselineInv, SameSample, Judged, Comparable
  <2>2. mutated
    BY <2>1
  <2> QED
    BY <2>1, <2>2 DEF IInv, CompareInv, Judged
<1> QED
  BY <1>1, Invariant, PTL
=============================================================================
