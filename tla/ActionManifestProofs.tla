------------------------ MODULE ActionManifestProofs ------------------------
(***************************************************************************)
(* Theorems about ActionManifest, for any set of invocations and batches.  *)
(*                                                                         *)
(*   TypeCorrect, BatchesAtomic: in every mode of use.                     *)
(*   NumbersIncrease, NumbersCovered, Acknowledged: when commands are run  *)
(*   one after another and `init` is not run over an existing manifest.    *)
(*   ImplementsLedger: then every step is one of the ledger or leaves it   *)
(*   alone.                                                                *)
(***************************************************************************)
EXTENDS ActionManifest, TLAPS

Busy == {"reserve", "reserving", "recording"}

\* TypeOK is inductive with what the batch loop knows of its own place in it.
TypeInv ==
  /\ TypeOK
  /\ \A p \in Invocation :
       /\ pc[p] \in {"new", "load", "read"} => done[p] = 0
       /\ pc[p] = "reserving" => done[p] < Len(batch[p])
       /\ pc[p] = "recording" => done[p] = Len(batch[p])

\* The last number an invocation has used for a record in its memory.
LastUsed(p) == IF pc[p] = "reserving" THEN seq[p] - 1 ELSE seq[p]

\* The records an invocation has made so far end its copy of the manifest.
OwnTail(p) ==
  /\ done[p] <= Len(mem[p])
  /\ \A m \in 1..done[p] :
       /\ batch[p][m]
       /\ Stands(mem[p], Len(mem[p]) - done[p] + m, p, m)
       /\ mem[p][Len(mem[p]) - done[p] + m].seq = LastUsed(p) - done[p] + m

\* An entry made by an invocation that has ended well, its batch around it.
Settled(list, i) == WholeBatchAt(list, i) /\ pc[list[i].by] = "done"

BatchInv ==
  /\ TypeInv
  /\ \A i \in 1..Len(actions) : Settled(actions, i)
  /\ \A p \in Invocation : pc[p] \in Busy =>
       /\ OwnTail(p)
       /\ \A i \in 1..(Len(mem[p]) - done[p]) : Settled(mem[p], i)

Sequential == Exclusive /\ ~InitAgain

\* The memory of the one running command holds the whole manifest first.
Extends(list, old) ==
  /\ Len(old) <= Len(list)
  /\ \A i \in 1..Len(old) : list[i] = old[i]

\* What the one running invocation knows of the files and of its memory.
Knows(p) ==
  /\ pc[p] \in InitPc => actions = <<>>
  /\ pc[p] \in {"initStateWrite", "reserving"} => stateFile = "torn"
  /\ pc[p] \in {"initWrite", "recording"} => manifestFile = "torn"
  /\ pc[p] = "initOpen" => manifestFile = "absent"
  /\ pc[p] \in {"reserve", "reserving"} => manifestFile # "torn"
  /\ pc[p] \in {"read", "reserve", "recording"} =>
       stateFile = "whole" /\ seq[p] = stateSeq
  /\ pc[p] = "reserving" => seq[p] = stateSeq + 1
  /\ pc[p] \in Busy =>
       /\ Extends(mem[p], actions)
       /\ Increasing(mem[p])
       /\ Bounded(mem[p], LastUsed(p))

\* The last complete manifest holds every acknowledged record.
AckKept ==
  \A p \in Invocation : pc[p] = "done" =>
    \A k \in 1..Len(batch[p]) : \E i \in 1..Len(actions) : Stands(actions, i, p, k)

FilesAgree ==
  /\ Increasing(actions)
  /\ StateCovers
  /\ AckKept
  /\ manifestFile = "absent" => actions = <<>>

SeqInv ==
  /\ BatchInv
  /\ FilesAgree
  /\ \A p, q \in Invocation : Running(p) /\ Running(q) => p = q
  /\ \A p \in Invocation : pc[p] \in {"new"} \cup InitPc => batch[p] = <<>>
  /\ \A p \in Invocation : Knows(p)

\* A torn manifest is the work of a command that is writing it or that was killed.
Tearing(q) ==
  pc[q] \in {"initWrite", "recording", "crashed"} /\ done[q] = Len(batch[q])
TornInv == manifestFile = "torn" => \E q \in Invocation : Tearing(q)
-----------------------------------------------------------------------------
\* A record made by an invocation belongs to it and carries its number.
LEMMA NewRecordType ==
  ASSUME TypeOK, NEW p \in Invocation
  PROVE  NewRecord(p) \in Record
  BY DEF TypeOK, NewRecord, Record

\* The invariant behind the next theorem.
LEMMA TypeInvariant == Spec => []TypeInv
<1>1. Init => TypeInv
  BY DEF Init, TypeInv, TypeOK, FileStatus
<1>2. TypeInv /\ [Next]_vars => TypeInv'
  <2> SUFFICES ASSUME TypeInv, [Next]_vars PROVE TypeInv'
    OBVIOUS
  <2> USE DEF TypeInv, TypeOK, FileStatus, RunningPc, InitPc, LogPc, EndedPc, GoTo,
              files, locals
  <2>1. ASSUME NEW p \in Invocation, StartInit(p) PROVE TypeInv'
    BY <2>1 DEF StartInit, MayStart
  <2>2. ASSUME NEW p \in Invocation, NEW b \in Batches, StartLog(p, b) PROVE TypeInv'
    BY <2>2, BatchesAssumption DEF StartLog, MayStart
  <2>3. ASSUME NEW p \in Invocation, InitRefuse(p) PROVE TypeInv'
    BY <2>3 DEF InitRefuse
  <2>4. ASSUME NEW p \in Invocation, InitOpenState(p) PROVE TypeInv'
    BY <2>4 DEF InitOpenState, OpenState
  <2>5. ASSUME NEW p \in Invocation, InitWriteState(p) PROVE TypeInv'
    BY <2>5 DEF InitWriteState, WriteState
  <2>6. ASSUME NEW p \in Invocation, InitCheckManifest(p) PROVE TypeInv'
    BY <2>6 DEF InitCheckManifest
  <2>7. ASSUME NEW p \in Invocation, InitOpenManifest(p) PROVE TypeInv'
    BY <2>7 DEF InitOpenManifest, OpenManifest
  <2>8. ASSUME NEW p \in Invocation, InitWriteManifest(p) PROVE TypeInv'
    <3>1. <<>> \in Seq(Record)
      OBVIOUS
    <3> QED
      BY <2>8, <3>1 DEF InitWriteManifest, WriteManifest
  <2>9. ASSUME NEW p \in Invocation, Load(p) PROVE TypeInv'
    BY <2>9 DEF Load
  <2>10. ASSUME NEW p \in Invocation, GiveUp(p) PROVE TypeInv'
    BY <2>10 DEF GiveUp
  <2>11. ASSUME NEW p \in Invocation, ReadManifest(p) PROVE TypeInv'
    BY <2>11 DEF ReadManifest
  <2>12. ASSUME NEW p \in Invocation, OpenForNumber(p) PROVE TypeInv'
    BY <2>12 DEF OpenForNumber, OpenState
  <2>13. ASSUME NEW p \in Invocation, TakeNumber(p) PROVE TypeInv'
    <3>1. mem' \in [Invocation -> Seq(Record)]
      <4>1. Append(mem[p], NewRecord(p)) \in Seq(Record)
        BY NewRecordType
      <4> QED
        BY <2>13, <4>1 DEF TakeNumber
    <3>2. stateFile' \in FileStatus /\ stateSeq' \in Nat
      BY <2>13 DEF TakeNumber, WriteState
    <3>3. /\ done' \in [Invocation -> Nat]
          /\ \A q \in Invocation : done'[q] <= Len(batch'[q])
      <4>1. done' = done \/ done' = [done EXCEPT ![p] = @ + 1]
        BY <2>13 DEF TakeNumber
      <4>2. batch' = batch /\ done[p] < Len(batch[p])
        BY <2>13 DEF TakeNumber
      <4>3. CASE done' = done
        BY <4>2, <4>3
      <4>4. CASE done' = [done EXCEPT ![p] = @ + 1]
        <5>1. done' \in [Invocation -> Nat]
          BY <4>4
        <5>2. \A q \in Invocation : Len(batch[q]) \in Nat
          OBVIOUS
        <5> QED
          BY <4>2, <4>4, <5>1, <5>2
      <4> QED
        BY <4>1, <4>3, <4>4
    <3>4. pc' \in [Invocation -> {"new"} \cup RunningPc \cup EndedPc]
      BY <2>13 DEF TakeNumber
    <3>5. pc[p] = "reserving" /\ pc'[p] \in {"reserve", "failed"}
      BY <2>13 DEF TakeNumber
    <3>6. \A q \in Invocation \ {p} : pc'[q] = pc[q] /\ done'[q] = done[q]
      BY <2>13 DEF TakeNumber
    <3>7. UNCHANGED <<manifestFile, actions, batch, seq>>
      BY <2>13 DEF TakeNumber
    <3> QED
      BY <3>1, <3>2, <3>3, <3>4, <3>5, <3>6, <3>7
  <2>14. ASSUME NEW p \in Invocation, OpenForBatch(p) PROVE TypeInv'
    BY <2>14 DEF OpenForBatch, OpenManifest
  <2>15. ASSUME NEW p \in Invocation, RecordBatch(p) PROVE TypeInv'
    BY <2>15 DEF RecordBatch, WriteManifest
  <2>16. ASSUME NEW p \in Invocation, Crash(p) PROVE TypeInv'
    BY <2>16 DEF Crash, Running
  <2>17. CASE UNCHANGED vars
    BY <2>17 DEF vars
  <2> QED
    BY <2>1, <2>2, <2>3, <2>4, <2>5, <2>6, <2>7, <2>8, <2>9, <2>10, <2>11, <2>12, <2>13, <2>14, <2>15, <2>16, <2>17 DEF Next, Start, InitStep, LogStep
<1> QED
  BY <1>1, <1>2, PTL DEF Spec

\* In every mode, whatever overlaps, the variables keep their ranges and no
\* command makes more records than it was asked to make.
THEOREM TypeCorrect == Spec => []TypeOK
<1>1. TypeInv => TypeOK
  BY DEF TypeInv
<1> QED
  BY <1>1, TypeInvariant, PTL
-----------------------------------------------------------------------------
\* An entry of a list of records is a record.
LEMMA EntryType ==
  ASSUME NEW list \in Seq(Record), NEW i \in 1..Len(list)
  PROVE  /\ list[i] \in Record
         /\ list[i].seq \in Nat /\ list[i].by \in Invocation /\ list[i].nth \in Nat
<1>1. list[i] \in Record
  OBVIOUS
<1> QED
  BY <1>1 DEF Record

\* A step that touches neither the manifest nor a command's copy of it, and
\* lets no ended command start again, keeps every batch whole.
LEMMA BatchFrame ==
  ASSUME BatchInv, TypeInv',
         UNCHANGED <<actions, mem, done>>,
         \A q \in Invocation : pc[q] # "new" => batch'[q] = batch[q],
         \A q \in Invocation : pc[q] = "done" => pc'[q] = "done",
         \A q \in Invocation : pc'[q] \in Busy =>
            pc[q] \in Busy /\ LastUsed(q)' = LastUsed(q)
  PROVE  BatchInv'
<1> USE DEF BatchInv, TypeInv, TypeOK
<1>1. ASSUME NEW i \in 1..Len(actions) PROVE Settled(actions, i)'
  <2>1. Settled(actions, i) /\ actions[i].by \in Invocation
    BY EntryType
  <2>2. batch'[actions[i].by] = batch[actions[i].by]
    BY <2>1 DEF Settled
  <2> QED
    BY <2>1, <2>2 DEF Settled, WholeBatchAt, Stands
<1>2. ASSUME NEW q \in Invocation, pc'[q] \in Busy PROVE OwnTail(q)'
  <2>1. pc[q] \in Busy /\ OwnTail(q) /\ batch'[q] = batch[q]
    BY <1>2 DEF Busy
  <2> QED
    BY <1>2, <2>1 DEF OwnTail, Stands
<1>3. ASSUME NEW q \in Invocation, pc'[q] \in Busy,
             NEW i \in 1..(Len(mem[q]) - done[q])
      PROVE Settled(mem[q], i)'
  <2>1. pc[q] \in Busy /\ OwnTail(q)
    BY <1>3
  <2>2. i \in 1..Len(mem[q])
    BY <2>1 DEF OwnTail
  <2>3. Settled(mem[q], i) /\ mem[q][i].by \in Invocation
    BY <1>3, <2>1, <2>2, EntryType
  <2>4. batch'[mem[q][i].by] = batch[mem[q][i].by]
    BY <2>3 DEF Settled
  <2> QED
    BY <2>3, <2>4 DEF Settled, WholeBatchAt, Stands
<1> QED
  BY <1>1, <1>2, <1>3
-----------------------------------------------------------------------------
\* The record an invocation adds to its copy continues its own batch.
LEMMA TakeNumberKeepsBatches ==
  ASSUME BatchInv, TypeInv', NEW p \in Invocation, TakeNumber(p)
  PROVE  BatchInv'
<1>0. /\ actions \in Seq(Record)
      /\ batch \in [Invocation -> Seq(BOOLEAN)]
      /\ seq \in [Invocation -> Nat]
      /\ mem \in [Invocation -> Seq(Record)]
      /\ done \in [Invocation -> Nat]
      /\ pc \in [Invocation -> {"new"} \cup RunningPc \cup EndedPc]
      /\ done[p] < Len(batch[p])
      /\ \A i \in 1..Len(actions) : Settled(actions, i)
      /\ \A q \in Invocation : pc[q] \in Busy =>
            /\ OwnTail(q)
            /\ \A i \in 1..(Len(mem[q]) - done[q]) : Settled(mem[q], i)
  BY DEF BatchInv, TypeInv, TypeOK, TakeNumber
<1>1. /\ pc[p] = "reserving" /\ p \in Invocation
      /\ actions' = actions /\ batch' = batch /\ seq' = seq
      /\ \A q \in Invocation \ {p} : pc'[q] = pc[q]
  BY <1>0 DEF TakeNumber, GoTo
<1>2. CASE ~batch[p][done[p] + 1]
  <2>1. UNCHANGED <<mem, done>> /\ pc' = [pc EXCEPT ![p] = "failed"]
    BY <1>2 DEF TakeNumber, GoTo
  <2>2. \A q \in Invocation : pc[q] = "done" => pc'[q] = "done"
    BY <1>0, <1>1, <2>1
  <2>3. \A q \in Invocation : pc'[q] \in Busy =>
           pc[q] \in Busy /\ LastUsed(q)' = LastUsed(q)
    BY <1>0, <1>1, <2>1 DEF Busy, LastUsed
  <2> QED
    BY <1>1, <2>1, <2>2, <2>3, BatchFrame
<1>3. CASE batch[p][done[p] + 1]
  <2> DEFINE r == NewRecord(p)
  <2>1. /\ mem' = [mem EXCEPT ![p] = Append(@, r)]
        /\ done' = [done EXCEPT ![p] = @ + 1]
        /\ pc' = [pc EXCEPT ![p] = "reserve"]
    BY <1>3 DEF TakeNumber, GoTo
  <2>2. r \in Record /\ r.seq = seq[p] /\ r.by = p /\ r.nth = done[p] + 1
    BY <1>0, NewRecordType DEF NewRecord, BatchInv, TypeInv
  <2> HIDE DEF r
  <2>3. /\ mem[p] \in Seq(Record) /\ mem'[p] = Append(mem[p], r)
        /\ Len(mem'[p]) = Len(mem[p]) + 1
        /\ \A i \in 1..Len(mem[p]) : mem'[p][i] = mem[p][i]
        /\ mem'[p][Len(mem[p]) + 1] = r
    BY <1>0, <2>1, <2>2
  <2>4. done'[p] = done[p] + 1 /\ done[p] \in Nat /\ Len(mem[p]) \in Nat /\ seq[p] \in Nat
    BY <1>0, <2>1
  <2>5. OwnTail(p) /\ LastUsed(p) = seq[p] - 1 /\ LastUsed(p)' = seq[p]
    BY <1>0, <1>1, <2>1 DEF Busy, LastUsed
  <2>6. OwnTail(p)'
    <3>1. done'[p] <= Len(mem'[p])
      BY <2>3, <2>4, <2>5 DEF OwnTail
    <3>2. ASSUME NEW m \in 1..done'[p]
          PROVE /\ batch'[p][m]
                /\ Stands(mem[p], Len(mem[p]) - done[p] + m, p, m)'
                /\ mem'[p][Len(mem'[p]) - done'[p] + m].seq = LastUsed(p)' - done'[p] + m
      <4> DEFINE i == Len(mem[p]) - done[p] + m
      <4>1. Len(mem'[p]) - done'[p] + m = i /\ m \in Nat
        <5>1. m \in Nat
          BY <2>4
        <5> QED
          BY <2>3, <2>4, <5>1
      <4>2. CASE m \in 1..done[p]
        <5>1. /\ batch[p][m] /\ i \in 1..Len(mem[p])
              /\ mem[p][i].by = p /\ mem[p][i].nth = m
              /\ mem[p][i].seq = (seq[p] - 1) - done[p] + m
          BY <2>5, <4>2 DEF OwnTail, Stands
        <5>2. mem'[p][i] = mem[p][i]
          BY <2>3, <5>1
        <5>3. i \in 1..Len(mem'[p])
          BY <2>3, <2>4, <5>1
        <5>4. (seq[p] - 1) - done[p] + m = seq[p] - done'[p] + m
          <6>1. \A a, b, c \in Nat : (a - 1) - b + c = a - (b + 1) + c
            OBVIOUS
          <6>2. m \in Nat
            BY <4>1
          <6>3. (seq[p] - 1) - done[p] + m = seq[p] - (done[p] + 1) + m
            BY <2>4, <6>1, <6>2
          <6> QED
            BY <2>4, <6>3
        <5> QED
          BY <1>1, <2>5, <4>1, <5>1, <5>2, <5>3, <5>4 DEF Stands
      <4>3. CASE m = done[p] + 1
        <5>1. i = Len(mem[p]) + 1
          BY <2>4, <4>3
        <5>2. mem'[p][i] = r /\ i \in 1..Len(mem'[p])
          BY <2>3, <2>4, <5>1
        <5>3. seq[p] = seq[p] - done'[p] + m
          BY <2>4, <4>3
        <5> QED
          BY <1>1, <1>3, <2>2, <2>5, <4>1, <4>3, <5>2, <5>3 DEF Stands
      <4> QED
        BY <2>4, <4>2, <4>3
    <3> QED
      BY <3>1, <3>2 DEF OwnTail
  <2>7. ASSUME NEW i \in 1..(Len(mem[p]) - done[p]) PROVE Settled(mem[p], i)'
    <3>1. Settled(mem[p], i) /\ i \in 1..Len(mem[p])
      BY <1>0, <1>1, <2>4, <2>5 DEF Busy, OwnTail
    <3>2. mem'[p][i] = mem[p][i] /\ mem[p][i].by # p /\ mem[p][i].by \in Invocation
      BY <1>0, <1>1, <2>3, <3>1, EntryType DEF Settled
    <3>3. WholeBatchAt(mem[p], i)'
      BY <1>1, <2>3, <3>1, <3>2 DEF Settled, WholeBatchAt, Stands
    <3> QED
      BY <1>1, <3>1, <3>2, <3>3 DEF Settled
  <2>8. Len(mem'[p]) - done'[p] = Len(mem[p]) - done[p]
    <3>1. \A a, b \in Nat : (a + 1) - (b + 1) = a - b
      OBVIOUS
    <3> QED
      BY <2>3, <2>4, <3>1
  <2>9. ASSUME NEW q \in Invocation \ {p}, pc'[q] \in Busy
        PROVE /\ OwnTail(q)'
              /\ \A i \in 1..(Len(mem'[q]) - done'[q]) : Settled(mem[q], i)'
    <3>1. pc'[q] = pc[q] /\ mem'[q] = mem[q] /\ done'[q] = done[q] /\ seq'[q] = seq[q]
      BY <1>0, <1>1, <2>1
    <3>2. OwnTail(q)'
      <4>1. OwnTail(q)
        BY <1>0, <2>9, <3>1
      <4>2. LastUsed(q)' = LastUsed(q)
        BY <3>1 DEF LastUsed
      <4> QED
        BY <1>1, <3>1, <4>1, <4>2 DEF OwnTail, Stands
    <3>3. ASSUME NEW i \in 1..(Len(mem[q]) - done[q]) PROVE Settled(mem[q], i)'
      <4>1. Settled(mem[q], i)
        BY <1>0, <2>9, <3>1
      <4>2. mem[q][i].by \in Invocation
        <5>1. mem[q] \in Seq(Record) /\ i \in 1..Len(mem[q])
          BY <1>0, <2>9, <3>1 DEF OwnTail
        <5> QED
          BY <5>1, EntryType
      <4>3. pc'[mem[q][i].by] = "done"
        BY <1>0, <1>1, <2>1, <4>1, <4>2 DEF Settled
      <4> QED
        BY <1>1, <3>1, <4>1, <4>3 DEF Settled, WholeBatchAt, Stands
    <3> QED
      BY <3>1, <3>2, <3>3
  <2>10. ASSUME NEW i \in 1..Len(actions) PROVE Settled(actions, i)'
    <3>1. Settled(actions, i) /\ actions[i].by \in Invocation
      BY <1>0, EntryType
    <3>2. pc'[actions[i].by] = "done"
      BY <1>0, <1>1, <2>1, <3>1 DEF Settled
    <3> QED
      BY <1>1, <3>1, <3>2 DEF Settled, WholeBatchAt, Stands
  <2> QED
    BY <1>1, <2>6, <2>7, <2>8, <2>9, <2>10 DEF BatchInv
<1> QED
  BY <1>2, <1>3
-----------------------------------------------------------------------------
\* A command that has read the manifest holds only settled entries.
LEMMA ReadManifestKeepsBatches ==
  ASSUME BatchInv, TypeInv', NEW p \in Invocation, ReadManifest(p)
  PROVE  BatchInv'
<1>0. /\ actions \in Seq(Record)
      /\ mem \in [Invocation -> Seq(Record)]
      /\ pc \in [Invocation -> {"new"} \cup RunningPc \cup EndedPc]
      /\ \A i \in 1..Len(actions) : Settled(actions, i)
      /\ \A q \in Invocation : pc[q] \in Busy =>
            /\ OwnTail(q)
            /\ \A i \in 1..(Len(mem[q]) - done[q]) : Settled(mem[q], i)
  BY DEF BatchInv, TypeInv, TypeOK
<1>1. /\ UNCHANGED <<actions, batch, seq, done>>
      /\ pc[p] = "read" /\ pc'[p] \in {"reserve", "failed"}
      /\ \A q \in Invocation \ {p} : pc'[q] = pc[q] /\ mem'[q] = mem[q]
  BY <1>0 DEF ReadManifest, GoTo, files
<1>2. CASE manifestFile = "torn"
  <2>1. UNCHANGED mem /\ pc'[p] = "failed"
    BY <1>0, <1>2 DEF ReadManifest, GoTo
  <2>2. \A q \in Invocation : pc[q] = "done" => pc'[q] = "done"
    BY <1>1
  <2>3. \A q \in Invocation : pc'[q] \in Busy =>
           pc[q] \in Busy /\ LastUsed(q)' = LastUsed(q)
    BY <1>1, <2>1 DEF Busy, LastUsed
  <2> QED
    BY <1>1, <2>1, <2>2, <2>3, BatchFrame
<1>3. CASE manifestFile # "torn"
  <2>1. mem'[p] = actions /\ pc'[p] = "reserve"
    BY <1>0, <1>3 DEF ReadManifest, GoTo
  <2>2. done[p] = 0
    BY <1>1 DEF BatchInv, TypeInv
  <2>3. ASSUME NEW i \in 1..Len(actions) PROVE Settled(actions, i)'
    <3>1. Settled(actions, i) /\ actions[i].by \in Invocation
      BY <1>0, EntryType
    <3>2. pc'[actions[i].by] = "done"
      BY <1>1, <3>1 DEF Settled
    <3> QED
      BY <1>1, <3>1, <3>2 DEF Settled, WholeBatchAt, Stands
  <2>4. OwnTail(p)'
    BY <1>0, <1>1, <2>1, <2>2 DEF OwnTail
  <2>5. \A i \in 1..(Len(mem'[p]) - done'[p]) : Settled(mem[p], i)'
    <3>1. Len(actions) - 0 = Len(actions) /\ actions' = actions
      BY <1>0, <1>1
    <3> QED
      BY <1>1, <2>1, <2>2, <2>3, <3>1 DEF Settled, WholeBatchAt, Stands
  <2>6. ASSUME NEW q \in Invocation \ {p}, pc'[q] \in Busy
        PROVE /\ OwnTail(q)'
              /\ \A i \in 1..(Len(mem'[q]) - done'[q]) : Settled(mem[q], i)'
    <3>1. pc[q] \in Busy /\ OwnTail(q) /\ LastUsed(q)' = LastUsed(q)
      BY <1>0, <1>1, <2>6 DEF LastUsed
    <3>2. OwnTail(q)'
      BY <1>1, <3>1 DEF OwnTail, Stands
    <3>3. ASSUME NEW i \in 1..(Len(mem[q]) - done[q]) PROVE Settled(mem[q], i)'
      <4>1. Settled(mem[q], i)
        BY <1>0, <3>1
      <4>2. mem[q][i].by \in Invocation
        <5>1. mem[q] \in Seq(Record) /\ i \in 1..Len(mem[q])
          BY <1>0, <3>1 DEF OwnTail, BatchInv, TypeInv, TypeOK
        <5> QED
          BY <5>1, EntryType
      <4>3. pc'[mem[q][i].by] = "done"
        BY <1>1, <4>1, <4>2 DEF Settled
      <4>4. mem'[q] = mem[q] /\ batch' = batch
        BY <1>1
      <4> QED
        BY <4>1, <4>3, <4>4 DEF Settled, WholeBatchAt, Stands
    <3> QED
      BY <1>1, <3>2, <3>3
  <2> QED
    BY <1>1, <2>3, <2>4, <2>5, <2>6 DEF BatchInv
<1> QED
  BY <1>2, <1>3

\* What becomes the manifest is what the command read, then its whole batch;
\* or, when two writers overlap, the manifest is torn and says nothing.
LEMMA ManifestWriteKeepsBatches ==
  ASSUME BatchInv, TypeInv', NEW p \in Invocation,
         InitWriteManifest(p) \/ RecordBatch(p)
  PROVE  BatchInv'
<1>0. /\ actions \in Seq(Record)
      /\ mem \in [Invocation -> Seq(Record)]
      /\ done \in [Invocation -> Nat]
      /\ pc \in [Invocation -> {"new"} \cup RunningPc \cup EndedPc]
      /\ \A i \in 1..Len(actions) : Settled(actions, i)
      /\ \A q \in Invocation : pc[q] \in Busy =>
            /\ OwnTail(q)
            /\ \A i \in 1..(Len(mem[q]) - done[q]) : Settled(mem[q], i)
  BY DEF BatchInv, TypeInv, TypeOK
<1>1. /\ UNCHANGED <<mem, batch, seq, done>>
      /\ pc[p] \in {"initWrite", "recording"} /\ pc'[p] = "done"
      /\ \A q \in Invocation \ {p} : pc'[q] = pc[q]
  BY <1>0 DEF InitWriteManifest, RecordBatch, GoTo, locals
<1>2. /\ \A q \in Invocation : pc[q] = "done" => pc'[q] = "done"
      /\ \A q \in Invocation : pc'[q] \in Busy =>
           pc[q] \in Busy /\ LastUsed(q)' = LastUsed(q)
  BY <1>1 DEF Busy, LastUsed
<1>3. CASE UNCHANGED actions
  BY <1>1, <1>2, <1>3, BatchFrame
<1>4. ASSUME NEW q \in Invocation, pc'[q] \in Busy
      PROVE /\ OwnTail(q)'
            /\ \A i \in 1..(Len(mem'[q]) - done'[q]) : Settled(mem[q], i)'
  <2>1. pc[q] \in Busy /\ OwnTail(q)
    BY <1>0, <1>2, <1>4
  <2>2. OwnTail(q)'
    BY <1>1, <1>2, <1>4, <2>1 DEF OwnTail, Stands
  <2>3. ASSUME NEW i \in 1..(Len(mem[q]) - done[q]) PROVE Settled(mem[q], i)'
    <3>1. Settled(mem[q], i)
      BY <1>0, <2>1
    <3>2. mem[q] \in Seq(Record) /\ i \in 1..Len(mem[q])
      BY <1>0, <2>1 DEF OwnTail
    <3>3. pc'[mem[q][i].by] = "done"
      BY <1>2, <3>1, <3>2, EntryType DEF Settled
    <3> QED
      BY <1>1, <3>1, <3>3 DEF Settled, WholeBatchAt, Stands
  <2> QED
    BY <1>1, <2>2, <2>3
<1>5. CASE InitWriteManifest(p) /\ actions' = <<>>
  BY <1>4, <1>5 DEF BatchInv
<1>6. CASE RecordBatch(p) /\ actions' = mem[p]
  <2>1. /\ pc[p] = "recording" /\ done[p] = Len(batch[p])
        /\ OwnTail(p) /\ LastUsed(p) = seq[p]
    BY <1>0, <1>6 DEF RecordBatch, BatchInv, TypeInv, Busy, LastUsed
  <2>2. mem[p] \in Seq(Record) /\ Len(mem[p]) \in Nat /\ done[p] \in Nat
    BY <1>0
  <2>3. ASSUME NEW i \in 1..Len(mem[p]) PROVE WholeBatchAt(mem[p], i) /\ pc'[mem[p][i].by] = "done"
    <3>1. CASE i \in 1..(Len(mem[p]) - done[p])
      <4>1. Settled(mem[p], i)
        BY <1>0, <2>1, <3>1 DEF Busy
      <4> QED
        BY <1>2, <2>2, <4>1, EntryType DEF Settled
    <3>2. CASE i \in (Len(mem[p]) - done[p] + 1)..Len(mem[p])
      <4> DEFINE k == i - (Len(mem[p]) - done[p])
      <4>1. k \in 1..done[p] /\ i = Len(mem[p]) - done[p] + k
        BY <2>2, <3>2
      <4> HIDE DEF k
      <4>2. /\ mem[p][i].by = p /\ mem[p][i].nth = k
            /\ mem[p][i].seq = seq[p] - done[p] + k
        BY <2>1, <4>1 DEF OwnTail, Stands
      <4>3. ASSUME NEW m \in 1..done[p]
            PROVE /\ batch[p][m] /\ Stands(mem[p], i - k + m, p, m)
                  /\ mem[p][i - k + m].seq = mem[p][i].seq - k + m
        <5>1. i - k + m = Len(mem[p]) - done[p] + m
          BY <2>2, <4>1
        <5>2. seq[p] \in Nat
          BY DEF BatchInv, TypeInv, TypeOK
        <5>3. mem[p][i].seq - k + m = seq[p] - done[p] + m
          BY <2>2, <4>1, <4>2, <5>2
        <5>4. /\ batch[p][m] /\ Stands(mem[p], Len(mem[p]) - done[p] + m, p, m)
              /\ mem[p][Len(mem[p]) - done[p] + m].seq = seq[p] - done[p] + m
          BY <2>1 DEF OwnTail
        <5> QED
          BY <5>1, <5>3, <5>4
      <4>4. WholeBatchAt(mem[p], i)
        <5>1. k \in 1..Len(batch[p])
          BY <2>1, <4>1
        <5>2. ASSUME NEW m \in 1..Len(batch[p])
              PROVE /\ batch[p][m] /\ Stands(mem[p], i - k + m, p, m)
                    /\ mem[p][i - k + m].seq = mem[p][i].seq - k + m
          BY <2>1, <4>3
        <5> QED
          BY <4>2, <5>1, <5>2 DEF WholeBatchAt
      <4> QED
        BY <1>1, <4>2, <4>4
    <3> QED
      BY <2>2, <3>1, <3>2
  <2>4. \A i \in 1..Len(actions') : Settled(actions, i)'
    BY <1>1, <1>6, <2>3 DEF Settled, WholeBatchAt, Stands
  <2> QED
    BY <1>4, <2>4 DEF BatchInv
<1> QED
  BY <1>3, <1>5, <1>6 DEF InitWriteManifest, RecordBatch, WriteManifest

\* The inductive invariant behind the next theorem, kept in every mode.
THEOREM BatchInvariant == Spec => []BatchInv
<1>1. Init => BatchInv
  BY DEF Init, BatchInv, TypeInv, TypeOK, FileStatus, Busy
<1>2. BatchInv /\ TypeInv' /\ [Next]_vars => BatchInv'
  <2> SUFFICES ASSUME BatchInv, TypeInv', [Next]_vars PROVE BatchInv'
    OBVIOUS
  <2>0. pc \in [Invocation -> {"new"} \cup RunningPc \cup EndedPc]
        /\ seq \in [Invocation -> Nat] /\ batch \in [Invocation -> Seq(BOOLEAN)]
    BY DEF BatchInv, TypeInv, TypeOK
  <2> USE DEF GoTo, files, locals, Busy, LastUsed
  <2>1. ASSUME NEW p \in Invocation, StartInit(p) PROVE BatchInv'
    BY <2>0, <2>1, BatchFrame DEF StartInit, MayStart
  <2>2. ASSUME NEW p \in Invocation, NEW b \in Batches, StartLog(p, b) PROVE BatchInv'
    BY <2>0, <2>2, BatchFrame DEF StartLog, MayStart
  <2>3. ASSUME NEW p \in Invocation, InitRefuse(p) PROVE BatchInv'
    BY <2>0, <2>3, BatchFrame DEF InitRefuse
  <2>4. ASSUME NEW p \in Invocation, InitOpenState(p) PROVE BatchInv'
    BY <2>0, <2>4, BatchFrame DEF InitOpenState
  <2>5. ASSUME NEW p \in Invocation, InitWriteState(p) PROVE BatchInv'
    BY <2>0, <2>5, BatchFrame DEF InitWriteState
  <2>6. ASSUME NEW p \in Invocation, InitCheckManifest(p) PROVE BatchInv'
    BY <2>0, <2>6, BatchFrame DEF InitCheckManifest
  <2>7. ASSUME NEW p \in Invocation, InitOpenManifest(p) PROVE BatchInv'
    BY <2>0, <2>7, BatchFrame DEF InitOpenManifest, OpenManifest
  <2>8. ASSUME NEW p \in Invocation, Load(p) PROVE BatchInv'
    BY <2>0, <2>8, BatchFrame DEF Load
  <2>9. ASSUME NEW p \in Invocation, GiveUp(p) PROVE BatchInv'
    BY <2>0, <2>9, BatchFrame DEF GiveUp
  <2>10. ASSUME NEW p \in Invocation, OpenForNumber(p) PROVE BatchInv'
    BY <2>0, <2>10, BatchFrame DEF OpenForNumber
  <2>11. ASSUME NEW p \in Invocation, OpenForBatch(p) PROVE BatchInv'
    BY <2>0, <2>11, BatchFrame DEF OpenForBatch, OpenManifest
  <2>12. ASSUME NEW p \in Invocation, Crash(p) PROVE BatchInv'
    BY <2>0, <2>12, BatchFrame DEF Crash, Running, RunningPc, InitPc, LogPc
  <2>13. CASE UNCHANGED vars
    BY <2>0, <2>13, BatchFrame DEF vars
  <2> QED
    BY <2>1, <2>2, <2>3, <2>4, <2>5, <2>6, <2>7, <2>8, <2>9, <2>10, <2>11, <2>12, <2>13, ReadManifestKeepsBatches,
       TakeNumberKeepsBatches, ManifestWriteKeepsBatches
       DEF Next, Start, InitStep, LogStep
<1> QED
  BY <1>1, <1>2, TypeInvariant, PTL DEF Spec

\* In every mode - commands overlapping, `init` run again, crashes, torn files,
\* invalid records - a batch is in the manifest as a whole or not at all.
THEOREM BatchesAtomic == Spec => []BatchAtomic
<1>1. BatchInv => BatchAtomic
  BY DEF BatchInv, BatchAtomic, Settled
<1> QED
  BY <1>1, BatchInvariant, PTL
-----------------------------------------------------------------------------
\* What holds of every state reached by commands run one after another is kept
\* by a step of p once the files agree and p's own knowledge is right: nobody
\* else knows anything.
LEMMA OneRunner ==
  ASSUME SeqInv, BatchInv', NEW p \in Invocation,
         \A q \in Invocation \ {p} :
            pc'[q] = pc[q] /\ ~Running(q) /\ batch'[q] = batch[q],
         FilesAgree', Knows(p)',
         pc'[p] \in {"new"} \cup InitPc => batch'[p] = <<>>
  PROVE  SeqInv'
<1>1. ASSUME NEW q \in Invocation \ {p} PROVE Knows(q)'
  BY DEF Knows, Running, RunningPc, InitPc, LogPc, Busy
<1>2. \A q, r \in Invocation : (Running(q) /\ Running(r))' => q = r
  BY DEF Running
<1>3. \A q \in Invocation : pc'[q] \in {"new"} \cup InitPc => batch'[q] = <<>>
  BY DEF SeqInv
<1> QED
  BY <1>1, <1>2, <1>3 DEF SeqInv

\* A step that leaves the manifest's entries alone keeps the files in agreement.
LEMMA SameActions ==
  ASSUME SeqInv, UNCHANGED actions, NEW p \in Invocation,
         \A q \in Invocation \ {p} : pc'[q] = pc[q] /\ batch'[q] = batch[q],
         pc'[p] = "done" => pc[p] \in InitPc /\ batch'[p] = batch[p],
         stateFile' = "whole" => Bounded(actions, stateSeq'),
         manifestFile' = "absent" => manifestFile = "absent"
  PROVE  FilesAgree'
<1>1. AckKept'
  <2> SUFFICES ASSUME NEW q \in Invocation, pc'[q] = "done",
                      NEW k \in 1..Len(batch'[q])
               PROVE  \E i \in 1..Len(actions) : Stands(actions, i, q, k)
    BY DEF AckKept, Stands
  <2>1. CASE q = p
    <3>1. batch'[p] = <<>>
      BY <2>1 DEF SeqInv
    <3> QED
      BY <2>1, <3>1
  <2>2. CASE q # p
    BY <2>2 DEF SeqInv, FilesAgree, AckKept
  <2> QED
    BY <2>1, <2>2
<1>2. Increasing(actions)' /\ (manifestFile' = "absent" => actions' = <<>>)
  BY DEF SeqInv, FilesAgree, Increasing
<1>3. StateCovers'
  BY DEF StateCovers, Bounded
<1> QED
  BY <1>1, <1>2, <1>3 DEF FilesAgree

\* The manifest is never ahead of the one command that is about to write it.
LEMMA ManifestBounded ==
  ASSUME SeqInv, NEW p \in Invocation, pc[p] \in Busy
  PROVE  Bounded(actions, LastUsed(p))
  BY DEF SeqInv, Knows, Extends, Bounded
-----------------------------------------------------------------------------
\* Each kind of step of the one running invocation, init first.

\* A command that starts keeps the invariant of sequential use.
LEMMA StartSequential ==
  ASSUME Sequential, SeqInv, BatchInv', NEW p \in Invocation,
         StartInit(p) \/ \E b \in Batches : StartLog(p, b)
  PROVE  SeqInv'
<1> USE DEF GoTo, files, locals
<1>0. pc \in [Invocation -> {"new"} \cup RunningPc \cup EndedPc]
      /\ batch \in [Invocation -> Seq(BOOLEAN)]
  BY DEF SeqInv, BatchInv, TypeInv, TypeOK
<1>1. /\ UNCHANGED <<stateFile, stateSeq, manifestFile, actions, mem>>
      /\ pc[p] = "new" /\ pc'[p] \in {"initState", "load"}
      /\ \A q \in Invocation \ {p} :
            pc'[q] = pc[q] /\ ~Running(q) /\ batch'[q] = batch[q]
  BY <1>0 DEF StartInit, StartLog, MayStart, Sequential
<1>2. pc'[p] \in {"new"} \cup InitPc => StartInit(p) /\ batch' = batch
  BY <1>0 DEF StartInit, StartLog, InitPc
<1>3. FilesAgree'
  <2>1. stateFile' = "whole" => Bounded(actions, stateSeq')
    BY <1>1 DEF SeqInv, FilesAgree, StateCovers
  <2> QED
    BY <1>1, <2>1, SameActions
<1>4. pc'[p] = "initState" => actions = <<>>
  BY <1>2 DEF StartInit, Sequential, SeqInv, FilesAgree, InitPc
<1>5. Knows(p)'
  BY <1>1, <1>4 DEF Knows, InitPc, Busy
<1>6. pc'[p] \in {"new"} \cup InitPc => batch'[p] = <<>>
  BY <1>1, <1>2 DEF SeqInv
<1> QED
  BY <1>1, <1>3, <1>5, <1>6, OneRunner

\* A step of init keeps it.
LEMMA InitSequential ==
  ASSUME SeqInv, BatchInv', NEW p \in Invocation, InitStep(p)
  PROVE  SeqInv'
<1> USE DEF GoTo, files, locals
<1>0. pc \in [Invocation -> {"new"} \cup RunningPc \cup EndedPc]
  BY DEF SeqInv, BatchInv, TypeInv, TypeOK
<1>1. pc[p] \in InitPc /\ Knows(p) /\ actions = <<>> /\ batch[p] = <<>>
  <2>1. pc[p] \in InitPc
    BY DEF InitStep, InitRefuse, InitOpenState, InitWriteState, InitCheckManifest,
           InitOpenManifest, InitWriteManifest, InitPc
  <2> QED
    BY <2>1 DEF SeqInv, Knows
<1>2. UNCHANGED <<actions, batch, seq, mem, done>>
  BY <1>1 DEF InitStep, InitRefuse, InitOpenState, InitWriteState, InitCheckManifest,
     InitOpenManifest, InitWriteManifest, OpenState, OpenManifest, WriteManifest,
     Knows
<1>3. \A q \in Invocation \ {p} :
         pc'[q] = pc[q] /\ ~Running(q) /\ batch'[q] = batch[q]
  <2>1. \A q \in Invocation \ {p} : pc'[q] = pc[q]
    BY <1>0 DEF InitStep, InitRefuse, InitOpenState, InitWriteState,
       InitCheckManifest, InitOpenManifest, InitWriteManifest
  <2> QED
    BY <1>1, <1>2, <2>1 DEF SeqInv, Running, RunningPc
<1>4. /\ manifestFile' = "absent" => manifestFile = "absent"
      /\ pc'[p] \in {"failed", "initStateWrite", "initCheck", "initOpen", "initWrite", "done"}
      /\ pc'[p] = "initStateWrite" => stateFile' = "torn"
      /\ pc'[p] = "initWrite" => manifestFile' = "torn"
      /\ pc'[p] = "initOpen" => manifestFile' = "absent"
  BY <1>0 DEF InitStep, InitRefuse, InitOpenState, InitWriteState, InitCheckManifest,
     InitOpenManifest, InitWriteManifest, OpenState, OpenManifest, WriteManifest
<1>5. FilesAgree'
  <2>1. Bounded(actions, stateSeq')
    BY <1>1 DEF Bounded
  <2> QED
    BY <1>1, <1>2, <1>3, <1>4, <2>1, SameActions
<1>6. Knows(p)'
  BY <1>1, <1>2, <1>4 DEF Knows, Busy
<1> QED
  BY <1>1, <1>2, <1>3, <1>5, <1>6, OneRunner

\* A command that is killed leaves it.
LEMMA CrashSequential ==
  ASSUME SeqInv, BatchInv', NEW p \in Invocation, Crash(p)
  PROVE  SeqInv'
<1> USE DEF GoTo, files, locals
<1>0. pc \in [Invocation -> {"new"} \cup RunningPc \cup EndedPc]
  BY DEF SeqInv, BatchInv, TypeInv, TypeOK
<1>1. /\ UNCHANGED <<stateFile, stateSeq, manifestFile, actions, batch>>
      /\ Running(p) /\ pc'[p] = "crashed"
      /\ \A q \in Invocation \ {p} : pc'[q] = pc[q]
  BY <1>0 DEF Crash
<1>2. \A q \in Invocation \ {p} : ~Running(q)
  BY <1>1 DEF SeqInv
<1>3. FilesAgree'
  <2>1. stateFile' = "whole" => Bounded(actions, stateSeq')
    BY <1>1 DEF SeqInv, FilesAgree, StateCovers
  <2> QED
    BY <1>1, <2>1, SameActions
<1>4. Knows(p)'
  BY <1>1 DEF Knows, InitPc, Busy
<1> QED
  BY <1>1, <1>2, <1>3, <1>4, OneRunner DEF InitPc

\* A step of a recording command: the rest of the system stands still.
LEMMA LogAlone ==
  ASSUME SeqInv, NEW p \in Invocation, LogStep(p)
  PROVE  /\ pc[p] \in LogPc /\ Knows(p) /\ pc'[p] \notin {"new"} \cup InitPc
         /\ batch' = batch
         /\ \A q \in Invocation \ {p} :
               pc'[q] = pc[q] /\ ~Running(q) /\ batch'[q] = batch[q]
<1> USE DEF GoTo, files, locals, LogStep, Load, GiveUp, ReadManifest, OpenForNumber,
            TakeNumber, OpenForBatch, RecordBatch
<1>0. pc \in [Invocation -> {"new"} \cup RunningPc \cup EndedPc]
  BY DEF SeqInv, BatchInv, TypeInv, TypeOK
<1>1. pc[p] \in LogPc /\ batch' = batch
  BY DEF LogPc
<1>2. pc'[p] \notin {"new"} \cup InitPc
  BY <1>0 DEF InitPc
<1>3. \A q \in Invocation \ {p} : pc'[q] = pc[q]
  BY <1>0
<1>4. \A q \in Invocation \ {p} : ~Running(q)
  BY <1>1 DEF SeqInv, Running, RunningPc
<1> QED
  BY <1>1, <1>2, <1>3, <1>4 DEF SeqInv

\* Reading the two files: the copy in memory is the manifest, and the number in
\* memory is the one on disk.
LEMMA ReadingSequential ==
  ASSUME SeqInv, BatchInv', NEW p \in Invocation,
         Load(p) \/ GiveUp(p) \/ ReadManifest(p)
  PROVE  SeqInv'
<1> USE DEF GoTo, files, locals
<1>0. /\ pc \in [Invocation -> {"new"} \cup RunningPc \cup EndedPc]
      /\ seq \in [Invocation -> Nat] /\ stateSeq \in Nat
      /\ mem \in [Invocation -> Seq(Record)] /\ actions \in Seq(Record)
  BY DEF SeqInv, BatchInv, TypeInv, TypeOK
<1>1. LogStep(p)
  BY DEF LogStep
<1>2. UNCHANGED <<stateFile, stateSeq, manifestFile, actions>>
  BY DEF Load, GiveUp, ReadManifest
<1>3. pc'[p] \in {"read", "reserve", "failed"}
  BY <1>0 DEF Load, GiveUp, ReadManifest
<1>4. FilesAgree'
  <2>1. stateFile' = "whole" => Bounded(actions, stateSeq')
    BY <1>2 DEF SeqInv, FilesAgree, StateCovers
  <2> QED
    BY <1>1, <1>2, <1>3, <2>1, LogAlone, SameActions
<1>5. Knows(p)'
  <2>1. CASE pc'[p] = "failed"
    BY <2>1 DEF Knows, InitPc, Busy
  <2>2. CASE pc'[p] = "read"
    <3>1. stateFile' = "whole" /\ seq'[p] = stateSeq'
      BY <1>0, <2>2 DEF Load, GiveUp, ReadManifest
    <3> QED
      BY <2>2, <3>1 DEF Knows, InitPc, Busy
  <2>3. CASE pc'[p] = "reserve"
    <3>1. /\ pc[p] = "read" /\ manifestFile # "torn" /\ mem'[p] = actions
          /\ seq'[p] = seq[p]
      BY <1>0, <2>3 DEF Load, GiveUp, ReadManifest
    <3>2. stateFile = "whole" /\ seq[p] = stateSeq
      BY <3>1 DEF SeqInv, Knows
    <3>3. LastUsed(p)' = stateSeq
      BY <2>3, <3>1, <3>2 DEF LastUsed
    <3>4. Extends(mem'[p], actions') /\ Increasing(mem'[p])
      BY <1>0, <1>2, <3>1 DEF Extends, SeqInv, FilesAgree
    <3>5. Bounded(mem'[p], LastUsed(p)')
      BY <3>1, <3>2, <3>3 DEF SeqInv, FilesAgree, StateCovers
    <3> QED
      BY <1>2, <2>3, <3>1, <3>2, <3>4, <3>5 DEF Knows, InitPc, Extends, Increasing, Bounded
  <2> QED
    BY <1>3, <2>1, <2>2, <2>3
<1> QED
  BY <1>1, <1>4, <1>5, LogAlone, OneRunner

\* Taking a number: the state file runs ahead of the manifest, never behind.
LEMMA NumberSequential ==
  ASSUME SeqInv, BatchInv', NEW p \in Invocation, OpenForNumber(p) \/ TakeNumber(p)
  PROVE  SeqInv'
<1> USE DEF GoTo, files, locals
<1>0. /\ pc \in [Invocation -> {"new"} \cup RunningPc \cup EndedPc]
      /\ seq \in [Invocation -> Nat] /\ stateSeq \in Nat
      /\ mem \in [Invocation -> Seq(Record)] /\ actions \in Seq(Record)
  BY DEF SeqInv, BatchInv, TypeInv, TypeOK
<1>1. LogStep(p)
  BY DEF LogStep
<1>2. UNCHANGED <<manifestFile, actions>>
  BY DEF OpenForNumber, TakeNumber
<1>3. Knows(p) /\ pc[p] \in Busy /\ Bounded(actions, LastUsed(p))
  BY <1>1, ManifestBounded DEF OpenForNumber, TakeNumber, Busy, SeqInv
<1>4. CASE OpenForNumber(p)
  <2>1. /\ pc[p] = "reserve" /\ pc'[p] = "reserving" /\ stateFile' = "torn"
        /\ stateSeq' = stateSeq /\ mem' = mem /\ seq'[p] = seq[p] + 1
    BY <1>0, <1>4 DEF OpenForNumber, OpenState
  <2>2. FilesAgree'
    BY <1>1, <1>2, <2>1, LogAlone, SameActions
  <2>3. LastUsed(p)' = LastUsed(p)
    BY <1>0, <2>1 DEF LastUsed
  <2>4. Knows(p)'
    BY <1>2, <1>3, <2>1, <2>3 DEF Knows, InitPc, Busy, Extends, Increasing, Bounded
  <2> QED
    BY <1>1, <2>2, <2>4, LogAlone, OneRunner
<1>5. CASE TakeNumber(p)
  <2>1. /\ pc[p] = "reserving" /\ pc'[p] \in {"reserve", "failed"}
        /\ seq'[p] = seq[p] /\ seq[p] = stateSeq + 1
        /\ stateFile' = "whole" /\ stateSeq' = seq[p]
    BY <1>0, <1>3, <1>5 DEF TakeNumber, WriteState, Knows
  <2>2. Bounded(actions, stateSeq')
    <3>1. \A i \in 1..Len(actions) : actions[i].seq \in Nat
      BY <1>0, EntryType
    <3> QED
      BY <1>0, <1>3, <2>1, <3>1 DEF LastUsed, Bounded
  <2>3. FilesAgree'
    BY <1>1, <1>2, <2>1, <2>2, LogAlone, SameActions
  <2>4. CASE pc'[p] = "failed"
    <3>1. Knows(p)'
      BY <2>4 DEF Knows, InitPc, Busy
    <3> QED
      BY <1>1, <2>3, <3>1, LogAlone, OneRunner
  <2>5. CASE pc'[p] = "reserve"
    <3> DEFINE r == NewRecord(p)
    <3>1. mem'[p] = Append(mem[p], r) /\ r \in Record /\ r.seq = seq[p]
      <4>1. r \in Record
        BY NewRecordType DEF SeqInv, BatchInv, TypeInv
      <4> QED
        BY <1>0, <1>5, <2>5, <4>1 DEF TakeNumber, NewRecord
    <3> HIDE DEF r
    <3>2. /\ Len(mem'[p]) = Len(mem[p]) + 1 /\ Len(mem[p]) \in Nat
          /\ \A i \in 1..Len(mem[p]) : mem'[p][i] = mem[p][i] /\ mem[p][i].seq \in Nat
          /\ mem'[p][Len(mem[p]) + 1] = r
      BY <1>0, <3>1, EntryType
    <3>3. \A i \in 1..Len(mem[p]) : mem[p][i].seq <= seq[p] - 1
      BY <1>3, <2>1 DEF Knows, LastUsed, Bounded
    <3>4. Bounded(mem'[p], seq[p])
      <4>1. \A i \in 1..Len(mem[p]) : mem'[p][i].seq <= seq[p]
        BY <1>0, <3>2, <3>3
      <4> QED
        BY <1>0, <3>1, <3>2, <4>1 DEF Bounded
    <3>5. Increasing(mem'[p])
      <4> SUFFICES ASSUME NEW i \in 1..Len(mem'[p]), NEW j \in 1..(i - 1)
                   PROVE  mem'[p][j].seq < mem'[p][i].seq
        BY DEF Increasing
      <4>1. CASE i \in 1..Len(mem[p])
        <5>1. j \in 1..Len(mem[p])
          BY <3>2, <4>1
        <5>2. mem[p][j].seq < mem[p][i].seq
          BY <1>3, <4>1 DEF Knows, Increasing
        <5> QED
          BY <3>2, <4>1, <5>1, <5>2
      <4>2. CASE i = Len(mem[p]) + 1
        <5>1. j \in 1..Len(mem[p])
          BY <3>2, <4>2
        <5> QED
          BY <1>0, <3>1, <3>2, <3>3, <4>2, <5>1
      <4> QED
        BY <3>2, <4>1, <4>2
    <3>6. Extends(mem'[p], actions)
      <4>1. Extends(mem[p], actions) /\ Len(actions) \in Nat
        BY <1>0, <1>3 DEF Knows
      <4> QED
        BY <3>2, <4>1 DEF Extends
    <3>7. LastUsed(p)' = seq[p]
      BY <2>1, <2>5 DEF LastUsed
    <3>8. manifestFile' # "torn"
      BY <1>2, <1>3, <2>1 DEF Knows
    <3>9. Knows(p)'
      BY <1>2, <2>1, <2>5, <3>4, <3>5, <3>6, <3>7, <3>8
         DEF Knows, InitPc, Extends, Increasing, Bounded
    <3> QED
      BY <1>1, <2>3, <3>9, LogAlone, OneRunner
  <2> QED
    BY <2>1, <2>4, <2>5
<1> QED
  BY <1>4, <1>5

\* Writing the manifest: what was there stays where it was, the batch follows.
LEMMA WritingSequential ==
  ASSUME SeqInv, BatchInv', NEW p \in Invocation, OpenForBatch(p) \/ RecordBatch(p)
  PROVE  SeqInv'
<1> USE DEF GoTo, files, locals
<1>0. /\ pc \in [Invocation -> {"new"} \cup RunningPc \cup EndedPc]
      /\ mem \in [Invocation -> Seq(Record)] /\ actions \in Seq(Record)
      /\ done \in [Invocation -> Nat]
  BY DEF SeqInv, BatchInv, TypeInv, TypeOK
<1>1. LogStep(p)
  BY DEF LogStep
<1>2. Knows(p) /\ pc[p] \in Busy
  BY <1>1 DEF OpenForBatch, RecordBatch, Busy, SeqInv
<1>3. UNCHANGED <<stateFile, stateSeq, batch, seq, mem, done>>
  BY DEF OpenForBatch, RecordBatch
<1>4. CASE OpenForBatch(p)
  <2>1. /\ pc[p] = "reserve" /\ pc'[p] = "recording"
        /\ manifestFile' = "torn" /\ actions' = actions
    BY <1>0, <1>4 DEF OpenForBatch, OpenManifest
  <2>2. FilesAgree'
    <3>1. stateFile' = "whole" => Bounded(actions, stateSeq')
      BY <1>3 DEF SeqInv, FilesAgree, StateCovers
    <3> QED
      BY <1>1, <2>1, <3>1, LogAlone, SameActions
  <2>3. LastUsed(p)' = LastUsed(p)
    BY <1>3, <2>1 DEF LastUsed
  <2>4. Knows(p)'
    BY <1>2, <1>3, <2>1, <2>3 DEF Knows, InitPc, Busy, Extends, Increasing, Bounded
  <2> QED
    BY <1>1, <2>2, <2>4, LogAlone, OneRunner
<1>5. CASE RecordBatch(p)
  <2>1. /\ pc[p] = "recording" /\ pc'[p] = "done"
        /\ manifestFile' = "whole" /\ actions' = mem[p]
        /\ stateFile = "whole" /\ seq[p] = stateSeq
    BY <1>0, <1>2, <1>5 DEF RecordBatch, WriteManifest, Knows
  <2>2. Increasing(mem[p]) /\ Bounded(mem[p], stateSeq) /\ Extends(mem[p], actions)
    BY <1>2, <2>1 DEF Knows, LastUsed
  <2>3. AckKept'
    <3> SUFFICES ASSUME NEW q \in Invocation, pc'[q] = "done", NEW k \in 1..Len(batch[q])
                 PROVE  \E i \in 1..Len(mem[p]) : Stands(mem[p], i, q, k)
      BY <1>3, <2>1 DEF AckKept, Stands
    <3>1. CASE q = p
      <4>1. OwnTail(p) /\ done[p] = Len(batch[p])
        BY <1>2, <2>1 DEF SeqInv, BatchInv, TypeInv
      <4>2. Stands(mem[p], Len(mem[p]) - done[p] + k, p, k)
        BY <3>1, <4>1 DEF OwnTail
      <4> QED
        BY <3>1, <4>2 DEF Stands
    <3>2. CASE q # p
      <4>1. pc[q] = "done"
        BY <1>1, <3>2, LogAlone
      <4>2. PICK i \in 1..Len(actions) : Stands(actions, i, q, k)
        BY <4>1 DEF SeqInv, FilesAgree, AckKept
      <4>3. i \in 1..Len(mem[p]) /\ mem[p][i] = actions[i]
        BY <1>0, <2>2 DEF Extends
      <4> QED
        BY <4>2, <4>3 DEF Stands
    <3> QED
      BY <3>1, <3>2
  <2>4. FilesAgree'
    BY <1>3, <2>1, <2>2, <2>3 DEF FilesAgree, StateCovers, Increasing, Bounded
  <2>5. Knows(p)'
    BY <2>1 DEF Knows, InitPc, Busy
  <2> QED
    BY <1>1, <2>4, <2>5, LogAlone, OneRunner
<1> QED
  BY <1>4, <1>5
-----------------------------------------------------------------------------
\* Commands run one after another, `init` only where there is no manifest:
\* SeqInv holds whatever fails or is killed.
THEOREM SequentialInvariant == Sequential => (Spec => []SeqInv)
<1> SUFFICES ASSUME Sequential PROVE Spec => []SeqInv
  OBVIOUS
<1>1. Init => SeqInv
  BY DEF Init, SeqInv, BatchInv, TypeInv, TypeOK, FileStatus, Busy, FilesAgree, Increasing,
         StateCovers, Bounded, AckKept, Running, RunningPc, InitPc, LogPc, Knows
<1>2. SeqInv /\ BatchInv' /\ [Next]_vars => SeqInv'
  <2> SUFFICES ASSUME SeqInv, BatchInv', [Next]_vars PROVE SeqInv'
    OBVIOUS
  <2>1. ASSUME NEW p \in Invocation, Start(p) PROVE SeqInv'
    BY <2>1, StartSequential DEF Start
  <2>2. ASSUME NEW p \in Invocation, InitStep(p) PROVE SeqInv'
    BY <2>2, InitSequential
  <2>3. ASSUME NEW p \in Invocation, LogStep(p) PROVE SeqInv'
    BY <2>3, ReadingSequential, NumberSequential, WritingSequential DEF LogStep
  <2>4. ASSUME NEW p \in Invocation, Crash(p) PROVE SeqInv'
    BY <2>4, CrashSequential
  <2>5. CASE UNCHANGED vars
    BY <2>5 DEF vars, SeqInv, FilesAgree, Increasing, StateCovers, Bounded, AckKept,
       Stands, Running, Knows, Extends, LastUsed
  <2> QED
    BY <2>1, <2>2, <2>3, <2>4, <2>5 DEF Next
<1> QED
  BY <1>1, <1>2, BatchInvariant, PTL DEF Spec

\* Numbers in the manifest strictly increase.
THEOREM NumbersIncrease == Sequential => (Spec => []SeqIncreasing)
<1>1. SeqInv => SeqIncreasing
  BY DEF SeqInv, FilesAgree, SeqIncreasing
<1> QED
  BY <1>1, SequentialInvariant, PTL

\* The saved counter never lags behind the manifest.
THEOREM NumbersCovered == Sequential => (Spec => []StateCovers)
<1>1. SeqInv => StateCovers
  BY DEF SeqInv, FilesAgree
<1> QED
  BY <1>1, SequentialInvariant, PTL

\* Every step keeps a torn manifest explained.
LEMMA TornStep ==
  ASSUME SeqInv, TornInv, [Next]_vars
  PROVE  TornInv'
<1> USE DEF GoTo, files, locals
<1>0. /\ pc \in [Invocation -> {"new"} \cup RunningPc \cup EndedPc]
      /\ done \in [Invocation -> Nat] /\ batch \in [Invocation -> Seq(BOOLEAN)]
      /\ \A p \in Invocation : done[p] <= Len(batch[p])
  BY DEF SeqInv, BatchInv, TypeInv, TypeOK
<1>1. ASSUME NEW p \in Invocation, UNCHANGED manifestFile, pc[p] \notin {"crashed"},
             ~Tearing(p) \/ Tearing(p)',
             \A q \in Invocation \ {p} : pc'[q] = pc[q] /\ done'[q] = done[q] /\ batch'[q] = batch[q]
      PROVE  TornInv'
  BY <1>1 DEF TornInv, Tearing
<1>2. ASSUME NEW p \in Invocation, Start(p) PROVE TornInv'
  <2>1. pc[p] = "new" /\ UNCHANGED <<manifestFile, done>>
    BY <1>2 DEF Start, StartInit, StartLog, MayStart
  <2>2. \A q \in Invocation \ {p} : pc'[q] = pc[q] /\ batch'[q] = batch[q]
    BY <1>0, <1>2 DEF Start, StartInit, StartLog
  <2> QED
    BY <1>1, <2>1, <2>2 DEF Tearing
<1>3. ASSUME NEW p \in Invocation, InitOpenManifest(p) \/ OpenForBatch(p) PROVE TornInv'
  <2>1. UNCHANGED <<batch, done>> /\ pc'[p] \in {"initWrite", "recording"}
    BY <1>0, <1>3 DEF InitOpenManifest, OpenForBatch
  <2>2. done[p] = Len(batch[p])
    <3>1. CASE InitOpenManifest(p)
      <4>1. batch[p] = <<>>
        BY <3>1 DEF InitOpenManifest, SeqInv, InitPc
      <4> QED
        BY <1>0, <4>1
    <3>2. CASE OpenForBatch(p)
      BY <3>2 DEF OpenForBatch
    <3> QED
      BY <1>3, <3>1, <3>2
  <2> QED
    BY <2>1, <2>2 DEF TornInv, Tearing
<1>4. ASSUME NEW p \in Invocation, InitWriteManifest(p) \/ RecordBatch(p) PROVE TornInv'
  <2>1. manifestFile = "torn"
    BY <1>4 DEF InitWriteManifest, RecordBatch, SeqInv, Knows
  <2> QED
    BY <1>4, <2>1 DEF InitWriteManifest, RecordBatch, WriteManifest, TornInv
<1>5. ASSUME NEW p \in Invocation,
             \/ InitRefuse(p) \/ InitOpenState(p) \/ InitWriteState(p) \/ InitCheckManifest(p)
             \/ Load(p) \/ GiveUp(p) \/ ReadManifest(p) \/ OpenForNumber(p) \/ TakeNumber(p)
      PROVE  TornInv'
  <2> USE <1>5 DEF InitRefuse, InitOpenState, InitWriteState, InitCheckManifest, Load, GiveUp,
                   ReadManifest, OpenForNumber, TakeNumber
  <2>1. UNCHANGED <<manifestFile, batch>>
    OBVIOUS
  <2>2. pc[p] \notin {"initWrite", "recording", "crashed"}
    OBVIOUS
  <2>3. \A q \in Invocation \ {p} : pc'[q] = pc[q] /\ done'[q] = done[q]
    BY <1>0
  <2> QED
    BY <1>1, <2>1, <2>2, <2>3 DEF Tearing
<1>6. ASSUME NEW p \in Invocation, Crash(p) PROVE TornInv'
  <2>1. pc[p] # "crashed" /\ UNCHANGED <<manifestFile, batch, done>> /\ pc'[p] = "crashed"
    BY <1>0, <1>6 DEF Crash, Running, RunningPc, InitPc, LogPc
  <2>2. \A q \in Invocation \ {p} : pc'[q] = pc[q]
    BY <1>0, <1>6 DEF Crash
  <2> QED
    BY <1>1, <2>1, <2>2 DEF Tearing
<1>7. CASE UNCHANGED vars
  BY <1>7 DEF vars, TornInv, Tearing
<1> QED
  BY <1>2, <1>3, <1>4, <1>5, <1>6, <1>7 DEF Next, InitStep, LogStep

\* What a command reported as recorded can be read as long as the manifest can be,
\* and the manifest is torn only by a later command.
THEOREM Acknowledged == Sequential => (Spec => []AckRecorded)
<1> SUFFICES ASSUME Sequential PROVE Spec => []AckRecorded
  OBVIOUS
<1>1. Init => TornInv
  BY DEF Init, TornInv
<1>2. SeqInv /\ TornInv /\ [Next]_vars => TornInv'
  BY TornStep
<1>3. SeqInv /\ TornInv => AckRecorded
  <2> SUFFICES ASSUME SeqInv, TornInv, NEW p \in Invocation, pc[p] = "done", batch[p] # <<>>
               PROVE  \/ /\ manifestFile = "whole"
                         /\ \A k \in 1..Len(batch[p]) :
                              \E i \in 1..Len(actions) : Stands(actions, i, p, k)
                      \/ /\ manifestFile = "torn"
                         /\ \E q \in Invocation :
                              pc[q] \in {"recording", "crashed"} /\ done[q] = Len(batch[q])
    BY DEF AckRecorded
  <2>1. \A k \in 1..Len(batch[p]) : \E i \in 1..Len(actions) : Stands(actions, i, p, k)
    BY DEF SeqInv, FilesAgree, AckKept
  <2>2. actions # <<>>
    <3>1. 1 \in 1..Len(batch[p])
      BY DEF SeqInv, BatchInv, TypeInv, TypeOK
    <3> QED
      BY <2>1, <3>1
  <2>3. manifestFile \in {"whole", "torn"}
    BY <2>2 DEF SeqInv, FilesAgree, BatchInv, TypeInv, TypeOK, FileStatus
  <2>4. ASSUME NEW q \in Invocation, Tearing(q)
        PROVE  pc[q] \in {"recording", "crashed"} /\ done[q] = Len(batch[q])
    BY <2>2, <2>4 DEF Tearing, SeqInv, Knows, InitPc
  <2> QED
    BY <2>1, <2>3, <2>4 DEF TornInv
<1> QED
  BY <1>1, <1>2, <1>3, SequentialInvariant, PTL DEF Spec
-----------------------------------------------------------------------------
(* The files implement the ledger                                          *)

\* The ledger that a state of the two files stands for.
Numbers == [i \in 1..Len(actions) |-> actions[i].seq]
Readable == manifestFile # "torn" \/ Recording

\* An `init` that has not opened the manifest works on a root without one.
InitFirst ==
  \A p \in Invocation :
    pc[p] \in {"initState", "initStateWrite", "initCheck"} => manifestFile = "absent"

\* Whoever records is the one that runs.
LEMMA RecordingAlone ==
  ASSUME SeqInv, NEW p \in Invocation, Running(p)
  PROVE  Recording <=> pc[p] \in {"initWrite", "recording"}
BY DEF SeqInv, Recording, Running, RunningPc, InitPc, LogPc

\* The list of numbers is a sequence as long as the manifest.
LEMMA NumbersType ==
  ASSUME NEW list \in Seq(Record)
  PROVE  /\ [i \in 1..Len(list) |-> list[i].seq] \in Seq(Nat)
         /\ Len([i \in 1..Len(list) |-> list[i].seq]) = Len(list)
<1>1. \A i \in 1..Len(list) : list[i].seq \in Nat
  BY EntryType
<1>2. Len(list) \in Nat
  OBVIOUS
<1> QED
  BY <1>1, <1>2

\* In sequential use init runs first, and the invariant holds throughout.
LEMMA InitFirstInvariant == Sequential => (Spec => [](SeqInv /\ InitFirst))
<1> SUFFICES ASSUME Sequential PROVE Spec => [](SeqInv /\ InitFirst)
  OBVIOUS
<1>1. Init => InitFirst
  BY DEF Init, InitFirst
<1>2. SeqInv /\ InitFirst /\ [Next]_vars => InitFirst'
  <2> SUFFICES ASSUME SeqInv, InitFirst, [Next]_vars PROVE InitFirst'
    OBVIOUS
  <2>0. pc \in [Invocation -> {"new"} \cup RunningPc \cup EndedPc]
    BY DEF SeqInv, BatchInv, TypeInv, TypeOK
  <2> USE DEF GoTo, files, locals
  <2>1. ASSUME NEW p \in Invocation, Start(p) PROVE InitFirst'
    BY <2>0, <2>1 DEF InitFirst, Start, StartInit, StartLog, MayStart, Sequential
  <2>2. ASSUME NEW p \in Invocation, InitStep(p) PROVE InitFirst'
    <3>1. \A q \in Invocation \ {p} : ~Running(q) /\ pc'[q] = pc[q]
      BY <2>0, <2>2 DEF SeqInv, Running, RunningPc, InitPc, InitStep, InitRefuse, InitOpenState,
         InitWriteState, InitCheckManifest, InitOpenManifest, InitWriteManifest
    <3>2. pc'[p] \in {"initStateWrite", "initCheck"} => manifestFile' = "absent"
      BY <2>0, <2>2 DEF InitFirst, InitStep, InitRefuse, InitOpenState, OpenState,
         InitWriteState, InitCheckManifest, InitOpenManifest, InitWriteManifest
    <3>3. pc'[p] # "initState"
      BY <2>0, <2>2 DEF InitStep, InitRefuse, InitOpenState,
         InitWriteState, InitCheckManifest, InitOpenManifest, InitWriteManifest
    <3> QED
      BY <3>1, <3>2, <3>3 DEF InitFirst, Running, RunningPc, InitPc
  <2>3. ASSUME NEW p \in Invocation, LogStep(p) PROVE InitFirst'
    BY <2>3, LogAlone DEF InitFirst, Running, RunningPc, InitPc
  <2>4. ASSUME NEW p \in Invocation, Crash(p) PROVE InitFirst'
    BY <2>0, <2>4 DEF InitFirst, Crash
  <2>5. CASE UNCHANGED vars
    BY <2>5 DEF InitFirst, vars
  <2> QED
    BY <2>1, <2>2, <2>3, <2>4, <2>5 DEF Next
<1> QED
  BY <1>1, <1>2, SequentialInvariant, PTL DEF Spec
-----------------------------------------------------------------------------
\* A step that leaves manifest, counter and readability alone is no step of the
\* ledger.
LEMMA Stutter ==
  ASSUME UNCHANGED <<actions, stateSeq>>, Readable' = Readable
  PROVE  [Ledger!LedgerNext]_Ledger!ledgerVars
BY DEF Ledger!ledgerVars, Readable

\* Start: nobody records, before and after.
LEMMA StartRefines ==
  ASSUME Sequential, SeqInv, NEW p \in Invocation, Start(p)
  PROVE  [Ledger!LedgerNext]_Ledger!ledgerVars
<1>0. pc \in [Invocation -> {"new"} \cup RunningPc \cup EndedPc]
  BY DEF SeqInv, BatchInv, TypeInv, TypeOK
<1>1. /\ UNCHANGED <<actions, stateSeq, manifestFile>>
      /\ pc[p] = "new" /\ pc'[p] \in {"initState", "load"}
      /\ \A q \in Invocation \ {p} : pc'[q] = pc[q] /\ ~Running(q)
  BY <1>0 DEF Start, StartInit, StartLog, MayStart, Sequential, GoTo, files
<1>2. ~Recording /\ ~Recording'
  BY <1>1 DEF Recording, Running, RunningPc, InitPc, LogPc
<1> QED
  BY <1>1, <1>2, Stutter DEF Readable

\* A step of the one running invocation: what Recording is before and after.
LEMMA RecordingMoves ==
  ASSUME SeqInv, NEW p \in Invocation, Running(p), pc' = [pc EXCEPT ![p] = pc'[p]]
  PROVE  /\ Recording <=> pc[p] \in {"initWrite", "recording"}
         /\ Recording' <=> pc'[p] \in {"initWrite", "recording"}
<1>0. pc \in [Invocation -> {"new"} \cup RunningPc \cup EndedPc]
  BY DEF SeqInv, BatchInv, TypeInv, TypeOK
<1>1. \A q \in Invocation \ {p} : pc'[q] = pc[q] /\ ~Running(q)
  BY <1>0 DEF SeqInv
<1> QED
  BY <1>1 DEF Recording, Running, RunningPc, InitPc, LogPc

\* `init`: the counter is set to 0 while the manifest is still absent, and the
\* manifest is opened and written by the one that runs.
LEMMA InitRefines ==
  ASSUME SeqInv, InitFirst, NEW p \in Invocation, InitStep(p)
  PROVE  [Ledger!LedgerNext]_Ledger!ledgerVars
<1> USE DEF GoTo, files, locals
<1>0. pc \in [Invocation -> {"new"} \cup RunningPc \cup EndedPc]
  BY DEF SeqInv, BatchInv, TypeInv, TypeOK
<1>1. Running(p) /\ pc[p] \in InitPc /\ Knows(p) /\ actions = <<>>
  BY DEF SeqInv, Knows, Running, RunningPc, InitPc, InitStep, InitRefuse, InitOpenState,
         InitWriteState, InitCheckManifest, InitOpenManifest, InitWriteManifest
<1>2. pc' = [pc EXCEPT ![p] = pc'[p]] /\ pc'[p] # "recording"
  BY <1>0 DEF InitStep, InitRefuse, InitOpenState, InitWriteState, InitCheckManifest,
         InitOpenManifest, InitWriteManifest
<1>3. /\ Recording <=> pc[p] = "initWrite"
      /\ Recording' <=> pc'[p] = "initWrite"
  BY <1>1, <1>2, RecordingMoves DEF InitPc
<1>4. CASE InitRefuse(p) \/ InitOpenState(p) \/ InitCheckManifest(p)
  <2>1. UNCHANGED <<actions, stateSeq, manifestFile>> /\ ~Recording /\ ~Recording'
    BY <1>0, <1>3, <1>4 DEF InitRefuse, InitOpenState, OpenState, InitCheckManifest
  <2> QED
    BY <2>1, Stutter DEF Readable
<1>5. CASE InitWriteState(p)
  <2>1. /\ UNCHANGED <<actions, manifestFile>> /\ manifestFile = "absent"
        /\ stateSeq' = 0 /\ Numbers = <<>>
    BY <1>1, <1>5 DEF InitFirst, InitWriteState, WriteState, Knows, Numbers
  <2> QED
    BY <2>1 DEF Ledger!LedgerNext, Ledger!StartAgain, Numbers
<1>6. CASE InitOpenManifest(p) \/ InitWriteManifest(p)
  <2>1. UNCHANGED <<actions, stateSeq>>
    BY <1>1, <1>6 DEF InitOpenManifest, InitWriteManifest, OpenManifest, WriteManifest, Knows
  <2>2. Readable /\ Readable'
    BY <1>0, <1>1, <1>3, <1>6 DEF InitOpenManifest, InitWriteManifest, OpenManifest, WriteManifest,
       Knows, Readable
  <2> QED
    BY <2>1, <2>2, Stutter
<1> QED
  BY <1>4, <1>5, <1>6 DEF InitStep

\* The last step of a command that records: the numbers that were there stay,
\* those that follow are above them and not above the counter.
LEMMA RecordRefines ==
  ASSUME SeqInv, NEW p \in Invocation, RecordBatch(p)
  PROVE  Ledger!RecordBatch
<1> USE DEF GoTo, files, locals
<1>0. /\ pc \in [Invocation -> {"new"} \cup RunningPc \cup EndedPc]
      /\ mem \in [Invocation -> Seq(Record)] /\ actions \in Seq(Record)
  BY DEF SeqInv, BatchInv, TypeInv, TypeOK
<1>1. Running(p) /\ Knows(p) /\ pc[p] = "recording"
  BY DEF RecordBatch, SeqInv, Running, RunningPc, LogPc
<1>2. /\ manifestFile' = "whole" /\ actions' = mem[p] /\ stateSeq' = stateSeq
      /\ Extends(mem[p], actions) /\ Increasing(mem[p]) /\ Bounded(mem[p], stateSeq)
  BY <1>1 DEF RecordBatch, WriteManifest, Knows, Busy, LastUsed
<1>3. Readable /\ Readable'
  BY <1>1, <1>2, RecordingAlone DEF Readable
<1> DEFINE old == [i \in 1..Len(actions) |-> actions[i].seq]
           new == [i \in 1..Len(mem[p]) |-> mem[p][i].seq]
<1>4. Len(old) = Len(actions) /\ Len(new) = Len(mem[p])
  BY <1>0, NumbersType
<1>5. Len(actions) \in Nat /\ Len(mem[p]) \in Nat /\ Len(actions) <= Len(mem[p])
  BY <1>0, <1>2 DEF Extends
<1>6. \A i \in 1..Len(actions) : new[i] = old[i]
  BY <1>2, <1>5 DEF Extends
<1>7. ASSUME NEW i \in (Len(actions) + 1)..Len(mem[p])
      PROVE  new[i] <= stateSeq /\ \A j \in 1..(i - 1) : new[j] < new[i]
  <2>1. i \in 1..Len(mem[p]) /\ \A j \in 1..(i - 1) : j \in 1..Len(mem[p])
    BY <1>5
  <2> QED
    BY <1>2, <2>1 DEF Increasing, Bounded
<1> HIDE DEF old, new
<1>8. /\ Len(new) >= Len(old)
      /\ \A i \in 1..Len(old) : new[i] = old[i]
      /\ \A i \in (Len(old) + 1)..Len(new) :
           new[i] <= stateSeq /\ \A j \in 1..(i - 1) : new[j] < new[i]
  BY <1>4, <1>5, <1>6, <1>7
<1> QED
  BY <1>2, <1>3, <1>8 DEF Ledger!RecordBatch, old, new, Readable

\* The steps of a command that records: its number is the next one, and the
\* ledger can be read until it is written.
LEMMA LogRefines ==
  ASSUME SeqInv, NEW p \in Invocation, LogStep(p)
  PROVE  [Ledger!LedgerNext]_Ledger!ledgerVars
<1> USE DEF GoTo, files, locals
<1>0. pc \in [Invocation -> {"new"} \cup RunningPc \cup EndedPc]
  BY DEF SeqInv, BatchInv, TypeInv, TypeOK
<1>1. Running(p) /\ Knows(p)
  BY LogAlone DEF Running, RunningPc
<1>2. pc' = [pc EXCEPT ![p] = pc'[p]] /\ pc[p] # "initWrite" /\ pc'[p] # "initWrite"
  BY <1>0 DEF LogStep, Load, GiveUp, ReadManifest, OpenForNumber, TakeNumber, OpenForBatch,
         RecordBatch
<1>3. /\ Recording <=> pc[p] = "recording"
      /\ Recording' <=> pc'[p] = "recording"
  BY <1>1, <1>2, RecordingMoves
<1>4. CASE Load(p) \/ GiveUp(p) \/ ReadManifest(p) \/ OpenForNumber(p)
  <2>1. UNCHANGED <<actions, stateSeq, manifestFile>> /\ ~Recording /\ ~Recording'
    BY <1>0, <1>3, <1>4 DEF Load, GiveUp, ReadManifest, OpenForNumber, OpenState
  <2> QED
    BY <2>1, Stutter DEF Readable
<1>5. CASE TakeNumber(p)
  <2>1. /\ UNCHANGED <<actions, manifestFile>> /\ manifestFile # "torn"
        /\ stateSeq' = stateSeq + 1
    BY <1>1, <1>5 DEF TakeNumber, WriteState, Knows
  <2> QED
    BY <2>1 DEF Ledger!LedgerNext, Ledger!TakeNumber
<1>6. CASE OpenForBatch(p)
  <2>1. UNCHANGED <<actions, stateSeq>> /\ Readable /\ Readable'
    BY <1>0, <1>1, <1>3, <1>6 DEF OpenForBatch, OpenManifest, Knows, Readable
  <2> QED
    BY <2>1, Stutter
<1>7. CASE RecordBatch(p)
  BY <1>7, RecordRefines DEF Ledger!LedgerNext
<1> QED
  BY <1>4, <1>5, <1>6, <1>7 DEF LogStep

\* A kill: if the manifest was open, the ledger is torn from then on.
LEMMA CrashRefines ==
  ASSUME SeqInv, NEW p \in Invocation, Crash(p)
  PROVE  [Ledger!LedgerNext]_Ledger!ledgerVars
<1>0. pc \in [Invocation -> {"new"} \cup RunningPc \cup EndedPc]
  BY DEF SeqInv, BatchInv, TypeInv, TypeOK
<1>1. /\ UNCHANGED <<actions, stateSeq, manifestFile>> /\ Running(p) /\ Knows(p)
      /\ pc' = [pc EXCEPT ![p] = "crashed"] /\ pc'[p] = "crashed"
  BY <1>0 DEF SeqInv, Crash, GoTo, files
<1>2. ~Recording' /\ (Recording => manifestFile = "torn")
  BY <1>1, RecordingMoves DEF Knows
<1>3. CASE Recording
  BY <1>1, <1>2, <1>3 DEF Ledger!LedgerNext, Ledger!Tear
<1>4. CASE ~Recording
  BY <1>1, <1>2, <1>4, Stutter DEF Readable
<1> QED
  BY <1>3, <1>4

\* Commands run one after another, `init` only where there is no manifest: the
\* two files are an ActionLedger, whatever fails or is killed.
THEOREM ImplementsLedger == Sequential => (Spec => LedgerSpec)
<1> SUFFICES ASSUME Sequential PROVE Spec => LedgerSpec
  OBVIOUS
<1>1. Init => Ledger!LedgerInit
  BY DEF Init, Ledger!LedgerInit
<1>2. SeqInv /\ InitFirst /\ [Next]_vars => [Ledger!LedgerNext]_Ledger!ledgerVars
  <2> SUFFICES ASSUME SeqInv, InitFirst, [Next]_vars
               PROVE  [Ledger!LedgerNext]_Ledger!ledgerVars
    OBVIOUS
  <2>1. CASE Next
    BY <2>1, StartRefines, InitRefines, LogRefines, CrashRefines DEF Next
  <2>2. CASE UNCHANGED vars
    BY <2>2, Stutter DEF vars, Readable, Recording
  <2> QED
    BY <2>1, <2>2
<1> QED
  BY <1>1, <1>2, InitFirstInvariant, PTL DEF Spec, LedgerSpec, Ledger!LedgerSpec
=============================================================================
