--------------------------- MODULE ActionManifest ---------------------------
(***************************************************************************)
(* The run state (odin-state.json) and the action log                      *)
(* (ACTION_MANIFEST.json) of one artifact root, and the invocations of     *)
(* odin.py that read and rewrite them: `init`, and the commands that       *)
(* record actions (`log`, and `coverage` through _append_actions).         *)
(*                                                                         *)
(* Each invocation is a process of its own that keeps a private copy of    *)
(* both files between reading and rewriting them.  A rewrite is two steps, *)
(* because open(path, "w") truncates the file before anything is written:  *)
(* a reader, a second writer or a crash can come between the two.  There   *)
(* is no lock and no temporary file in the code.                           *)
(***************************************************************************)
EXTENDS Integers, Sequences

CONSTANTS
  Invocation,  \* the runs of odin.py on this artifact root
  Batches,     \* what a command may be asked to record, one BOOLEAN a record:
               \* FALSE is a record without an action_id or a status
  Exclusive,   \* TRUE: a command is started only when no other one runs
  InitAgain    \* TRUE: `init` may be run although a manifest exists

ASSUME BatchesAssumption == Batches \subseteq Seq(BOOLEAN)
ASSUME ModeAssumption == Exclusive \in BOOLEAN /\ InitAgain \in BOOLEAN

VARIABLES
  stateFile,     \* odin-state.json: absent, torn (not JSON), or whole
  stateSeq,      \* "seq" in its last complete contents
  manifestFile,  \* ACTION_MANIFEST.json: absent, torn, or whole
  actions,       \* "actions" in its last complete contents
  pc,            \* where each invocation is
  batch,         \* the records an invocation was asked to make
  seq,           \* its State.data["seq"]
  mem,           \* its manifest["actions"]
  done           \* how many records of its batch are in mem

files == <<stateFile, stateSeq, manifestFile, actions>>
locals == <<batch, seq, mem, done>>
vars == <<stateFile, stateSeq, manifestFile, actions, pc, batch, seq, mem, done>>

FileStatus == {"absent", "torn", "whole"}

InitPc == {"initState", "initStateWrite", "initCheck", "initOpen", "initWrite"}
LogPc == {"load", "read", "reserve", "reserving", "recording"}
RunningPc == InitPc \cup LogPc
EndedPc == {"done", "failed", "crashed"}

Running(p) == pc[p] \in RunningPc
MayStart(p) ==
  /\ pc[p] = "new"
  /\ Exclusive => \A q \in Invocation : ~Running(q)

GoTo(p, place) == pc' = [pc EXCEPT ![p] = place]

Init ==
  /\ stateFile = "absent" /\ stateSeq = 0
  /\ manifestFile = "absent" /\ actions = <<>>
  /\ pc = [p \in Invocation |-> "new"]
  /\ batch = [p \in Invocation |-> <<>>]
  /\ seq = [p \in Invocation |-> 0]
  /\ mem = [p \in Invocation |-> <<>>]
  /\ done = [p \in Invocation |-> 0]
-----------------------------------------------------------------------------
(* write_text: open the file, then write it.  When another invocation has  *)
(* written the file since this one opened it, the two texts overlap: the   *)
(* file holds this one's text, or this one's followed by the tail of a     *)
(* longer one, which is not JSON.                                          *)

OpenState == stateFile' = "torn" /\ UNCHANGED stateSeq

WriteState(n) ==
  \/ stateFile' = "whole" /\ stateSeq' = n
  \/ stateFile = "whole" /\ stateFile' = "torn" /\ UNCHANGED stateSeq

OpenManifest == manifestFile' = "torn" /\ UNCHANGED actions

WriteManifest(list) ==
  \/ manifestFile' = "whole" /\ actions' = list
  \/ manifestFile = "whole" /\ manifestFile' = "torn" /\ UNCHANGED actions
-----------------------------------------------------------------------------
(* cmd_init                                                                *)

StartInit(p) ==
  /\ MayStart(p)
  /\ InitAgain \/ manifestFile = "absent"
  /\ GoTo(p, "initState")
  /\ UNCHANGED <<files, locals>>

\* The repository is not a directory, or the artifact root lies inside it.
InitRefuse(p) ==
  /\ pc[p] = "initState"
  /\ GoTo(p, "failed")
  /\ UNCHANGED <<files, locals>>

InitOpenState(p) ==
  /\ pc[p] = "initState"
  /\ OpenState
  /\ GoTo(p, "initStateWrite")
  /\ UNCHANGED <<manifestFile, actions, locals>>

\* Mutant: the first number handed out is 0.
InitWriteStateFromZero(p) ==
  /\ pc[p] = "initStateWrite"
  /\ WriteState(-1)
  /\ GoTo(p, "initCheck")
  /\ UNCHANGED <<manifestFile, actions, locals>>

InitWriteState(p) ==
  /\ pc[p] = "initStateWrite"
  /\ WriteState(0)
  /\ GoTo(p, "initCheck")
  /\ UNCHANGED <<manifestFile, actions, locals>>

InitCheckManifest(p) ==
  /\ pc[p] = "initCheck"
  /\ GoTo(p, IF manifestFile = "absent" THEN "initOpen" ELSE "done")
  /\ UNCHANGED <<files, locals>>

InitOpenManifest(p) ==
  /\ pc[p] = "initOpen"
  /\ OpenManifest
  /\ GoTo(p, "initWrite")
  /\ UNCHANGED <<stateFile, stateSeq, locals>>

InitWriteManifest(p) ==
  /\ pc[p] = "initWrite"
  /\ WriteManifest(<<>>)
  /\ GoTo(p, "done")
  /\ UNCHANGED <<stateFile, stateSeq, locals>>
-----------------------------------------------------------------------------
(* cmd_log and cmd_coverage: State.load, then _append_actions              *)

StartLog(p, b) ==
  /\ MayStart(p)
  /\ batch' = [batch EXCEPT ![p] = b]
  /\ GoTo(p, "load")
  /\ UNCHANGED <<files, seq, mem, done>>

\* State.load: no state file is an OdinError, a torn one a decoding error.
Load(p) ==
  /\ pc[p] = "load"
  /\ IF stateFile = "whole"
     THEN seq' = [seq EXCEPT ![p] = stateSeq] /\ GoTo(p, "read")
     ELSE UNCHANGED seq /\ GoTo(p, "failed")
  /\ UNCHANGED <<files, batch, mem, done>>

\* The --from-json file cannot be read, or coverage.measure raises.
GiveUp(p) ==
  /\ pc[p] = "read"
  /\ GoTo(p, "failed")
  /\ UNCHANGED <<files, locals>>

\* Mutant: the command starts from an empty manifest.
ReadManifestAfresh(p) ==
  /\ pc[p] = "read"
  /\ mem' = [mem EXCEPT ![p] = <<>>]
  /\ GoTo(p, "reserve")
  /\ UNCHANGED <<files, batch, seq, done>>

\* Mutant: a manifest that does not parse counts as one that is not there.
ReadManifestForgiving(p) ==
  /\ pc[p] = "read"
  /\ mem' = [mem EXCEPT ![p] = IF manifestFile = "torn" THEN <<>> ELSE actions]
  /\ GoTo(p, "reserve")
  /\ UNCHANGED <<files, batch, seq, done>>

\* read_json of the manifest: an absent file is an empty manifest.
ReadManifest(p) ==
  /\ pc[p] = "read"
  /\ IF manifestFile = "torn"
     THEN UNCHANGED mem /\ GoTo(p, "failed")
     ELSE mem' = [mem EXCEPT ![p] = actions] /\ GoTo(p, "reserve")
  /\ UNCHANGED <<files, batch, seq, done>>

NewRecord(p) == [seq |-> seq[p], by |-> p, nth |-> done[p] + 1]

\* next_seq, up to the open of the state file in save.
OpenForNumber(p) ==
  /\ pc[p] = "reserve"
  /\ done[p] < Len(batch[p])
  /\ seq' = [seq EXCEPT ![p] = @ + 1]
  /\ OpenState
  /\ GoTo(p, "reserving")
  /\ UNCHANGED <<manifestFile, actions, batch, mem, done>>

\* Mutant: next_seq counts in memory and forgets to save the number.
TakeNumberUnsaved(p) ==
  /\ pc[p] = "reserving"
  /\ WriteState(stateSeq)
  /\ IF batch[p][done[p] + 1]
     THEN /\ mem' = [mem EXCEPT ![p] = Append(@, NewRecord(p))]
          /\ done' = [done EXCEPT ![p] = @ + 1]
          /\ GoTo(p, "reserve")
     ELSE UNCHANGED <<mem, done>> /\ GoTo(p, "failed")
  /\ UNCHANGED <<manifestFile, actions, batch, seq>>

\* Mutant: a record without id or status ends the batch, and what came before
\* it is recorded.
TakeNumberLenient(p) ==
  /\ pc[p] = "reserving"
  /\ WriteState(seq[p])
  /\ IF batch[p][done[p] + 1]
     THEN /\ mem' = [mem EXCEPT ![p] = Append(@, NewRecord(p))]
          /\ done' = [done EXCEPT ![p] = @ + 1]
          /\ GoTo(p, "reserve")
     ELSE UNCHANGED <<mem, done>> /\ GoTo(p, "recording")
  /\ UNCHANGED <<manifestFile, actions, batch, seq>>

\* The number is saved; the record is kept in memory, or the whole command
\* ends with an OdinError because the record lacks an id or a status.
TakeNumber(p) ==
  /\ pc[p] = "reserving"
  /\ WriteState(seq[p])
  /\ IF batch[p][done[p] + 1]
     THEN /\ mem' = [mem EXCEPT ![p] = Append(@, NewRecord(p))]
          /\ done' = [done EXCEPT ![p] = @ + 1]
          /\ GoTo(p, "reserve")
     ELSE /\ UNCHANGED <<mem, done>>
          /\ GoTo(p, "failed")
  /\ UNCHANGED <<manifestFile, actions, batch, seq>>

OpenForBatch(p) ==
  /\ pc[p] = "reserve"
  /\ done[p] = Len(batch[p])
  /\ OpenManifest
  /\ GoTo(p, "recording")
  /\ UNCHANGED <<stateFile, stateSeq, locals>>

RecordBatch(p) ==
  /\ pc[p] = "recording"
  /\ WriteManifest(mem[p])
  /\ GoTo(p, "done")
  /\ UNCHANGED <<stateFile, stateSeq, locals>>
-----------------------------------------------------------------------------
\* The invocation is killed, the machine stops, or a write fails for lack of
\* space: the files stay as they are.
Crash(p) ==
  /\ Running(p)
  /\ GoTo(p, "crashed")
  /\ UNCHANGED <<files, locals>>

InitStep(p) ==
  \/ InitRefuse(p) \/ InitOpenState(p) \/ InitWriteState(p)
  \/ InitCheckManifest(p) \/ InitOpenManifest(p) \/ InitWriteManifest(p)

LogStep(p) ==
  \/ Load(p) \/ GiveUp(p) \/ ReadManifest(p)
  \/ OpenForNumber(p) \/ TakeNumber(p) \/ OpenForBatch(p) \/ RecordBatch(p)

Start(p) == StartInit(p) \/ \E b \in Batches : StartLog(p, b)

Next == \E p \in Invocation : Start(p) \/ InitStep(p) \/ LogStep(p) \/ Crash(p)

Spec == Init /\ [][Next]_vars
-----------------------------------------------------------------------------
(* Properties                                                              *)

Record == [seq : Nat, by : Invocation, nth : Nat]

\* Every variable keeps its range; no command makes more records than asked.
TypeOK ==
  /\ stateFile \in FileStatus /\ stateSeq \in Nat
  /\ manifestFile \in FileStatus /\ actions \in Seq(Record)
  /\ pc \in [Invocation -> {"new"} \cup RunningPc \cup EndedPc]
  /\ batch \in [Invocation -> Seq(BOOLEAN)]
  /\ seq \in [Invocation -> Nat]
  /\ mem \in [Invocation -> Seq(Record)]
  /\ done \in [Invocation -> Nat]
  /\ \A p \in Invocation : done[p] <= Len(batch[p])

Increasing(list) ==
  \A i \in 1..Len(list) : \A j \in 1..(i - 1) : list[j].seq < list[i].seq

Bounded(list, n) == \A i \in 1..Len(list) : list[i].seq <= n

\* "Sequence numbers are monotonic": along the manifest every number is above
\* all the earlier ones, whatever crashed or failed between two commands.
SeqIncreasing == Increasing(actions)

\* A state file that can be read never lags behind the manifest, so the next
\* command cannot hand out a recorded number a second time.
StateCovers == stateFile = "whole" => Bounded(actions, stateSeq)

\* Actions are identified by their numbers: no two entries share one.
SeqIdentifies ==
  \A i, j \in 1..Len(actions) : actions[i].seq = actions[j].seq => i = j

\* The k-th record of invocation p stands at place i of a list.
Stands(list, i, p, k) ==
  /\ i \in 1..Len(list)
  /\ list[i].by = p /\ list[i].nth = k

\* A command that reported its records as written keeps them: whatever other
\* commands did since, whoever can read the manifest finds each record in it.
\* The manifest can be torn only while a later command rewrites it, or because
\* one was killed in that; then the records are lost with the rest of the log.
AckRecorded ==
  \A p \in Invocation : pc[p] = "done" /\ batch[p] # <<>> =>
    \/ /\ manifestFile = "whole"
       /\ \A k \in 1..Len(batch[p]) : \E i \in 1..Len(actions) : Stands(actions, i, p, k)
    \/ /\ manifestFile = "torn"
       /\ \E q \in Invocation : pc[q] \in {"recording", "crashed"} /\ done[q] = Len(batch[q])

\* A record of a batch stands among all the others of its batch, in order and
\* with consecutive numbers, none of them invalid.
WholeBatchAt(list, i) ==
  LET p == list[i].by
      k == list[i].nth
  IN  /\ k \in 1..Len(batch[p])
      /\ \A m \in 1..Len(batch[p]) :
            /\ batch[p][m]
            /\ Stands(list, i - k + m, p, m)
            /\ list[i - k + m].seq = list[i].seq - k + m

\* A batch is recorded as a whole or not at all, even when commands run at
\* once, overwrite one another's files, fail half-way or are killed.
BatchAtomic == \A i \in 1..Len(actions) : WholeBatchAt(actions, i)

\* Run one after another, the commands implement the abstract ledger: while a
\* command is writing the manifest, the ledger is what it held before.
Recording == \E p \in Invocation : pc[p] \in {"initWrite", "recording"}

Ledger == INSTANCE ActionLedger WITH
  ledger <- [i \in 1..Len(actions) |-> actions[i].seq],
  high <- stateSeq,
  readable <- manifestFile # "torn" \/ Recording

LedgerSpec == Ledger!LedgerSpec
=============================================================================
