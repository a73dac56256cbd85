# A TLA+ model of the ODIN toolkit

ODIN (`src/scripts/odin.py` and `src/scripts/odin_lib/`) is a set of commands an
agent runs, one after another, to inventory a repository without touching it, to
collect findings in a *packet*, and to package the packet. The commands share no
memory: everything they know of each other is in the files of one artifact root.
This directory models the parts where that makes the program hard to get right,
checks them with TLC and proves the central properties with TLAPS.

## 1. The system

| Component | Source | State it keeps | Operations |
|---|---|---|---|
| run state | `odin_lib/common.py` `State` | `odin-state.json`: roots, policies, the counter `seq` | `init`, `State.load`, `State.save`, `next_seq` |
| action log | `odin.py` `cmd_init`, `cmd_log`, `_append_actions` | `findings/ACTION_MANIFEST.json` | seed, append a batch |
| repository walk | `odin_lib/inventory.py` `walk` | stack, `seen_dirs`, error rows, inside one process | scan, yield, descend, refuse an alias |
| inventory baseline | `inventory.py` `run_inventory`, `build_record`, `collect_git_state` | `inventory/files.jsonl`, `vcs-state.json` and a dozen reports | `inventory` |
| integrity verification | `verify.py` `verify_integrity` | `inventory/integrity-verification.json` | `verify` |
| per-file documents | `odin.py` `cmd_docstub` | `files/**.md` | `docstub` |
| validation | `verify.py` `validate` | `VALIDATION.json` | `validate` |
| packaging | `package.py` | `MANIFEST.sha256`, `findings.zip` | `manifest`, `package` |
| coverage | `coverage.py` | scratch worktree, result file, `tests/coverage-summary.json` | `coverage`: a child process under a timeout |
| text scans | `scan.py` | findings, `seen`; the `todos` and `secrets` reports | `todos`, `secrets`, the packet's re-scan |
| archives | `archives.py` | the table read so far | `inspect`, for each archive of an inventory |
| classification | `classify.py`, `inventory.py` `build_record` | none | pure functions of bytes and names, and the choice among what they say |
| README tooling | `readme.py` | `readme/*` reports | `readme-scan`, `readme-lint` |
| diagram rendering | `odin.py` `cmd_render` | `graphs/rendered/*` and its report | `render`: an external program for each diagram |
| environment, status | `odin.py` | reports | `env`, `status` |
| installers | `install/` | none at run time | copy the toolkit |

How they interact: every command but `init` loads the run state. `log` and
`coverage` take numbers from it and rewrite the action log. `inventory` and
`verify` both drive `walk`; `verify` reads what `inventory` wrote; `docstub`
reads `files.jsonl`; `validate` reads the whole packet, the action log and the
last integrity verdict; `manifest` and `package` read every file of the packet.

What is hard:

- *Files as shared state.* Every file is rewritten with `open(path, "w")`: it is
  empty, then partial, then whole. There is no lock, no temporary file and no
  rename. A kill or a full disk leaves what is there.
- *Two files that must agree.* The counter in the state file and the numbers in
  the action log; the rows of `files.jsonl` and the git state beside them;
  the manifest and the packet.
- *Stale memory.* A command reads, works (`coverage` for minutes) and writes back
  what it read, changed.
- *A repository that others own.* It may change between any two samples.
- *Boundaries*: an empty file, a directory inside itself, a batch with one bad
  record, a cap that is reached.

What makes each component correct: numbers in the log increase and identify;
a batch is logged as a whole or not at all; what was reported as logged stays while the log can be read.
The walk ends, scans each directory once, in one order, and loses nothing. A
`PASS` of `verify` means something, and a `FAIL` is not raised by an untouched
repository. A manifest lists exactly the packet. A numeric coverage claim has a
measurement behind it. A scan that stops early says so or keeps the first matches; an
archive's counts are about what was read; a lint `PASS` means the rules are kept. Different
files have different documents, none where another needs a directory. The tree reads as
the paths it stands for; a text is told by its encoding; git's file status and the attributes
of a path are those that git means; a label comes from the strongest evidence, and role and
origin do not contradict each other. What is called rendered or measured was.

## 2. The modules

| Module | Models | Kind |
|---|---|---|
| `ActionLedger` | what the action log promises its reader | abstract specification |
| `ActionManifest` | run state and action log, `init`, `log`, the recording of `coverage` | component; implements `ActionLedger` |
| `ActionManifestProofs` | theorems about `ActionManifest`, and that it implements `ActionLedger` | TLAPS |
| `RepoWalk` | `inventory.walk` | component |
| `RepoWalkProofs` | theorems about `RepoWalk` | TLAPS |
| `Integrity` | baseline of `inventory` and `verify`, composed with a changing repository | component |
| `IntegrityProofs` | theorems about `Integrity` | TLAPS |
| `Packet` | the packet: the agent's edits, `inventory` and `verify` as single steps, `docstub`, `validate` | component |
| `Packaging` | `manifest` and `package`, composed with `Packet` | component, with the specification of both |
| `PackagingProofs` | theorems about both | TLAPS |
| `Coverage` | `coverage`: the command, its child and the processes it starts | component |
| `CoverageProofs` | theorems about `Coverage` | TLAPS |
| `Scans` | `scan_todos`, `scan_secrets` | pure algorithm |
| `ArchiveTable` | `archives.inspect` and the tests for escaping names | pure algorithm |
| `ReadmeLint` | `readme.lint` | pure algorithm |
| `DocPath` | `common.safe_doc_path` | pure algorithm |
| `TreeListing` | `inventory.render_tree` | pure algorithm |
| `TextSniff` | `inventory.sniff_text`, `detect_eol` | pure algorithm |
| `GitStatus` | `inventory.collect_git_file_status` | pure algorithm |
| `Attributes` | `inventory.load_gitattributes`, `match_gitattributes` | pure algorithm |
| `Classification` | the conclusions of `inventory.build_record`; `classify.role_hints`, `origin_hints` | pure algorithm |
| `Rendering` | `odin.cmd_render` | pure algorithm |
| `LineCounts` | `coverage._child_main` after the run, the sums of `measure` | pure algorithm |
| `Algorithms` | the eleven pure algorithms against reference definitions | composition |
| `Loops` | what a loop has after each turn, for any turn and a sequence of any length | TLAPS |
| `LoopProofs` | theorems about `Scans`, `ArchiveTable`, `LineCounts`, `Rendering`, `TreeListing`, `TextSniff` | TLAPS |
| `AlgorithmsProofs` | theorems about `DocPath`, `Classification`, `ReadmeLint`, `GitStatus`, `Attributes` | TLAPS |
| `MC*` | small instances for TLC | |

Definitions marked `Mutant:` are plausible mistakes in the code; no specification
uses them. Each property has one that breaks it.

### ActionManifest

A process per invocation of `odin.py`, with a program counter and private copies
of what it read. A file is `absent`, `torn` (not JSON) or `whole`, and holds its
last complete contents. `write_text` is two steps: `OpenState`/`OpenManifest`
truncate, `WriteState`/`WriteManifest` write. When another invocation has written
the file between the two steps of this one, the texts overlap: the file then holds
this text alone or this text and a tail of the other, which is not JSON; both
outcomes are allowed.

| Code | Actions |
|---|---|
| `cmd_init` | `StartInit`, `InitRefuse`, `InitOpenState`, `InitWriteState`, `InitCheckManifest`, `InitOpenManifest`, `InitWriteManifest` |
| `cmd_log`, `cmd_coverage` up to the log | `StartLog`, `Load`, `GiveUp` |
| `_append_actions` | `ReadManifest`, then per record `OpenForNumber`, `TakeNumber`, then `OpenForBatch`, `RecordBatch` |
| kill, power loss, full disk | `Crash` at any step |

A record is its number, its invocation and its place in its batch. A batch is a
sequence of Booleans: `FALSE` is a record without an action id or a status, which
ends the command after its number was saved. `Exclusive` says whether commands may
overlap; `InitAgain` whether `init` may run over an existing manifest.

`ActionLedger` knows a sequence of numbers, the highest number handed out and
whether the ledger is readable. The refinement mapping takes the numbers of
`actions`, `stateSeq`, and a manifest that is not torn or is just being written.

### RepoWalk

The repository is any function from directories and names to directories, leaves or
nothing, so it contains every tree and also every cycle and alias (junctions, a
folder mapped twice: `resolve()` gives the physical directory). Links and special
files are leaves: `lstat` does not call them directories. `items` is the set of
names the inner loop has not reached; it takes the greatest first (`NextItem`),
which is what the reverse sort does. Each `scandir`, `lstat` and `resolve` may fail.
When `resolve` fails, the path itself becomes the key; where the path is already the
resolved one this is no different from success, otherwise the key is new and the
directory is pushed without being noted (`DescendUnresolved`).

The docstring of `walk` says it yields "in bytewise order". Each directory's entries
are yielded in descending order and its subdirectories later; `run_inventory` sorts the
rows before it writes them, so the packet does not depend on it. What the code does
guarantee, that *directories* are scanned in ascending preorder, is `ScanOrder`.

### Integrity

`repo` maps each path to nothing or to contents with an accessibility (`open`,
`locked`: `lstat` works and reading does not, `hidden`: the walk can only record an
error), and holds an abstract version control state. `Change` replaces the state of
one file or of version control at any moment, in the middle of a command too.
`inventory` takes the git report, then for each path in order examines (`lstat`: the
size) and hashes (`HashRecord`), then writes `files.jsonl` and later
`vcs-state.json`. `verify` loads the rows, walks (sizes), compares the sets of paths,
compares path by path (`Deviates`: skip without a hash, size, hash), takes the git
report and judges. `Killed`, `KilledInRows` (a prefix of whole lines, or a torn line)
and `KilledInVcs` end a command anywhere; a torn file ends `verify` with the previous
verdict in place. The variables marked *history* record what the properties compare:
the repository when a command and when the baseline began, and whether it changed
meanwhile.

### Packet and Packaging

The packet is a function from the files in it to their contents. There is one document
per repository file; of the inventory, `files.jsonl` and the integrity verdict;
`VALIDATION.json`; `MANIFEST.sha256`; and one file `Own` that stands for all that the
agent and the other commands add, which may be clean, faulty, not JSON, or absent. A
document is `empty` (opened), a `stub` or `full`, and remembers the contents it states. A
digest stands for the contents it is taken from. `With` is a table with one entry replaced;
it is written as one function, because the provers do not know the `:>` and `@@` of TLC.

| Code | Actions |
|---|---|
| `cmd_docstub` | `StartDocstub`, `OpenDoc`, `WriteDoc`, `EndDocstub` |
| `validate` | `StartValidate`, `CheckStructure`, `CheckDocuments`, `CheckContents`, `CheckVerdict`, `OpenReport`, `WriteReport`; `Unparsed` for a file that one of the checks reads and cannot parse |
| `build_manifest`, `verify_manifest` | `StartManifest`, `HashMember`, `OpenManifest`, `WriteManifest`, `VerifyManifest` |
| `build_zip`, `cmd_package` | `StartSkip`, `ListMembers`, `AddMember`, `CloseArchive`, `FinishPackage` |
| `run_inventory`, `verify_integrity` | `Inventory`, `Verify`, one step each: their detail is the subject of `Integrity` |

`AgentEdit` may come between any two steps, in the middle of a command too; a command
may be killed at any step, with what it leaves: an empty document, a torn report, a
prefix of the manifest (`KilledInManifest`), an archive without its directory. Files are
taken in the order of their paths, which is `Order`. The variables `fresh`, `covers`,
`lastZip`, `tornReport`, `stubKilled` and `rebased` are history: they say which edits,
kills and inventories came in between, so that the properties can say *unless*.

### Coverage

A command has a place (`pc`), and so has each process that it brings about (`at[n][q]`): its
child, and what the measured code starts. The child is in a session of its own, so it is in
no way ended by a kill of the command. A started process is in the process group of the child
or not (`group`), and holds its output pipe or not (`piped`). `communicate()` returns when the
child has ended and nobody holds the pipe (`PipeClosed`): `Communicate` with the timeout,
`Drain` after it without; a timeout kills those in `group` (`Kill`).

| Code | Actions |
|---|---|
| `cmd_coverage`, `measure`, `_run_process` | `Start`, `Clear`, `Fail`, `Launch`, `Communicate`, `Timeout`, `Drain`, `WriteLog`, `Judge`, `CopyNatives`, `OpenSummary`, `WriteSummary`, `Record` |
| `_child_main`, in the child and in any copy of it | `TargetEnds`, `WriteNatives`, `OpenResult`, `WriteResult`; `Spawn` for a fork in the target; `Dies` for an early end |
| kill, power loss, full disk | `Killed` at any step |

A process that the target makes with `os.fork()` is a copy of the child. The return, the exit or
the exception that ends the target in it is caught like the child's own (`coverage.py:400-410`),
so it goes on behind the `except` clauses and writes the native files and the result as the child
does, into files that others may be writing: `WriteResult` may leave a mixture that does not
parse. A process that runs another program is one that never ends its target (`Dies`).

All commands share `coverage-run-result.json` and `coverage-native` (`result`, `native`), which
`Clear` removes; both remember who wrote them, as a command and a process of it. `read` and
`shown` are what `measure` and the packet take from them.

### The pure algorithms and Algorithms

Loops over lines, rows or members are folds whose accumulator holds the variables of the
loop; a `break` is a field that makes the rest of the fold do nothing. A pattern is what it
matches, so a line of a scan carries its matches; a line of a README is plain, a fence or a
heading, and may have a forbidden character and links whichever it is. A
parser's exception is an input (`broken`, `gone`), as is the order of the members. In
`Algorithms` one step picks an input and the invariants compare the output with a
definition that has no loop: `LintMeans`, for example, says which fences open a block by
quantifiers over pairs of fences.

`inventory` is `Integrity` as far as its files go; what it writes into them is here. What the
data stands for:

- `DocPath`: a path is a sequence of components, a component a sequence of characters, where a
  reserved name, an escape and the suffix count as one character each. The digest in a
  document's name stands for the path it is taken from, so that it is injective by
  definition; a repository path spelled with the digest of another path is left out.
- `TreeListing`: a component is a sequence of bytes, because the order of whole paths, where
  `/` is a byte among others, is what matters.
- `TextSniff`: a byte is named by the part it can play in UTF-8 (`1` a character of one byte,
  `2` to `4` the first of so many, `c` and `u` a following one). `HeadBytes` is the sample. An
  input is a file cut into characters, and into single bytes where it is not UTF-8, so that
  every file is one.
- `GitStatus`: `Tokens` is what git prints for its entries, a source path as a token of its
  own; `Split` says what code and path the loop takes such a token for.
- `Attributes`: a line carries the paths its pattern matches. The order of the files is that
  of their paths, as in `TreeListing`.
- `Classification`: a signal is the label it gives or none; a path is the kinds of its
  directories. The tables that give both are inputs.
- `Rendering`: the renderer's conduct on each diagram (exit code, whether it wrote) and the
  outputs of an earlier run are inputs.
- `LineCounts`: the counts of the tracer, the file each name resolves to, the executable
  lines and the module names are inputs.

## 3. What is checked

| Run | Instance | Properties | Shows |
|---|---|---|---|
| `ledger_sequential` | 4 invocations, batches of up to two records, valid or not; exclusive; `init` only without a manifest | `TypeOK`, `SeqIncreasing`, `StateCovers`, `AckRecorded`, `LedgerSpec` | run as the protocol says, the log keeps its promises through every crash and invalid record, until a kill tears the manifest |
| `ledger_concurrent` | 4 overlapping invocations, `init` at any time | `BatchAtomic` | overlap loses records and repeats numbers but never splits a batch |
| `ledger_reinit` | exclusive, `init` again | `SeqIdentifies` | **violated**: finding 1 |
| `walk` | 3 directories, 2 names: 15625 graphs; one failing `resolve` | `TypeOK`, `ScannedOnce`, `ScanOrder`, `Complete`, `Termination` | the traversal is right on every small graph |
| `integrity` | 2 files, 3 contents (two of one size, one empty), 2 git states, 1 change, 2 inventories | `TypeOK`, `DetectsChange`, `PassCovers`, `FalseAlarmIsEmptyFile` | exactly what a verdict means |
| `integrity_empty` | the same, 1 inventory | `NoFalseAlarm` | **violated**: finding 2 |
| `integrity_unreadable` | the same, 1 inventory | `PassIsIdentical` | **violated**: finding 3 |
| `packet` | 1 repository file in 2 versions, 5 commands, 1 edit, 1 change, 1 kill | `TypeOK`, `ReportMeans`, `ShippedSound`, `ShippedListed`, `Repackaged` | what a validation report, a shipped archive and its manifest are worth |
| `packet_complete` | the same, 4 commands, no change | `PassIsComplete` | **violated**: finding 4 |
| `coverage` | 2 commands; the code of the first may start one process, in the group or detached, with the pipe or without | `TypeOK`, `ClaimBacked`, `RecordTells`, `Ends` | a numeric claim has a measured run behind it, the record is true, and the command ends unless its pipe is held |
| `coverage_timeout` | 1 command, which may start one process | `EndsAfterTimeout` | **violated**: finding 5 |
| `algorithms` | todo files up to 4 lines, secret files up to 3, archives up to 4 members, names up to 3 parts, READMEs up to 6 lines; 2 attribute files, 3 status entries, files up to 5 characters with a sample of 6 bytes, and what is listed below | `TodosTold`, `SecretsFirst`, `DuplicatesTold`, `CountsTold`, `CapsExact`, `EscapeAgrees`, `LintMeans`, `DocsApart`, `TreeReads`, `TextTold`, `StatusParsed`, `AttributesMean`, `ClassificationMeans`, `HintsAgree`, `RenderTells`, `CountsMean` | the pure algorithms compute what they are for, but for the exceptions each property names |

Bounds, and why they are enough:

- *Invocations (4).* `init` and three commands: one whose effects are at stake, one
  that is killed or fails, one that comes after. In the concurrent run the
  invocations are interchangeable and symmetry is used; in the sequential run, which
  checks a refinement, it is not.
- *Batches (two records).* A batch with an invalid record after a valid one is the
  shortest that could be recorded in part.
- *Directories and names (3, 2).* A cycle through another directory, a directory
  reached along two paths, one that contains itself, and siblings in both orders all
  occur. `ResolveBudget = 1`: each failure can let one more visit through, and an
  unbounded number on a cycle would be an unbounded walk.
- *Files (2).* A kill in the rows must be able to leave one row and lose the other.
  *Contents (3)*: same content, other content of the same size, other size, size 0.
  *Changes (1)*: the one change is placed at every step; two changes that undo each
  other are found by nobody. *Inventories (2)*: the second meets the files of the first.
- *Packet: one file.* Which documents exist, and in what state, differs file by file and
  no step relates two of them except their order. *Commands (5)*: `docstub`, `verify`,
  `inventory`, `validate` and `package` is the shortest sequence that ships a document or a
  verdict about an older baseline. *One edit, one change, one kill*, each at every step:
  each property names the one disturbance that it excepts. The two versions are
  interchangeable, and symmetry is used: no property of the run is a liveness property.
- *Coverage: two commands, one started process.* The first command leaves files, its child or
  the started process behind, the second meets them. With the child there are two writers of
  one command and, with the second child, three of the same files. A second started process,
  or one of the second command, would do nothing that the first cannot do to the second
  command. (The theorems have no bound.)
- *Algorithms.* Caps of two and three are passed by one and by two; two files show what the
  scan keeps from one to the next. Three parts and three more make a name go up, down and up
  again. Six lines hold two blocks, one marker inside another's block, and a heading behind
  them; The Rundown as fifth heading is the first that is too low.
- *Paths.* One component of up to three characters out of eight meets each rule of
  `safe_doc_path` with every other; a second component below one of six directories is
  what a document can be in the way of. (The theorems have no bound.)
- *Trees*: up to eight entries and a limit of seven, names that sort before `/`, after it, and
  are prefixes of each other; an entry beside a directory, below one beside it, and behind
  a path that reads the same. *Texts*: characters of one to four bytes and stray bytes, over
  a sample of six bytes: it ends within a character at every place, and so does the sample
  without its last four.
- *Status*: three entries, so that a token taken amiss has one before it and one after;
  source paths that look like a rename, like another code, or too short. *Attributes*: two
  files at any two of three depths, above a file in a directory that sorts before
  `.gitattributes` or not; two lines in one file and two tokens in one line.
- *Signals*: every choice of no label, one and another, up to exchanging the labels.
  *Origins*: paths of up to two directories of six kinds. *Diagrams*: two, each with any
  exit code, output or none, before and now. *Counts*: two names for one file, two files of
  one module name, a file that does not parse, a file outside.

Deadlock is not checked in these runs: every command ends, and after the bounded
number of commands nothing more happens. (In the walk the end is `Finished`, and
`Termination` says that it is reached.)

*Fairness.* `walk` has weak fairness of `Next`: the generator runs in one process which its
caller drives to the end, and the calls of the operating system are taken to return.
`Coverage` has weak fairness of the command's own steps and of `Timeout`: the command is a
sequential process, and `communicate(timeout=...)` gives up when time has passed. Nothing
is assumed of the child or of what it starts: measured code may run or sleep for ever.

## 4. What is proved

For any set of invocations and any batches (`ActionManifestProofs`):

- `TypeCorrect`: `Spec => []TypeOK`, by `TypeInv`, which adds what the batch loop knows of
  its own place.
- `BatchesAtomic`: `Spec => []BatchAtomic`, in every mode of use, without any
  assumption on overlap. `BatchAtomic` alone is not inductive: the manifest is
  overwritten from private copies. `BatchInv` adds that every copy consists of
  settled entries (a whole batch of an invocation that has ended well) followed by
  the invocation's own records so far, in order and with consecutive numbers.
- `NumbersIncrease`, `NumbersCovered`, `Acknowledged`: `Sequential => (Spec => []...)`
  for `SeqIncreasing`, `StateCovers`, `AckRecorded`, where
  `Sequential == Exclusive /\ ~InitAgain`. `SeqInv` says what the one running
  invocation's copies have to do with the files at each place of its program. What was
  acknowledged can only be read while the manifest can: `AckKept` is about its last complete
  contents, and `TornInv` adds who can have torn it, a command that is writing its records or
  was killed when it had all its numbers.

- `ImplementsLedger`: `Sequential => (Spec => LedgerSpec)`, one lemma
  for each kind of step. Writing the batch appends to the ledger, saving the counter takes a
  number or, in `init`, starts again, a kill between the truncation of the manifest and its
  writing tears the ledger, and everything else is a stutter.
  Besides `SeqInv` it needs `InitFirst`: an `init` that has not opened the manifest works on a
  root without one, so that what it writes is the first contents and no loss.

The run `ledger_reinit` shows that `~InitAgain` is needed, and the concurrent mode
loses records as soon as `Exclusive` is dropped.

For any directories, names, graph and failures (`RepoWalkProofs`):

- `TypeCorrect`: `Spec => []TypeOK`.
- `NeverScannedTwice`: `Spec => []ScannedOnce`. `OnceInv` adds that the directories
  scanned and waiting are pairwise different and all in `seen`, as long as no resolve
  has failed.
- `ScannedInOrder`: `Spec => []ScanOrder`. `OrderInv` says of the stack what the order of
  the scanned directories rests on: its places stand in opposite order, any two of them part
  at some name (none is below another), all are behind every directory scanned, and those
  pushed from the directory in hand are behind all its names not yet reached (`Waits`).
- `NothingLost`: `Spec => []Complete`. `CompleteInv` adds that a directory in `seen` is
  scanned or waits on the stack (`Reached`), so that an alias is refused only for a directory
  that is or will be visited, and that a path is yielded from one place only. That needs
  `OrderInv`, from which no path is scanned twice even when `resolve` fails.

For any files, contents and numbers of changes, commands and kills (`IntegrityProofs`):

- `TypeCorrect`: `Spec => []TypeOK`.
- `PassCoversBaseline`, `ChangesDetected`, `FalseAlarmsAreEmptyFiles`: `Spec => []...` for
  `PassCovers`, `DetectsChange`, `FalseAlarmIsEmptyFile`. A verdict compares two samples that
  lie commands apart, so the invariant `IInv` follows what each sample says of the
  repository as it was: what a walk has gathered, if nothing changed since it began
  (`WalkInv`); which rows have their hashes (`InventoryInv`); what a whole baseline says of
  the repository it was taken from (`BaselineInv`); that what has been compared without a
  deviation matches, and that between two samples of one repository only an empty file
  deviates (`CompareInv`); and what the verdict was made from (`JudgeInv`).

For any documents and versions, any number of commands, edits, changes and kills
(`PackagingProofs`, for the specification of `Packet` and `Packaging` together):

- `TypeCorrect`: `Spec => []TypeOK`.
- `ReportTellsTheTruth`: `Spec => []ReportMeans`. `SampleInv` says, at each step of a
  `validate` that nobody has disturbed, what the problems found so far, or their absence,
  mean for the packet.
- `ShippedIsSound`: `Spec => []ShippedSound`, by `SourceInv`: where the documents and the
  verdict come from, and which of them a kill may have left empty.
- `ShippedIsListed`: `Spec => []ShippedListed`, by `ManifestInv` (the manifest under way, then
  the written one, agrees with the packet while `covers` says so) and `ArchiveInv` (the
  archive under way has the files of the packet it is past).
- `SamePacketSameArchive`: `Spec => Repackaged`, an action property, by `LastZipInv`: the last
  archive, as long as it is remembered, is a function of the packet.

  `IInv` is the conjunction of these parts with `ControlInv`, which says where each command
  may be in each mode, and `PacketInv`, which says what a file of the packet may hold.

For any number of commands, kills and processes (`CoverageProofs`):

- `TypeCorrect`: `Spec => []TypeOK`.
- `ClaimsBacked`: `Spec => []ClaimBacked`. The claim in the packet survives the command
  that made it, so the invariant `IInv` says where everything a claim is made from can
  come from: a process that is alive when its command has ended is one that it left behind
  (`LeftBehind`: it was killed, or the process has let go of the pipe, and after a timeout the
  process is out of the group), since a command waits for all that hold its pipe (`AliveInv`);
  one that was never started is in no group and holds no pipe (`UnstartedInv`); whoever is
  named as a writer has been started (`WriterInv`), so that no later `Spawn` changes where it
  stands; from `Clear` on, what is in the scratch files is by a process of this command or by
  one left behind (`ScratchInv`); a command that goes on to measure was not timed out and its
  child has exited (`ChildInv`); and the summary was written by a command started before
  (`WrittenInv`).
- `RecordsTell`: `Spec => []RecordTells`, from the same invariant and `PolicyInv`: without
  a sandbox no child is ever started.

For inputs of any number and any length (`Loops`, `LoopProofs`, `AlgorithmsProofs`):

The loops of the code are folds in the model, and what a fold computes is induction over data.
The library's theorems for it take the operator of a step as a parameter of the theorem, which
the provers cannot instantiate. `Loops` has that operator as a *constant of the module* instead,
so that an `INSTANCE` gives it a value: `Start`, `Turn`, `Finish` and `Longer` say what
`FoldLeft` has before the first turn, after each, after the last, and over one element more.
They are proved from the definition of the fold (a function on the sets of indices), whose
solution is constructed, and `UpTo`, the induction over the turns, from `Least`, which rests on
the library's theorem that finite sets have no infinite descending sequence. Each loop of the code
is an instance (`Reads`, `TodoLines`, `SecretRows`, `Lints`, `Takes`, ...). A proof about one
states what the loop has after `k` turns, and shows that it holds at 0, that a turn keeps it, and
that at the end it is the property.

- `CapsAreExact`, `CountsAlwaysTold`: `Spec => []...` for `CapsExact`, `CountsTold`, by `ReadWell`: after
  `k` members `inspect` is still reading and has them all, or it stopped at a cap or an error
  that one of them is the cause of.
- `EscapesAgree`: `Spec => []EscapeAgrees`. The depth counter of `_is_traversing` is the length of
  the path that `normpath` keeps, as long as neither has been above the start (`Below`); once
  one has been, the path starts with `..` for good (`Above`).
- `TodosAlwaysTold`: `Spec => []TodosTold`, by `FileTold` within a file and `RowsTold` over the rows.
- `SecretsAlwaysFirst`, `DuplicatesAlwaysTold`: `Spec => []...` for `SecretsFirst`,
  `DuplicatesTold`. `SeenWell` ties the set of what was seen to the findings and their marks;
  `LinesRead` and `RowsRead` say which lines of the files so far are findings, and in which order.
- `CountsAlwaysMean`: `Spec => []CountsMean`, with `SumCounts`: a sum of cardinalities over a
  finite set is the cardinality of the disjoint union.
- `RenderAlwaysTells`: `Spec => []RenderTells`, by `DoneWell`.
- `LintAlwaysMeans`: `Spec => []LintMeans`, with the exception it names: a forbidden character in
  a fence line. `FenceMeans` says of the marker that `lint` keeps
  which block it is in; `OpenersOf` shows that the fences at which it enters one are the only
  answer to the definition of `Openers`, which has no loop; `HeadsMean` and `ErrorsMean` say
  what has been noted of headings, links and sections.
- `ClassificationAlwaysMeans`: `Spec => []ClassificationMeans`, by `ChosenWell`: the candidates
  are the signals that were given, in the order of the cascade.
- `StatusAlwaysParsed`: `Spec => []StatusParsed`. The tokens are consumed entry by entry as git
  wrote them until an entry derails the loop (`StatusWell`); up to there each entry sets its own
  path and at most the one cut out of a source path (`Spares`).
- `TreeAlwaysReads`: `Spec => []TreeReads`. `Before`, the order of the texts of paths, is a strict
  total order (`PathsOrdered`, with `PartsAt`: where two texts part), so each element of a finite
  set has a rank of its own (`Ranks`) and the listing is sorted and complete (`CombinedSorted`). What
  stands between a directory and an entry below it is below the directory or beside it
  (`BelowOrBeside`), and what is beside it does come between (`BesideComesBetween`); so the
  indented lines, read from the top, give a path exactly if nothing parts it from one of its
  directories (`LineReads`).
- `AttributesAlwaysMean`: `Spec => []AttributesMean`. `DeeperLater`: the file of a directory comes
  behind that of a directory above it unless a component sorts before `.gitattributes`; so of the
  files that speak of a key the last that is read is the deepest, and of its lines the last
  (`FilesHeard`, `FileSays`, `AttrsSay`).
- `TextAlwaysTold`: `Spec => []TextTold`. `Spread` says where each piece lies in the file; in a text
  the decoder waits, at each byte, for what is left of the character (`WaitsForRest`), so a sample
  that ends with a character decodes (`DecodesToEnds`); a decoder that has failed never recovers,
  so what decodes has no byte foreign to UTF-8 (`DecodedIsText`). A count less the number of pairs
  is not zero exactly if one stands alone (`LineEndsCounted`), and a pair of bytes is a piece
  (`PairsArePieces`). Of the marks that match, the first in the code is the longest (`FirstMark`).
- `Injective`: two paths with one document are one path. If nothing was changed in a path,
  its document is its name with a suffix, which tells the path; otherwise the digest is that
  of the original path.
- `InTheWayOnly`: the document of `p` is where that of `q` needs a directory only if `q`
  has, at that place, a directory of the name of `p` with `.md`.
- `DocumentsApart`: `Spec => []DocsApart`, from both and `PathAssumption` (a path is a
  non-empty sequence of components).
- `HintsAlwaysAgree`: `Spec => []HintsAgree`, for directories of any depth. It rests on
  `OriginAssumption`: the roles that file names and extensions give are not among those that
  a directory gives (`PathRoles`), as the tables of `classify.py` have it.

The assumptions on the inputs are what the code guarantees of them: the rows of `files.jsonl`
are one for each path (`SecretInputAssumption`); the sizes in an archive's table are unsigned
fields (`ArchiveInputAssumption`); a name that is split at `/` has a part
(`LinkInputAssumption`); git prints a path once, and the source of every entry that its code says
is renamed or copied (`StatusInputAssumption`); the tracer's counts and the lines of a file are
finitely many (`CountInputAssumption`); the diagrams are the files of one directory, and before a run no
output is of it (`RenderInputAssumption`); the entries of a repository are finitely many and the
directories above each are there (`TreeInputAssumption`); a directory has one file of attributes
(`AttributeInputAssumption`); a CR and an LF behind it are one piece (`TextInputAssumption`); the
rest are types.

Three properties were corrected by their proofs. `StatusParsed` was refuted by an entry whose own
path is what the loop cuts out of the source of another; it now excepts that (`Cut`).
`TreeReads` said only of whole trees when they are read right, and wrongly, for an entry beside a
directory above may part a line as well; it now says of each line exactly when it is (`Parted`).
`TextTold` had left out control bytes, for which a text is rightly called binary. The runs contain
the inputs concerned.

The assumptions are the named `ASSUME`s of the component modules, which TLC evaluates
in the runs; the theorems rest on nothing else. Most of them give the constants their types;
`DocsApartAssumption` says that the documents, all under `files/`, are none of the other files of
the packet. The two largest invariants, the `IInv` of `IntegrityProofs`
and of `PackagingProofs`, were checked with TLC on the instances of the runs before they were proved.

Every invariant and every action property that a passing run checks is a theorem. Only
model-checked are the liveness properties, `Termination` of the walk and `Ends` of `Coverage`:
liveness under fairness and `ENABLED` are out of the prover's reach, and so are `RECURSIVE`
operators, of which there are none. The five properties that runs violate are, of course, not
theorems.

## 5. Findings

1. *Re-running `init` repeats action numbers* (`odin.py:121`). The manifest is kept and
   the counter is set to 0, so the next action is number 1 again. `reference/toolkit.md:33`
   calls the re-run safe and the manifest itself says its numbers increase; `validate`
   would then report the log as not monotonic.
2. *An empty file makes `verify` fail* (`verify.py:133`). `row.get("size_bytes") or -1`
   turns a recorded size of 0 into -1. The test for an untouched repository
   (`tests/test_odin.py:136`) uses a fixture without empty files.
3. *A PASS whose text claims too much* (`verify.py:131`, `:137`, `:182`). Files that could
   not be hashed, then or now, are not compared, yet the text says that every file is
   present with an identical SHA-256.

4. *A PASS over an empty document* (`verify.py:471`, `odin.py:460`). A `docstub` killed
   between opening a document and writing it leaves it empty. Later calls keep it, because
   it exists, and `validate` counts it only as incomplete, which does not block.
   `reference/toolkit.md:250` promises one complete document per file.
5. *A timeout that does not end the command* (`coverage.py:129`). After killing the process
   group the command waits, without a limit, for the end of the output. A process in a
   session of its own is not killed and holds the pipe: with a target that starts
   `sleep 15` so, `--timeout 1` takes 15 seconds. `reference/toolkit.md:159` and
   `reference/sandbox.md:44` promise that the process tree is killed.

Limits that the models show:

- Action log: commands that overlap lose records. `write_text` truncates the manifest before it
  writes it (`common.py:226`), so a kill in a later command's rewrite loses records that earlier
  commands reported as written (the second case of `AckRecorded`); the torn manifest stops every
  later `log` until someone repairs it, and `init` does not.
- `verify` says nothing of links, special files and empty directories.
- Packet: a verdict or a document stays in place when a later `inventory` replaces the
  baseline, and nothing says that it is about the older one (`rebased` in `ShippedSound`).
  `validate` reads its own torn report and fails once for it (`tornReport`). A torn JSON
  file which `validate` interprets ends it with an exception and leaves the previous
  report. `package` does not depend on validation; `--skip-manifest`, or a manifest of
  which a kill left the first lines, gives a `PASS` with members that no manifest lists
  (`covers` in `ShippedListed`). A `package` that fails half-way has already removed the
  previous archive.
- Coverage: a result that cannot be read, or a log or native files that cannot be written,
  end the command with an error after repository code was executed, and no action is
  recorded, though `reference/packet.md:126` says that failed commands are never omitted.
  A process that a command leaves behind can put its counts in place of the next command's
  (`LeftBehind` in `ClaimBacked`). No kill is needed: a daemon that the target forks and that
  lets go of the output pipe survives a command that ends in time, and when its target ends it
  writes the result file like the child (`coverage.py:450`). Within one command, too, the last
  writer counts, which need not be the child.
- Scans and lint: the cap for secrets ends a file without a note, unlike the one for todos
  (`SecretsFirst` says what is kept). `distinct_fingerprints` counts pairs of a rule and a
  fingerprint. The report of a long archive says that its counts cover every member
  (`archives.py:133`) also when reading stopped at a cap; `cap_hit` beside it tells. Links
  inside ZIP members are not looked at. A fence line is skipped before the check for
  forbidden characters that is said to apply everywhere (`readme.py:412`, `:414`), and passes
  with one (the exception in `LintMeans`). Of the order of sections only the place of The Rundown is tested.
- Archives: an exception that `inspect` does not catch is a `parser-crash` without counts or
  listing (`inventory.py:573`), and everything read of that archive until then is dropped.
- Documents: a file `x` beside a directory `x.md` (or a directory `_PATH_MAP.json` at the top)
  keeps the documents of that directory from being written: `docstub` ends with an error
  (`InTheWay` in `DocsApart`). `toolkit.md` promises one for each file.
- Tree: `a-b` and `a.b` are printed between `a/` and what it holds, which then reads as if it
  were theirs (`inventory.py:618`; `Beside` in `TreeReads`).
- Encoding: the second attempt drops four bytes from the end, whatever they are
  (`inventory.py:79`). If that cuts another character, a text in UTF-8 is called
  `unknown-8bit` or `unknown`, and the scans leave the file out; a short file whose only bad
  bytes are the last four is called `utf-8`. A pair of CR and LF that the sample divides
  counts as CR (`inventory.py:109`; both in `TextTold`).
- Git status: of an entry renamed or copied in the worktree alone (` R`, after `git add -N`)
  the source path is taken for an entry (`inventory.py:303`): `README.md` adds a path
  `DME.md` and hides the next entry (`Astray`, `Derailed` in `StatusParsed`).
- Attributes: a line cannot unset a key (`inventory.py:152` is never reached for `-linguist-`,
  and `!` is not known); the file of a directory that sorts before `.gitattributes`, such as
  `-x` or `(app)`, is overruled by that of the directory above it (`Plain` in
  `AttributesMean`); `linguist-vendored=true` is not what `build_record` asks for.
- Classification: `E10`, the weakest rule, starts with `E1` and gets confidence `high`, so
  that `low` is never given (`inventory.py:538`; `ClassificationMeans`). A directory `.svn` has
  role `vcs-metadata` and origin `first-party` (`HintsAgree`).
- Rendering: an exit code of 0 over an output of an earlier run counts as rendered, and a
  renderer that prints nothing for its version ends the command with the earlier report in
  place (`odin.py:560`; `RenderTells`).
- Line counts: two files that `sys.path` gives one module name share one artifact, the
  later overwrites the earlier (`coverage.py:435`; `CountsMean`).

## 6. What is not modelled, and the plan

Not modelled for good: argument parsing, `env`, `status`, `languages`, `readme-scan`, the
installers, and the tables and patterns of classification and scanning. They hold no state
that another part relies on, and a table is its own specification.

Within the modelled parts: `inventory` writes a dozen reports that nothing reads back, and
`Packet` has of them `files.jsonl` only; its symbolic links, hard links, histograms,
sensitivity marks and the submodules in its git status are left out; the agent's many
documents are one; of `inspect` only the parser's failures that it catches are modelled, and not
the `parser-crash` that `inventory` makes of others; measured code that writes the scratch files,
the packet or the log by itself, instead of through `_child_main`, is left out, as are its
threads; what the patterns for secrets, links and diagrams match is not modelled,
only that a match blocks.

Plan, in this order:

1. More abstract specifications, proved as `LedgerSpec` is: `verify` as an observer that
   compares two snapshots, the walk as an enumeration of what can be reached.
2. `coverage` composed with the action log: executed code needs a record, except after the
   errors named above.
