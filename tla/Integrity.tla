------------------------------ MODULE Integrity -----------------------------
(***************************************************************************)
(* The integrity baseline: `inventory` records size and SHA-256 of every   *)
(* regular file and the state of version control (run_inventory), `verify` *)
(* samples the repository again and compares (verify_integrity).           *)
(*                                                                         *)
(* The commands of one artifact root run one after another.  The           *)
(* repository belongs to others: a file, its permissions or the version    *)
(* control state may change between any two samples, a git call may fail,  *)
(* and a command may be killed, in the middle of a file it writes too.     *)
(*                                                                         *)
(* A content stands for its SHA-256 digest: digests of different contents  *)
(* are taken to differ.  Entries that are not regular files, which verify  *)
(* passes over, are left out.                                              *)
(***************************************************************************)
EXTENDS Integers, Sequences, FiniteSets

CONSTANTS
  File,          \* the paths of regular files, as integers in bytewise order
  Contents,      \* what a file may hold
  SizeOf,        \* the size of each content
  Versions,      \* what git may report of HEAD, the work tree and the stash
  NoFile,        \* a path at which there is no regular file
  NoHash,        \* "sha256": null, of a file that could not be read
  NoGit,         \* what is reported when a call of git fails
  MaxChanges,    \* bound: changes made to the repository
  MaxInventories \* bound: runs of `inventory`

ASSUME FileAssumption == File \subseteq Int /\ IsFiniteSet(File)
ASSUME ContentsAssumption ==
  /\ NoFile \notin Contents /\ NoHash \notin Contents
  /\ SizeOf \in [Contents -> Nat]
ASSUME VersionsAssumption == NoGit \notin Versions
ASSUME BoundsAssumption == MaxChanges \in Nat /\ MaxInventories \in Nat

VARIABLES
  repo,        \* the repository: [file, vcs]
  rowsFile,    \* files.jsonl: absent, torn inside a line, or whole lines
  rows,        \* its rows: a function from paths to [size, sha]
  vcsFile,     \* vcs-state.json: absent, torn or whole
  vcsSaved,    \* what it reports
  pc,          \* where the running command is
  todo,        \* the paths its loop has not reached
  found,       \* what its walk has gathered: a function like rows
  git,         \* what it has collected from git
  mutated,     \* verify: some deviation has been found
  verdict,     \* "status" of integrity-verification.json
  start,       \* history: the repository when the running command began
  quiet,       \* history: nothing has changed since
  base,        \* history: `start` of the inventory that wrote files.jsonl
  baseQuiet,   \* history: nothing changed while that inventory sampled
  complete,    \* history: that inventory wrote all its rows and vcs-state.json
  changes, inventories  \* counted against the bounds

saved == <<rowsFile, rows, vcsFile, vcsSaved>>
baseline == <<base, baseQuiet, complete>>
history == <<start, quiet, base, baseQuiet, complete>>
counts == <<changes, inventories>>
vars == <<repo, rowsFile, rows, vcsFile, vcsSaved, pc, todo, found, git, mutated,
          verdict, start, quiet, base, baseQuiet, complete, changes, inventories>>

\* open: can be read; locked: lstat works, open does not; hidden: the walk
\* records an error in place of the file (its directory cannot be listed).
Access == {"open", "locked", "hidden"}
FileState == [data : Contents, access : Access] \cup {NoFile}

NoRows == [f \in {} |-> [size |-> 0, sha |-> NoHash]]
AddRow(table, f, row) == [g \in DOMAIN table \cup {f} |-> IF g = f THEN row ELSE table[g]]

Shown(r, f) == r.file[f] # NoFile /\ r.file[f].access # "hidden"
Present(f) == Shown(repo, f)
Readable(f) == Present(f) /\ repo.file[f].access = "open"
Data(f) == repo.file[f].data
NextFile(f) == f \in todo /\ \A g \in todo : f <= g

\* The command is over, and with it what it kept in memory.
End ==
  /\ pc' = "idle" /\ todo' = {} /\ found' = NoRows /\ git' = NoGit /\ mutated' = FALSE
  /\ start' = base' /\ quiet' = FALSE

Init ==
  /\ repo \in [file : [File -> FileState], vcs : Versions]
  /\ rowsFile = "absent" /\ rows = NoRows
  /\ vcsFile = "absent" /\ vcsSaved = NoGit
  /\ pc = "idle" /\ todo = {} /\ found = NoRows /\ git = NoGit
  /\ mutated = FALSE /\ verdict = "none"
  /\ start = repo /\ quiet = FALSE
  /\ base = repo /\ baseQuiet = TRUE /\ complete = FALSE
  /\ changes = 0 /\ inventories = 0
-----------------------------------------------------------------------------
(* The repository changes under the commands                               *)

Change ==
  /\ changes < MaxChanges
  /\ changes' = changes + 1
  /\ \/ \E f \in File, s \in FileState : repo' = [repo EXCEPT !.file[f] = s]
     \/ \E v \in Versions : repo' = [repo EXCEPT !.vcs = v]
  /\ repo' # repo
  /\ quiet' = FALSE
  /\ UNCHANGED <<saved, pc, todo, found, git, mutated, verdict, start, baseline, inventories>>

\* collect_git_state: version control as git reports it, or the report that is
\* left when a call of git fails or exceeds its time.
Collect == git' \in {repo.vcs, NoGit}
-----------------------------------------------------------------------------
(* run_inventory                                                           *)

StartInventory ==
  /\ pc = "idle"
  /\ inventories < MaxInventories
  /\ inventories' = inventories + 1
  /\ Collect
  /\ todo' = File /\ found' = NoRows
  /\ pc' = "record"
  /\ start' = repo /\ quiet' = TRUE
  /\ UNCHANGED <<repo, saved, mutated, verdict, baseline, changes>>

\* walk: the entry is examined, unless there is none or it cannot be.
Examine(f) ==
  /\ NextFile(f)
  /\ todo' = todo \ {f}
  /\ found' = IF Present(f) THEN AddRow(found, f, [size |-> SizeOf[Data(f)], sha |-> NoHash]) ELSE found

\* Mutant: the hash of a file that cannot be read is left to the next reader.
HashRecordUnread(f) ==
  /\ pc = "hash"
  /\ f \in DOMAIN found /\ \A g \in DOMAIN found : g <= f
  /\ found' = [found EXCEPT ![f].sha = IF Readable(f) THEN Data(f) ELSE NoHash]
  /\ pc' = "record"
  /\ todo' = IF Readable(f) THEN todo ELSE todo \cup {f}
  /\ UNCHANGED <<repo, saved, git, mutated, verdict, history, counts>>

\* build_record, of the file examined last: its hash, or null and an error.
HashRecord(f) ==
  /\ pc = "hash"
  /\ f \in DOMAIN found /\ \A g \in DOMAIN found : g <= f
  /\ found' = [found EXCEPT ![f].sha = IF Readable(f) THEN Data(f) ELSE NoHash]
  /\ pc' = "record"
  /\ UNCHANGED <<repo, saved, todo, git, mutated, verdict, history, counts>>

ExamineForRecord(f) ==
  /\ pc = "record"
  /\ Examine(f)
  /\ pc' = IF Present(f) THEN "hash" ELSE "record"
  /\ UNCHANGED <<repo, saved, git, mutated, verdict, history, counts>>

\* The first file of run_inventory: write_jsonl(files.jsonl).
SaveRows ==
  /\ pc = "record" /\ todo = {}
  /\ rowsFile' = "whole" /\ rows' = found
  /\ base' = start /\ baseQuiet' = quiet /\ complete' = FALSE
  /\ pc' = "saveVcs"
  /\ UNCHANGED <<repo, vcsFile, vcsSaved, todo, found, git, mutated, verdict, start, quiet, counts>>

\* The last file verify depends on: write_json(vcs-state.json).
SaveVcs ==
  /\ pc = "saveVcs"
  /\ vcsFile' = "whole" /\ vcsSaved' = git
  /\ complete' = TRUE
  /\ UNCHANGED <<repo, rowsFile, rows, verdict, base, baseQuiet, counts>>
  /\ End
-----------------------------------------------------------------------------
(* verify_integrity                                                        *)

\* read_jsonl: an absent file has no rows, a torn line is a decoding error.
StartVerify ==
  /\ pc = "idle"
  /\ \/ /\ rowsFile # "torn" /\ DOMAIN rows = {}
        /\ verdict' = "unverifiable"
        /\ UNCHANGED <<pc, todo, found, mutated, start, quiet>>
     \/ /\ rowsFile = "whole" /\ DOMAIN rows # {}
        /\ todo' = File /\ found' = NoRows /\ mutated' = FALSE
        /\ pc' = "walk"
        /\ start' = repo /\ quiet' = TRUE
        /\ UNCHANGED verdict
  /\ UNCHANGED <<repo, saved, git, baseline, counts>>

\* Mutant: the walk of verify leaves out what it could not read anyway.
WalkReadable(f) ==
  /\ pc = "walk"
  /\ NextFile(f)
  /\ todo' = todo \ {f}
  /\ found' = IF Readable(f) THEN AddRow(found, f, [size |-> SizeOf[Data(f)], sha |-> NoHash]) ELSE found
  /\ UNCHANGED <<repo, saved, pc, git, mutated, verdict, history, counts>>

Walk(f) ==
  /\ pc = "walk"
  /\ Examine(f)
  /\ UNCHANGED <<repo, saved, pc, git, mutated, verdict, history, counts>>

\* Mutant: files that were added are not compared.
RemovedOnly ==
  /\ pc = "walk" /\ todo = {}
  /\ mutated' = (DOMAIN rows \ DOMAIN found # {})
  /\ todo' = DOMAIN rows \cap DOMAIN found
  /\ pc' = "compare"
  /\ UNCHANGED <<repo, saved, found, git, verdict, history, counts>>

\* added and removed; the common paths are compared one by one.
AddedRemoved ==
  /\ pc = "walk" /\ todo = {}
  /\ mutated' = (DOMAIN rows # DOMAIN found)
  /\ todo' = DOMAIN rows \cap DOMAIN found
  /\ pc' = "compare"
  /\ UNCHANGED <<repo, saved, found, git, verdict, history, counts>>

\* int(row.get("size_bytes") or -1): a recorded size of 0 counts as -1.
SizeChanged(f) == found[f].size # (IF rows[f].size = 0 THEN -1 ELSE rows[f].size)

\* A file without a recorded hash is passed over; one that cannot be read now
\* is noted as unreadable, which is not a deviation.
HashChanged(f) == Readable(f) /\ Data(f) # rows[f].sha

\* Mutant: the size is compared after the hash, where an unreadable file has
\* already been passed over.
DeviatesReadable(f) ==
  /\ rows[f].sha # NoHash
  /\ Readable(f) /\ (SizeChanged(f) \/ HashChanged(f))

Deviates(f) ==
  /\ rows[f].sha # NoHash
  /\ SizeChanged(f) \/ HashChanged(f)

Compare(f) ==
  /\ pc = "compare"
  /\ NextFile(f)
  /\ todo' = todo \ {f}
  /\ mutated' = (mutated \/ Deviates(f))
  /\ UNCHANGED <<repo, saved, pc, found, git, verdict, history, counts>>

\* read_json(vcs-state.json): an absent file reports nothing, which no state
\* of version control equals; a torn one is a decoding error.
Judge ==
  /\ pc = "compare" /\ todo = {}
  /\ vcsFile # "torn"
  /\ Collect
  /\ verdict' = IF mutated \/ vcsFile = "absent" \/ vcsSaved # git' THEN "FAIL" ELSE "PASS"
  /\ pc' = "judged"
  /\ UNCHANGED <<repo, saved, todo, found, mutated, history, counts>>

\* The command returns.  (A state of its own: the properties look here.)
EndVerify ==
  /\ pc = "judged"
  /\ UNCHANGED <<repo, saved, verdict, baseline, counts>>
  /\ End
-----------------------------------------------------------------------------
\* A decoding error ends verify, and leaves its previous verdict in place.
VerifyFails ==
  /\ \/ pc = "idle" /\ rowsFile = "torn"
     \/ pc = "compare" /\ todo = {} /\ vcsFile = "torn"
  /\ UNCHANGED <<repo, saved, verdict, baseline, counts>>
  /\ End

\* A command is killed between two steps.
Killed ==
  /\ pc \notin {"idle", "judged"}
  /\ UNCHANGED <<repo, saved, verdict, baseline, counts>>
  /\ End

\* `inventory` is killed while it writes files.jsonl: a beginning of the rows
\* is there, and possibly a part of the next line.
KilledInRows ==
  /\ pc = "record" /\ todo = {}
  /\ \E f \in File : rows' = [g \in {h \in DOMAIN found : h < f} |-> found[g]]
  /\ rowsFile' \in {"torn", "whole"}
  /\ base' = start /\ baseQuiet' = quiet /\ complete' = FALSE
  /\ UNCHANGED <<repo, vcsFile, vcsSaved, verdict, counts>>
  /\ End

KilledInVcs ==
  /\ pc = "saveVcs"
  /\ vcsFile' = "torn"
  /\ UNCHANGED <<repo, rowsFile, rows, vcsSaved, verdict, baseline, counts>>
  /\ End

Inventory ==
  \/ StartInventory
  \/ \E f \in File : ExamineForRecord(f) \/ HashRecord(f)
  \/ SaveRows \/ SaveVcs \/ KilledInRows \/ KilledInVcs

Verify ==
  \/ StartVerify
  \/ \E f \in File : Walk(f) \/ Compare(f)
  \/ AddedRemoved \/ Judge \/ EndVerify \/ VerifyFails

Next == Change \/ Inventory \/ Verify \/ Killed

Spec == Init /\ [][Next]_vars
-----------------------------------------------------------------------------
(* Properties                                                              *)

Repositories == [file : [File -> FileState], vcs : Versions]
Row == [size : Nat, sha : Contents \cup {NoHash}]
IsTable(table) == DOMAIN table \subseteq File /\ \A f \in DOMAIN table : table[f] \in Row

\* Every variable keeps its range, and a walk gathers only paths it is past.
TypeOK ==
  /\ repo \in Repositories /\ start \in Repositories /\ base \in Repositories
  /\ rowsFile \in {"absent", "torn", "whole"} /\ IsTable(rows)
  /\ vcsFile \in {"absent", "torn", "whole"} /\ vcsSaved \in Versions \cup {NoGit}
  /\ pc \in {"idle", "record", "hash", "saveVcs", "walk", "compare", "judged"}
  /\ todo \subseteq File /\ IsTable(found)
  /\ git \in Versions \cup {NoGit}
  /\ verdict \in {"none", "unverifiable", "PASS", "FAIL"}
  /\ {mutated, quiet, baseQuiet, complete} \subseteq BOOLEAN
  /\ changes \in 0..MaxChanges /\ inventories \in 0..MaxInventories
  /\ pc \in {"record", "hash", "walk"} => DOMAIN found \cap todo = {}

Judged(status) == pc = "judged" /\ verdict = status

\* Verify compares two undisturbed samples, the first of them a full one.
Comparable == quiet /\ baseQuiet /\ complete

\* PASS finds every change between two undisturbed samples: each file is where
\* it was, with the same content, unless it was locked the first time or is
\* locked now; locked only now, it has at least the same size.
DetectsChange ==
  Judged("PASS") /\ Comparable =>
    /\ git # NoGit => start.vcs = base.vcs
    /\ \A f \in File :
         /\ Shown(base, f) = Shown(start, f)
         /\ Shown(start, f) /\ base.file[f].access = "open" =>
              /\ SizeOf[start.file[f].data] = SizeOf[base.file[f].data]
              /\ start.file[f].access = "open" => start.file[f] = base.file[f]

\* A baseline that a killed inventory left incomplete does not hide files: PASS
\* still means that the files now shown are exactly those the baseline lists.
PassCovers ==
  Judged("PASS") /\ quiet => DOMAIN rows = {f \in File : Shown(start, f)}

SameSample == Comparable /\ start = base /\ (git = NoGit) = (vcsSaved = NoGit)

\* "verify reports PASS on an untouched repository": no verdict but PASS when
\* nothing changed and git answered both times alike.
NoFalseAlarm == SameSample => ~Judged("FAIL")

\* The false alarms are those of empty files: with nothing changed, FAIL means
\* that the repository holds a file of size 0.
FalseAlarmIsEmptyFile ==
  SameSample /\ Judged("FAIL") =>
    \E f \in File : Shown(base, f) /\ SizeOf[base.file[f].data] = 0

\* The text of a PASS: "Every baseline file is present with an identical
\* SHA-256 and the VCS state is unchanged."
PassIsIdentical ==
  Judged("PASS") /\ Comparable =>
    \A f \in DOMAIN rows : Shown(start, f) /\ start.file[f].data = base.file[f].data
=============================================================================
