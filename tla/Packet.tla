------------------------------- MODULE Packet -------------------------------
(***************************************************************************)
(* The packet from the inventory to its validation: per-file documents     *)
(* (cmd_docstub), integrity verification and `validate`, with an agent who *)
(* edits the packet and a repository that changes, both at any moment.     *)
(*                                                                         *)
(* The packet is a function from the files in it to their contents.  What  *)
(* `inventory` and `verify` do in detail is the subject of Integrity; each *)
(* is one step here.  One command runs at a time; it may be killed.        *)
(***************************************************************************)
EXTENDS Naturals, Sequences, FiniteSets, SequencesExt

CONSTANTS
  Docs,         \* the documents under files/, one per repository file, in order
  Version,      \* what a repository file may contain
  MaxEdits,     \* bound: edits of the packet by the agent
  MaxChanges,   \* bound: changes of the repository
  MaxKills,     \* bound: commands killed
  MaxCommands   \* bound: commands run

ASSUME DocsAssumption == Docs \in Seq(ToSet(Docs)) /\ IsInjective(Docs)
ASSUME BoundsAssumption == {MaxEdits, MaxChanges, MaxKills, MaxCommands} \subseteq Nat

VARIABLES
  repo,      \* the repository: the contents of the file behind each document
  packet,    \* the files of the packet and their contents
  pc,        \* where the running command is, or "idle"
  todo,      \* the files it still has to deal with
  mem,       \* what it has read
  problems,  \* validate: the blocking problems found so far
  edits, changes, kills, commands,
  fresh,     \* history: "sampling" during a validate in an unchanged packet, "yes"
             \* as long as its report describes the packet, otherwise "no"
  tornReport, \* history: the VALIDATION.json that this validate met did not parse
  stubKilled, \* history: a docstub was killed between open and write
  rebased     \* history: an inventory came after a document or a verdict

counts == <<edits, changes, kills, commands>>
history == <<tornReport, stubKilled, rebased>>
packetVars == <<repo, packet, pc, todo, mem, problems, counts, fresh, history>>

Doc == ToSet(Docs)
Manifest == "MANIFEST.sha256"
Own == "ACTION_MANIFEST.json"  \* for all that commands and the agent add: the required
                               \* documents and the JSON that validate interprets
Report == "VALIDATION.json"
Rows == "inventory/files.jsonl"
Verdict == "inventory/integrity-verification.json"

\* The files of a packet in the order of their paths.
Order == <<Own, Manifest, Report>> \o Docs \o <<Rows, Verdict>>
Member == ToSet(Order)
JsonMember == {Own, Report, Rows, Verdict}
RequiredDocs == {Own}        \* REQUIRED_TOP_LEVEL_DOCS
RequiredArtifacts == {Own, Rows}  \* REQUIRED_PACKET_ARTIFACTS

\* The documents are those under files/.
ASSUME DocsApartAssumption == Doc \cap {Own, Manifest, Report, Rows, Verdict} = {}

Place(m) == CHOOSE i \in 1..Len(Order) : Order[i] = m
IsNext(m, S) == m \in S /\ \A n \in S : Place(m) <= Place(n)

None == <<>>
Has(m) == m \in DOMAIN packet
Text(m) == packet[m].text
Torn(m) == Has(m) /\ Text(m) = "torn"

\* The table in which m has this content.
With(table, m, content) ==
  [n \in DOMAIN table \cup {m} |-> IF n = m THEN content ELSE table[n]]
Put(m, text, of) == packet' = With(packet, m, [text |-> text, of |-> of])

\* read_jsonl: no file is no rows.
RowsRead == IF Has(Rows) THEN packet[Rows].of ELSE None

\* A change of the packet ends the truth of a report, except the report itself.
Stale == fresh' = "no"

\* A command ends, in order or with an exception: the next one starts from files.
End == pc' = "idle" /\ todo' = {} /\ mem' = None /\ problems' = {}

Command ==
  /\ pc = "idle"
  /\ commands < MaxCommands /\ commands' = commands + 1
  /\ UNCHANGED <<edits, changes>>

Killed == kills < MaxKills /\ kills' = kills + 1

\* The inventory has been taken, and the agent has written its own documents.
InitPacket ==
  /\ repo \in [Doc -> Version]
  /\ packet = [m \in {Own, Rows} |-> IF m = Own THEN [text |-> "clean", of |-> None]
                                    ELSE [text |-> "rows", of |-> repo]]
  /\ pc = "idle" /\ todo = {} /\ mem = None /\ problems = {}
  /\ edits = 0 /\ changes = 0 /\ kills = 0 /\ commands = 0
  /\ fresh = "no"
  /\ tornReport = FALSE /\ stubKilled = FALSE /\ rebased = FALSE
-----------------------------------------------------------------------------
(* The surroundings                                                        *)

\* The agent completes some stubs and adds or removes documents of its own.
\* These may not parse ("torn"), or be "faulty": a secret, a module without its
\* document, numbers in an unmeasured coverage summary, a repeated action number.
AgentEdit ==
  /\ \E filled \in SUBSET {f \in Doc : Has(f) /\ Text(f) = "stub"},
        own \in {"keep", "remove", "clean", "faulty", "torn"} :
       LET kept == IF own = "remove" THEN DOMAIN packet \ {Own} ELSE DOMAIN packet
           docs == [m \in kept |-> IF m \in filled THEN [packet[m] EXCEPT !.text = "full"]
                                   ELSE packet[m]]
       IN  packet' = IF own \in {"keep", "remove"} THEN docs
                     ELSE With(docs, Own, [text |-> own, of |-> None])
  /\ packet' # packet
  /\ edits < MaxEdits /\ edits' = edits + 1
  /\ Stale
  /\ UNCHANGED <<repo, changes>>

\* Only inventory and verify, one step each, look at the repository: a change
\* during another command is one after it.
RepoChange ==
  /\ pc = "idle"
  /\ \E f \in Doc, v \in Version : repo' = [repo EXCEPT ![f] = v]
  /\ repo' # repo
  /\ changes < MaxChanges /\ changes' = changes + 1
  /\ UNCHANGED <<packet, edits, fresh>>

Edit ==
  /\ AgentEdit \/ RepoChange
  /\ UNCHANGED <<pc, todo, mem, problems, kills, commands, history>>
-----------------------------------------------------------------------------
(* inventory and verify, each as one step                                  *)

\* run_inventory writes a row for every file.  Killed while it does, it leaves
\* the rows of the first files, and perhaps a broken one.
Inventory ==
  /\ Command
  /\ \/ Put(Rows, "rows", repo) /\ UNCHANGED kills
     \/ Killed /\ \E n \in 0..(Len(Docs) - 1), text \in {"rows", "torn"} :
          Put(Rows, text, [f \in ToSet(SubSeq(Docs, 1, n)) |-> repo[f]])
  /\ rebased' = (rebased \/ \E m \in Doc \cup {Verdict} : Has(m))
  /\ Stale
  /\ UNCHANGED <<repo, pc, todo, mem, problems, tornReport, stubKilled>>

\* verify_integrity: rows that do not parse end it before it writes anything.
Verify ==
  /\ Command
  /\ IF Torn(Rows) THEN UNCHANGED <<packet, kills, fresh>>
     ELSE /\ Stale
          /\ \/ Put(Verdict, IF RowsRead = None THEN "unverifiable"
                             ELSE IF RowsRead = repo THEN "PASS" ELSE "FAIL", RowsRead)
                /\ UNCHANGED kills
             \/ Killed /\ Put(Verdict, "torn", RowsRead)
  /\ UNCHANGED <<repo, pc, todo, mem, problems, history>>
-----------------------------------------------------------------------------
(* cmd_docstub                                                             *)

\* No rows are an error.  Documents that are kept are passed over here at once:
\* no one else creates or removes documents while the command runs.
StartDocstub ==
  /\ Command
  /\ UNCHANGED kills
  /\ ~Torn(Rows) /\ RowsRead # None
  /\ pc' = "docstub"
  /\ \E overwrite \in BOOLEAN : todo' = {f \in DOMAIN RowsRead : overwrite \/ ~Has(f)}
  /\ mem' = RowsRead
  /\ UNCHANGED <<repo, packet, problems, fresh, history>>

\* write_text, up to the open: the document is empty.
OpenDoc(f) ==
  /\ pc = "docstub" /\ IsNext(f, todo)
  /\ Put(f, "empty", None)
  /\ pc' = "docstubWrite"
  /\ Stale
  /\ UNCHANGED <<repo, todo, mem, problems, counts, history>>

WriteDoc(f) ==
  /\ pc = "docstubWrite" /\ IsNext(f, todo)
  /\ Put(f, "stub", mem[f])
  /\ todo' = todo \ {f}
  /\ pc' = "docstub"
  /\ Stale
  /\ UNCHANGED <<repo, mem, problems, counts, history>>

EndDocstub ==
  /\ pc = "docstub" /\ todo = {}
  /\ End
  /\ UNCHANGED <<repo, packet, counts, fresh, history>>
-----------------------------------------------------------------------------
(* validate                                                                *)

\* A problem that is reported when its condition holds.
Found(problem, condition) == IF condition THEN {problem} ELSE {}

StartValidate ==
  /\ Command
  /\ UNCHANGED kills
  /\ pc' = "structure"
  /\ fresh' = "sampling"
  /\ tornReport' = Torn(Report)
  /\ UNCHANGED <<repo, packet, todo, mem, problems, stubKilled, rebased>>

\* Required documents and artifacts, and JSON that does not parse.
CheckStructure ==
  /\ pc = "structure"
  /\ problems' = Found("documents", \E m \in RequiredDocs : ~Has(m))
                 \cup Found("artifacts", \E m \in RequiredArtifacts : ~Has(m))
                 \cup Found("json", \E m \in JsonMember : Torn(m))
  /\ pc' = "documents"
  /\ UNCHANGED <<repo, packet, todo, mem, counts, fresh, history>>

\* read_json or read_jsonl of a file that does not parse: main catches only
\* OdinError, the command ends without a report.
Unparsed(m) ==
  /\ Torn(m)
  /\ End
  /\ fresh' = "no"
  /\ UNCHANGED <<repo, packet, counts, history>>

\* Mutant: a stub counts as a document.
CheckDocumentsByName ==
  /\ pc = "documents"
  /\ \/ Unparsed(Rows)
     \/ /\ ~Torn(Rows)
        /\ problems' = problems \cup Found("missing", \E f \in DOMAIN RowsRead : ~Has(f))
        /\ pc' = "contents"
        /\ UNCHANGED <<repo, packet, todo, mem, counts, fresh, history>>

\* _check_per_file_docs: only what blocks; incomplete and orphaned documents do not.
CheckDocuments ==
  /\ pc = "documents"
  /\ \/ Unparsed(Rows)
     \/ /\ ~Torn(Rows)
        /\ problems' = problems
                       \cup Found("missing", \E f \in DOMAIN RowsRead : ~Has(f))
                       \cup Found("stubs", \E f \in DOMAIN RowsRead : Has(f) /\ Text(f) = "stub")
        /\ pc' = "contents"
        /\ UNCHANGED <<repo, packet, todo, mem, counts, fresh, history>>

\* Module documents, coverage claims, action manifest, audit_packet_for_leaks.
CheckContents ==
  /\ pc = "contents"
  /\ \/ Unparsed(Own)
     \/ /\ ~Torn(Own)
        /\ problems' = problems \cup Found("contents", Has(Own) => Text(Own) = "faulty")
        /\ pc' = "verdict"
        /\ UNCHANGED <<repo, packet, todo, mem, counts, fresh, history>>

\* Mutant: that integrity was verified is enough.
CheckVerdictPresence ==
  /\ pc = "verdict"
  /\ \/ Unparsed(Verdict)
     \/ /\ ~Torn(Verdict)
        /\ problems' = problems \cup Found("integrity", ~Has(Verdict))
        /\ pc' = "report"
        /\ UNCHANGED <<repo, packet, todo, mem, counts, fresh, history>>

CheckVerdict ==
  /\ pc = "verdict"
  /\ \/ Unparsed(Verdict)
     \/ /\ ~Torn(Verdict)
        /\ problems' = problems \cup Found("integrity", Has(Verdict) => Text(Verdict) # "PASS")
        /\ pc' = "report"
        /\ UNCHANGED <<repo, packet, todo, mem, counts, fresh, history>>

OpenReport ==
  /\ pc = "report"
  /\ Put(Report, "torn", None)
  /\ pc' = "reportWrite"
  /\ UNCHANGED <<repo, todo, mem, problems, counts, fresh, history>>

WriteReport ==
  /\ pc = "reportWrite"
  /\ Put(Report, IF problems = {} THEN "PASS" ELSE "FAIL", None)
  /\ End
  /\ fresh' = IF fresh = "sampling" THEN "yes" ELSE "no"
  /\ UNCHANGED <<repo, counts, history>>
-----------------------------------------------------------------------------
\* The command is killed, or a write fails: what is in the files stays.
KillPacket ==
  /\ pc \in {"docstub", "docstubWrite", "structure", "documents", "contents", "verdict",
             "report", "reportWrite"}
  /\ Killed
  /\ End
  /\ fresh' = IF fresh = "sampling" THEN "no" ELSE fresh
  /\ stubKilled' = (stubKilled \/ pc = "docstubWrite")
  /\ UNCHANGED <<repo, packet, edits, changes, commands, tornReport, rebased>>

Docstub ==
  \/ StartDocstub \/ EndDocstub
  \/ \E f \in Doc : OpenDoc(f) \/ WriteDoc(f)

Validate ==
  \/ StartValidate \/ CheckStructure \/ CheckDocuments \/ CheckContents
  \/ CheckVerdict \/ OpenReport \/ WriteReport

PacketStep == Inventory \/ Verify \/ Docstub \/ Validate \/ KillPacket
=============================================================================
