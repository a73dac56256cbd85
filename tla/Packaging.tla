----------------------------- MODULE Packaging ------------------------------
(***************************************************************************)
(* MANIFEST.sha256 and findings.zip: `manifest` and `package` over the     *)
(* packet that the commands of Packet fill.                                *)
(*                                                                         *)
(* A digest stands for the contents it is taken from.  The archive is what *)
(* lies under the name findings.zip.                                       *)
(***************************************************************************)
EXTENDS Packet

VARIABLES
  mode,      \* which command: "manifest", "package", or "skip" (--skip-manifest)
  archive,   \* findings.zip: its members, and whether it has its directory
  outcome,   \* what the last package printed
  covers,    \* history: the manifest and the packet: "building" and "yes" from when it
             \* is begun, or last passed a check, for as long as nothing else changes
  lastZip    \* history: what package built last, if the packet is as it was then

zipVars == <<mode, archive, outcome, covers, lastZip>>
vars == <<packetVars, zipVars>>

NoArchive == [state |-> "none", of |-> None]
NoOutcome == [status |-> "none", validation |-> "none", fresh |-> FALSE, listed |-> FALSE]

\* Mutant: the manifest lists itself, as the previous command left it.
CoveredAll(p) == DOMAIN p

\* Mutant: the report is excluded, as the manifest is.
CoveredButReport(p) == DOMAIN p \ {Manifest, Report}

\* EXCLUDED_FROM_MANIFEST
Covered(p) == DOMAIN p \ {Manifest}

\* What this step changes in the packet, the manifest apart.
Changed ==
  {m \in (DOMAIN packet \cup DOMAIN packet') \ {Manifest} :
     ~(Has(m) /\ m \in DOMAIN packet' /\ packet[m] = packet'[m])}

\* Bookkeeping of every step that may change the packet.
Track ==
  /\ covers' = IF Changed = {} THEN covers ELSE "no"
  /\ lastZip' = IF Changed = {} THEN lastZip ELSE NoArchive

Init ==
  /\ InitPacket
  /\ mode = "none" /\ archive = NoArchive /\ outcome = NoOutcome
  /\ covers = "no" /\ lastZip = NoArchive

\* Mutant: the mode of a command outlives it.
FinishKeepingMode == End /\ UNCHANGED mode

Finish == End /\ mode' = "none"
-----------------------------------------------------------------------------
(* build_manifest                                                          *)

\* cmd_manifest, or cmd_package without --skip-manifest: the list of files.
StartManifest ==
  /\ Command
  /\ UNCHANGED kills
  /\ \/ mode' = "manifest" /\ UNCHANGED outcome
     \/ mode' = "package" /\ outcome' = NoOutcome
  /\ pc' = "hash"
  /\ todo' = Covered(packet)
  /\ covers' = "building"
  /\ UNCHANGED <<repo, packet, mem, problems, fresh, history, archive, lastZip>>

\* A file that has gone since it was listed ends the command.
HashMember(m) ==
  /\ pc = "hash" /\ IsNext(m, todo)
  /\ IF Has(m)
     THEN /\ mem' = With(mem, m, packet[m])
          /\ todo' = todo \ {m}
          /\ UNCHANGED <<pc, problems, mode>>
     ELSE Finish
  /\ UNCHANGED <<repo, packet, counts, fresh, history, archive, outcome, covers, lastZip>>

OpenManifest ==
  /\ pc = "hash" /\ todo = {}
  /\ Put(Manifest, "lines", None)
  /\ pc' = "manifestWrite"
  /\ UNCHANGED <<repo, todo, mem, problems, counts, fresh, history, zipVars>>

WriteManifest ==
  /\ pc = "manifestWrite"
  /\ Put(Manifest, "lines", mem)
  /\ covers' = IF covers = "building" THEN "yes" ELSE "no"
  /\ mem' = None
  /\ pc' = IF mode = "manifest" THEN "verifyManifest" ELSE "list"
  /\ UNCHANGED <<repo, todo, problems, counts, fresh, history, mode, archive, outcome, lastZip>>

\* Killed while writing: the file has the first lines, or a broken one at its
\* end ("cut"), which no file matches whatever stands before it.
KilledInManifest ==
  /\ pc = "manifestWrite"
  /\ Killed
  /\ \/ \E n \in 0..(Len(Order) - 1) :
          Put(Manifest, "lines", [m \in DOMAIN mem \cap ToSet(SubSeq(Order, 1, n)) |-> mem[m]])
     \/ Put(Manifest, "cut", None)
  /\ Finish
  /\ UNCHANGED <<repo, edits, changes, commands, fresh, history, archive, outcome, covers, lastZip>>

\* verify_manifest: PASS if the packet is exactly what the manifest lists.
VerifyManifest ==
  /\ pc = "verifyManifest"
  /\ IF /\ Covered(packet) = DOMAIN packet[Manifest].of
        /\ \A m \in Covered(packet) : packet[m] = packet[Manifest].of[m]
     THEN covers' = "yes"
     ELSE UNCHANGED covers
  /\ Finish
  /\ UNCHANGED <<repo, packet, counts, fresh, history, archive, outcome, lastZip>>
-----------------------------------------------------------------------------
(* build_zip, and the end of cmd_package                                   *)

StartSkip ==
  /\ Command
  /\ UNCHANGED kills
  /\ mode' = "skip" /\ outcome' = NoOutcome
  /\ pc' = "list"
  /\ UNCHANGED <<repo, packet, todo, mem, problems, fresh, history, archive, covers, lastZip>>

\* packet_files; an empty packet is an error, otherwise the old archive goes.
ListMembers ==
  /\ pc = "list"
  /\ IF packet = None
     THEN Finish /\ UNCHANGED archive
     ELSE /\ todo' = DOMAIN packet
          /\ archive' = NoArchive
          /\ pc' = "zip"
          /\ UNCHANGED <<mem, problems, mode>>
  /\ UNCHANGED <<repo, packet, counts, fresh, history, outcome, covers, lastZip>>

\* A member's bytes are read when its turn comes.  One that has gone ends the
\* command; leaving the `with` block completes the archive as far as it is.
AddMember(m) ==
  /\ pc = "zip" /\ IsNext(m, todo)
  /\ IF Has(m)
     THEN /\ archive' = [state |-> "open", of |-> With(archive.of, m, packet[m])]
          /\ todo' = todo \ {m}
          /\ UNCHANGED <<pc, mem, problems, mode>>
     ELSE /\ archive' = [archive EXCEPT !.state = "closed"]
          /\ Finish
  /\ UNCHANGED <<repo, packet, counts, fresh, history, outcome, covers, lastZip>>

CloseArchive ==
  /\ pc = "zip" /\ todo = {}
  /\ archive' = [archive EXCEPT !.state = "closed"]
  /\ pc' = "reopen"
  /\ UNCHANGED <<repo, packet, todo, mem, problems, counts, fresh, history,
                 mode, outcome, covers, lastZip>>

Listed(members) == IF Manifest \in DOMAIN members THEN members[Manifest].of ELSE None

\* The reopened archive has the required documents and whatever its manifest
\* lists, byte for byte.
ArchiveVerified(members) ==
  /\ RequiredDocs \subseteq DOMAIN members
  /\ Manifest \in DOMAIN members => members[Manifest].text = "lines"
  /\ \A m \in DOMAIN Listed(members) : m \in DOMAIN members /\ members[m] = Listed(members)[m]

\* The status of the archive, beside what VALIDATION.json states by then, which
\* the command prints with --require-validation.  A report that does not parse
\* ends it with an exception then, but the archive has been written and verified.
FinishPackage ==
  /\ pc = "reopen"
  /\ outcome' = [status |-> IF ArchiveVerified(archive.of) THEN "PASS" ELSE "FAIL",
                 validation |-> IF Has(Report) THEN Text(Report) ELSE "not-run",
                 fresh |-> fresh = "yes",
                 listed |-> covers = "yes"]
  /\ lastZip' = IF mode = "package" /\ covers = "yes" THEN archive ELSE lastZip
  /\ Finish
  /\ UNCHANGED <<repo, packet, counts, fresh, history, archive, covers>>
-----------------------------------------------------------------------------
\* The command is killed, or a write fails; an archive without its directory,
\* which comes last, cannot be read.
KillPackaging ==
  /\ pc \in {"hash", "verifyManifest", "list", "zip", "reopen"}
  /\ Killed
  /\ archive' = IF archive.state = "open" THEN [archive EXCEPT !.of = None] ELSE archive
  /\ Finish
  /\ UNCHANGED <<repo, packet, edits, changes, commands, fresh, history, outcome, covers, lastZip>>

BuildManifest ==
  \/ StartManifest \/ OpenManifest \/ WriteManifest \/ KilledInManifest \/ VerifyManifest
  \/ \E m \in Member : HashMember(m)

BuildZip ==
  \/ StartSkip \/ ListMembers \/ CloseArchive \/ FinishPackage
  \/ \E m \in Member : AddMember(m)

Next ==
  \/ (Edit \/ PacketStep) /\ Track /\ UNCHANGED <<mode, archive, outcome>>
  \/ BuildManifest \/ BuildZip \/ KillPackaging

Spec == Init /\ [][Next]_vars
-----------------------------------------------------------------------------
(* Properties                                                              *)

\* Every variable keeps its range, and nothing a command knows outlives it.
TypeOK ==
  /\ repo \in [Doc -> Version]
  /\ DOMAIN packet \subseteq Member /\ DOMAIN archive.of \subseteq Member
  /\ todo \subseteq Member
  /\ edits \in 0..MaxEdits /\ changes \in 0..MaxChanges
  /\ kills \in 0..MaxKills /\ commands \in 0..MaxCommands
  /\ fresh \in {"no", "sampling", "yes"} /\ covers \in {"no", "building", "yes"}
  /\ mode \in {"none", "manifest", "package", "skip"}
  /\ archive.state \in {"none", "open", "closed"}
  /\ pc = "idle" => todo = {} /\ mem = None /\ problems = {} /\ mode = "none"
  /\ outcome.status \in {"none", "PASS", "FAIL"}

\* What keeps the packet from being shipped, by the documents' contract.
Deficient ==
  \/ ~Has(Own) \/ Text(Own) # "clean"
  \/ ~Has(Verdict) \/ Text(Verdict) # "PASS"
  \/ ~Has(Rows) \/ \E f \in DOMAIN RowsRead : ~Has(f) \/ Text(f) = "stub"

\* As long as the packet is as validate met it, the report says PASS exactly
\* if nothing blocks; the one exception is a FAIL because the report that an
\* earlier, killed validate left does not parse: validate reads its own output.
ReportMeans ==
  fresh = "yes" => /\ Text(Report) = "PASS" => ~Deficient
                   /\ Text(Report) = "FAIL" => Deficient \/ tornReport

\* One complete document per file: no PASS over a file without one.
PassIsComplete ==
  (fresh = "yes" /\ Text(Report) = "PASS") =>
    \A f \in DOMAIN RowsRead : Has(f) /\ Text(f) = "full"

\* The archive was verified, with a PASS of validate for just this packet.
Shipped == outcome.status = "PASS" /\ outcome.validation = "PASS" /\ outcome.fresh

\* What a shipped archive is worth: its own documents are clean and it holds the PASS;
\* every file of its baseline has a document which is complete, or was left
\* empty by a killed docstub; and unless the inventory was taken again later,
\* documents and integrity verdict are about this baseline.
ShippedSound ==
  Shipped =>
    LET members == archive.of
        rows == members[Rows].of
    IN  /\ members[Own].text = "clean"
        /\ members[Report].text = "PASS"
        /\ \A f \in DOMAIN rows :
             /\ f \in DOMAIN members
             /\ members[f].text = "full" \/ (members[f].text = "empty" /\ stubKilled)
             /\ members[f].text = "full" /\ ~rebased => members[f].of = rows[f]
        /\ members[Verdict].text = "PASS"
        /\ ~rebased => members[Verdict].of = rows

\* The manifest covers every file but itself: an archive that passed has no
\* member that its manifest does not list with these bytes; provided that nothing
\* else changed the packet since the manifest was begun, or last passed a check,
\* and that it is not the beginning of a manifest that a kill left.
ShippedListed ==
  outcome.status = "PASS" /\ outcome.listed =>
    \A m \in DOMAIN archive.of \ {Manifest} :
      m \in DOMAIN Listed(archive.of) /\ Listed(archive.of)[m] = archive.of[m]

\* Packaging an unchanged packet again gives the same archive, whatever was
\* killed in between.
Repackaged ==
  [][(pc = "reopen" /\ pc' = "idle" /\ outcome' # outcome /\ mode = "package" /\ covers = "yes"
      /\ lastZip # NoArchive) => archive = lastZip]_vars
=============================================================================
