-------------------------- MODULE PackagingProofs ---------------------------
(***************************************************************************)
(* Theorems about Packaging, for any documents and versions, any number of *)
(* commands, edits and changes, and a kill at any step: TypeCorrect,       *)
(* ReportTellsTheTruth, ShippedIsSound, ShippedIsListed and                *)
(* SamePacketSameArchive, from the invariant IInv.                         *)
(***************************************************************************)
EXTENDS Packaging, SequenceTheorems, TLAPS

(* The places of the commands.                                              *)
DocstubPc == {"docstub", "docstubWrite"}
ValidatePc == {"structure", "documents", "contents", "verdict", "report", "reportWrite"}
ZipPc == {"list", "zip", "reopen"}

\* The mode belongs to the packaging commands; what package printed last is about a
\* whole archive, and gone when it runs again.
ControlInv ==
  /\ pc \in {"idle", "hash", "manifestWrite", "verifyManifest"}
            \cup DocstubPc \cup ValidatePc \cup ZipPc
  /\ pc \in DocstubPc \cup ValidatePc => mode = "none"
  /\ pc \in {"hash", "manifestWrite"} => mode \in {"manifest", "package"}
  /\ pc = "verifyManifest" => mode = "manifest"
  /\ pc \in ZipPc => mode \in {"package", "skip"}
  /\ mode \in {"package", "skip"} => outcome.status = "none"
  /\ pc = "reopen" \/ outcome.status # "none" => archive.state = "closed"

\* The packet is a table of contents; the baseline is there, with documents for rows.
PacketInv ==
  /\ packet = Restrict(packet, DOMAIN packet)
  /\ \A m \in DOMAIN packet : packet[m] = [text |-> packet[m].text, of |-> packet[m].of]
  /\ Has(Rows) /\ DOMAIN packet[Rows].of \subseteq Doc
  /\ Has(Own) => Text(Own) \in {"clean", "faulty", "torn"}
  /\ \A f \in Doc : Has(f) => Text(f) \in {"empty", "stub", "full"}

\* Every document of the baseline is there and more than a stub.
Documented == \A f \in DOMAIN RowsRead : Has(f) /\ Text(f) # "stub"

\* What a validate that has not been disturbed has found out so far.
SampleInv ==
  fresh = "sampling" =>
    /\ pc \in ValidatePc
    /\ pc = "structure" => tornReport = Torn(Report)
    /\ pc # "structure" /\ problems # {} =>
         Deficient \/ tornReport \/ (pc = "documents" /\ Torn(Rows))
    /\ pc # "structure" /\ problems = {} => Has(Own)
    /\ pc \in ValidatePc \ {"structure", "documents"} /\ problems = {} => Documented
    /\ pc \in {"verdict", "report", "reportWrite"} /\ problems = {} => Text(Own) = "clean"
    /\ pc \in {"report", "reportWrite"} /\ problems = {} =>
         Has(Verdict) /\ Text(Verdict) = "PASS"

ReportInv ==
  /\ SampleInv
  /\ pc \in ValidatePc => fresh # "yes"
  /\ fresh = "yes" => Has(Report)
  /\ ReportMeans

\* Where the documents and the verdict come from.
SourceInv ==
  /\ \A f \in Doc : Has(f) /\ Text(f) = "empty" =>
       stubKilled \/ (pc = "docstubWrite" /\ IsNext(f, todo))
  /\ pc \in DocstubPc => mem = packet[Rows].of /\ todo \subseteq Doc
  /\ ~rebased =>
       /\ \A f \in Doc : Has(f) /\ Text(f) # "empty" => packet[f].of = packet[Rows].of[f]
       /\ Has(Verdict) => packet[Verdict].of = packet[Rows].of

\* What the manifest of the packet should list.
Due == Restrict(packet, Covered(packet))

\* While covers says so, the manifest under way agrees with the packet, and then the
\* written one.
ManifestInv ==
  /\ pc \in {"hash", "manifestWrite"} => covers # "yes" /\ mem = Restrict(mem, DOMAIN mem)
  /\ pc \in {"hash", "manifestWrite"} /\ covers = "building" =>
       todo \subseteq Covered(packet) /\ mem = Restrict(packet, Covered(packet) \ todo)
  /\ pc = "manifestWrite" => todo = {}
  /\ pc = "verifyManifest" =>
       /\ Has(Manifest) /\ packet[Manifest].text = "lines"
       /\ packet[Manifest].of = Restrict(packet[Manifest].of, DOMAIN packet[Manifest].of)
  /\ covers = "yes" => Has(Manifest) /\ packet[Manifest] = [text |-> "lines", of |-> Due]

\* In a packet nobody changes, the archive under way has the files of the packet.
ArchiveInv ==
  /\ archive = [state |-> archive.state, of |-> archive.of]
  /\ pc \in {"zip", "reopen"} /\ (covers = "yes" \/ fresh = "yes") =>
       todo \subseteq DOMAIN packet /\ archive.of = Restrict(packet, DOMAIN packet \ todo)
  /\ pc = "reopen" => todo = {}

\* The archive of the packet with its manifest.
Archived ==
  [state |-> "closed", of |-> With(Due, Manifest, [text |-> "lines", of |-> Due])]

LastZipInv == lastZip # NoArchive => lastZip = Archived

IInv ==
  /\ TypeOK /\ ControlInv /\ PacketInv /\ ReportInv /\ SourceInv
  /\ ManifestInv /\ ArchiveInv /\ LastZipInv
  /\ ShippedSound /\ ShippedListed
-----------------------------------------------------------------------------
(* Tables                                                                   *)

LEMMA NoneFacts == DOMAIN None = {} /\ \A t : None = Restrict(t, {})
<1>1. <<>> \in Seq({}) /\ Len(<<>>) = 0
  BY EmptySeq
<1>2. <<>> \in [1..0 -> {}]
  BY <1>1, LenProperties
<1>3. 1..0 = {}
  OBVIOUS
<1> QED
  BY <1>2, <1>3 DEF None, Restrict

LEMMA WithFacts ==
  ASSUME NEW t, NEW m, NEW c
  PROVE  /\ DOMAIN With(t, m, c) = DOMAIN t \cup {m}
         /\ With(t, m, c)[m] = c
         /\ \A n \in DOMAIN t : n # m => With(t, m, c)[n] = t[n]
         /\ With(t, m, c) = Restrict(With(t, m, c), DOMAIN With(t, m, c))
BY DEF With, Restrict

\* A table that takes up one more member of p.
LEMMA WithRestrict ==
  ASSUME NEW p, NEW S, NEW m
  PROVE  With(Restrict(p, S), m, p[m]) = Restrict(p, S \cup {m})
BY DEF With, Restrict

LEMMA PutFacts ==
  ASSUME NEW m, NEW text, NEW of, Put(m, text, of)
  PROVE  /\ DOMAIN packet' = DOMAIN packet \cup {m}
         /\ packet'[m] = [text |-> text, of |-> of]
         /\ packet'[m].text = text /\ packet'[m].of = of
         /\ \A n \in DOMAIN packet : n # m => packet'[n] = packet[n]
         /\ packet' = Restrict(packet', DOMAIN packet')
<1> DEFINE content == [text |-> text, of |-> of]
<1>1. packet' = With(packet, m, content) /\ content.text = text /\ content.of = of
  BY DEF Put
<1> HIDE DEF content
<1>2. /\ DOMAIN packet' = DOMAIN packet \cup {m} /\ packet'[m] = content
      /\ \A n \in DOMAIN packet : n # m => packet'[n] = packet[n]
      /\ packet' = Restrict(packet', DOMAIN packet')
  BY <1>1 DEF With, Restrict
<1> QED
  BY <1>1, <1>2 DEF content

\* The names are different ones, and members.
LEMMA Names ==
  /\ Own \notin {Manifest, Report, Rows, Verdict} /\ Manifest \notin {Report, Rows, Verdict}
  /\ Report \notin {Rows, Verdict} /\ Rows # Verdict
  /\ Doc \cap {Own, Manifest, Report, Rows, Verdict} = {}
BY DocsApartAssumption DEF Own, Manifest, Report, Rows, Verdict

LEMMA Members ==
  /\ Doc \subseteq Member /\ {Own, Manifest, Report, Rows, Verdict} \subseteq Member
  /\ Member = {Order[i] : i \in 1..Len(Order)} /\ Len(Order) \in Nat
<1> DEFINE first == <<Own, Manifest, Report>>
           last == <<Rows, Verdict>>
           S == Doc \cup {Own, Manifest, Report, Rows, Verdict}
<1>1. Docs \in Seq(S)
  BY DocsAssumption DEF Doc
<1>2. first \in Seq(S) /\ Len(first) = 3 /\ first[1] = Own /\ first[2] = Manifest /\ first[3] = Report
  OBVIOUS
<1>3. last \in Seq(S) /\ Len(last) = 2 /\ last[1] = Rows /\ last[2] = Verdict
  OBVIOUS
<1>4. Order = (first \o Docs) \o last
  BY DEF Order
<1> HIDE DEF first, last, S
<1> DEFINE front == first \o Docs
<1>5. /\ front \in Seq(S) /\ Len(front) = 3 + Len(Docs) /\ Len(Docs) \in Nat
      /\ \A i \in 1..3 : front[i] = first[i]
      /\ \A i \in 1..Len(Docs) : front[3 + i] = Docs[i]
  <2>1. /\ first \o Docs \in Seq(S) /\ Len(first \o Docs) = Len(first) + Len(Docs)
        /\ \A i \in 1..(Len(first) + Len(Docs)) :
             (first \o Docs)[i] = IF i <= Len(first) THEN first[i] ELSE Docs[i - Len(first)]
    BY <1>1, <1>2, ConcatProperties
  <2>2. Len(Docs) \in Nat
    BY <1>1, LenProperties
  <2>3. \A i \in 1..Len(Docs) : (3 + i) - 3 = i /\ ~(3 + i <= 3)
    BY <2>2
  <2> QED
    BY <1>2, <2>1, <2>2, <2>3
<1>6. Order = front \o last
  BY <1>4
<1> HIDE DEF front
<1>7. /\ Order \in Seq(S) /\ Len(Order) = 5 + Len(Docs)
      /\ \A i \in 1..(3 + Len(Docs)) : Order[i] = front[i]
      /\ \A i \in 1..2 : Order[3 + Len(Docs) + i] = last[i]
  <2>1. /\ front \o last \in Seq(S) /\ Len(front \o last) = Len(front) + Len(last)
        /\ \A i \in 1..(Len(front) + Len(last)) :
             (front \o last)[i] = IF i <= Len(front) THEN front[i] ELSE last[i - Len(front)]
    <3>1. front \in Seq(S) /\ last \in Seq(S)
      BY <1>3, <1>5
    <3> QED
      BY <3>1, ConcatProperties
  <2>2. \A i \in 1..2 : (3 + Len(Docs) + i) - (3 + Len(Docs)) = i
    BY <1>5
  <2> QED
    BY <1>3, <1>5, <1>6, <2>1, <2>2
<1>8. DOMAIN Order = 1..Len(Order) /\ Len(Order) \in Nat
  BY <1>5, <1>7
<1>9. Member = {Order[i] : i \in 1..Len(Order)}
  BY <1>8 DEF Member, ToSet
<1>10. \A i \in 1..Len(Docs) : 3 + i \in 1..Len(Order) /\ Order[3 + i] = Docs[i]
  BY <1>5, <1>7
<1>11. Doc = {Docs[i] : i \in 1..Len(Docs)}
  BY <1>1, <1>5 DEF Doc, ToSet
<1>12. Doc \subseteq Member
  BY <1>9, <1>10, <1>11
<1>13. /\ Order[1] = Own /\ Order[2] = Manifest /\ Order[3] = Report
       /\ Order[4 + Len(Docs)] = Rows /\ Order[5 + Len(Docs)] = Verdict
  <2>1. Order[1] = front[1] /\ Order[2] = front[2] /\ Order[3] = front[3]
    BY <1>5, <1>7
  <2>2. front[1] = first[1] /\ front[2] = first[2] /\ front[3] = first[3]
    BY <1>5
  <2>3. Order[3 + Len(Docs) + 1] = last[1] /\ Order[3 + Len(Docs) + 2] = last[2]
    BY <1>7
  <2>4. 3 + Len(Docs) + 1 = 4 + Len(Docs) /\ 3 + Len(Docs) + 2 = 5 + Len(Docs)
    BY <1>5
  <2> QED
    BY <1>2, <1>3, <2>1, <2>2, <2>3, <2>4
<1>14. \A i \in {1, 2, 3, 4 + Len(Docs), 5 + Len(Docs)} : i \in 1..Len(Order)
  BY <1>5, <1>7
<1>15. {Own, Manifest, Report, Rows, Verdict} \subseteq Member
  BY <1>9, <1>13, <1>14
<1> QED
  BY <1>8, <1>9, <1>12, <1>15

\* The next of several files is one.
LEMMA NextIsOne ==
  ASSUME NEW S, NEW m \in Member, NEW n \in Member, IsNext(m, S), IsNext(n, S)
  PROVE  m = n
<1>1. \A k \in Member : Place(k) \in 1..Len(Order) /\ Order[Place(k)] = k
  BY Members DEF Place
<1>2. Place(m) <= Place(n) /\ Place(n) <= Place(m)
  BY DEF IsNext
<1>3. Place(m) \in Int /\ Place(n) \in Int
  BY <1>1, Members
<1>4. Place(m) = Place(n)
  BY <1>2, <1>3
<1> QED
  BY <1>1, <1>4
-----------------------------------------------------------------------------
(* What the steps do to the packet                                          *)

\* The agent completes stubs and replaces its own documents, nothing else.
LEMMA AgentEditFacts ==
  ASSUME PacketInv, AgentEdit
  PROVE  /\ packet' = Restrict(packet', DOMAIN packet')
         /\ \A m \in DOMAIN packet \cup DOMAIN packet' :
              m # Own => (m \in DOMAIN packet' <=> m \in DOMAIN packet)
         /\ \A m \in DOMAIN packet \ (Doc \cup {Own}) : packet'[m] = packet[m]
         /\ \A f \in Doc \cap DOMAIN packet :
              \/ packet'[f] = packet[f]
              \/ packet[f].text = "stub" /\ packet'[f] = [text |-> "full", of |-> packet[f].of]
         /\ Own \in DOMAIN packet' =>
              \/ Own \in DOMAIN packet /\ packet'[Own] = packet[Own]
              \/ \E own \in {"clean", "faulty", "torn"} : packet'[Own] = [text |-> own, of |-> None]
         /\ fresh' = "no"
<1>1. PICK filled \in SUBSET {f \in Doc : Has(f) /\ Text(f) = "stub"},
           own \in {"keep", "remove", "clean", "faulty", "torn"} :
        LET kept == IF own = "remove" THEN DOMAIN packet \ {Own} ELSE DOMAIN packet
            docs == [m \in kept |-> IF m \in filled THEN [packet[m] EXCEPT !.text = "full"]
                                    ELSE packet[m]]
        IN  packet' = IF own \in {"keep", "remove"} THEN docs
                      ELSE With(docs, Own, [text |-> own, of |-> None])
  BY DEF AgentEdit
<1> DEFINE kept == IF own = "remove" THEN DOMAIN packet \ {Own} ELSE DOMAIN packet
           docs == [m \in kept |-> IF m \in filled THEN [packet[m] EXCEPT !.text = "full"]
                                   ELSE packet[m]]
<1>2. packet' = IF own \in {"keep", "remove"} THEN docs
                ELSE With(docs, Own, [text |-> own, of |-> None])
  BY <1>1
<1>3. \A f \in filled : f \in Doc /\ f # Own /\ f \in DOMAIN packet /\ packet[f].text = "stub"
  BY Names DEF Has, Text
<1>4. \A f \in filled :
        [packet[f] EXCEPT !.text = "full"] = [text |-> "full", of |-> packet[f].of]
  <2> TAKE f \in filled
  <2>1. packet[f] = [text |-> packet[f].text, of |-> packet[f].of]
    BY <1>3 DEF PacketInv
  <2> QED
    BY <2>1
<1>5. /\ DOMAIN docs = kept /\ docs = Restrict(docs, DOMAIN docs)
      /\ \A m \in kept : docs[m] = IF m \in filled THEN [text |-> "full", of |-> packet[m].of]
                                   ELSE packet[m]
  BY <1>4 DEF Restrict
<1>8. own # "remove" => kept = DOMAIN packet
  OBVIOUS
<1>9. \A m \in DOMAIN packet : m # Own => m \in kept
  OBVIOUS
<1>10. kept \subseteq DOMAIN packet
  OBVIOUS
<1> HIDE DEF docs, kept
<1>6. CASE own \in {"keep", "remove"}
  <2>1. packet' = docs
    BY <1>2, <1>6
  <2>2. \A f \in Doc \cap DOMAIN packet : f \in kept
    BY <1>9, Names
  <2> QED
    BY <1>3, <1>5, <1>9, <1>10, <2>1, <2>2 DEF AgentEdit, Stale
<1>7. CASE own \in {"clean", "faulty", "torn"}
  <2>1. packet' = With(docs, Own, [text |-> own, of |-> None]) /\ kept = DOMAIN packet
    BY <1>2, <1>7, <1>8
  <2> DEFINE content == [text |-> own, of |-> None]
  <2> HIDE DEF content
  <2>2. /\ DOMAIN packet' = DOMAIN packet \cup {Own} /\ packet'[Own] = [text |-> own, of |-> None]
        /\ \A m \in DOMAIN packet : m # Own => packet'[m] = docs[m]
        /\ packet' = Restrict(packet', DOMAIN packet')
    <3>1. packet' = With(docs, Own, content)
      BY <2>1 DEF content
    <3>2. /\ DOMAIN packet' = DOMAIN docs \cup {Own} /\ packet'[Own] = content
          /\ \A m \in DOMAIN docs : m # Own => packet'[m] = docs[m]
          /\ packet' = Restrict(packet', DOMAIN packet')
      BY <3>1 DEF With, Restrict
    <3> QED
      BY <1>5, <2>1, <3>2 DEF content
  <2>3. \A f \in Doc : f # Own
    BY Names
  <2> QED
    BY <1>3, <1>5, <1>7, <2>1, <2>2, <2>3 DEF AgentEdit, Stale
<1> QED
  BY <1>6, <1>7

\* What a write leaves behind, if it is a document, the agent's or the rows.
LEMMA PutKeeps ==
  ASSUME PacketInv, NEW m, NEW text, NEW of, Put(m, text, of),
         m \in Doc => text \in {"empty", "stub", "full"},
         m = Own => text \in {"clean", "faulty", "torn"},
         m = Rows => DOMAIN of \subseteq Doc
  PROVE  PacketInv'
<1>1. /\ DOMAIN packet' = DOMAIN packet \cup {m}
      /\ packet'[m] = [text |-> text, of |-> of]
      /\ packet'[m].text = text /\ packet'[m].of = of
      /\ \A n \in DOMAIN packet : n # m => packet'[n] = packet[n]
      /\ packet' = Restrict(packet', DOMAIN packet')
  BY PutFacts
<1>2. \A n \in DOMAIN packet' : packet'[n] = [text |-> packet'[n].text, of |-> packet'[n].of]
  BY <1>1 DEF PacketInv
<1>3. Rows \in DOMAIN packet' /\ DOMAIN packet'[Rows].of \subseteq Doc
  BY <1>1 DEF PacketInv, Has
<1>4. Own \in DOMAIN packet' => packet'[Own].text \in {"clean", "faulty", "torn"}
  BY <1>1 DEF PacketInv, Has, Text
<1>5. \A f \in Doc : f \in DOMAIN packet' => packet'[f].text \in {"empty", "stub", "full"}
  BY <1>1 DEF PacketInv, Has, Text
<1> QED
  BY <1>1, <1>2, <1>3, <1>4, <1>5 DEF PacketInv, Has, Text

\* The steps that leave the packet as it is, and those that may not.
Looking ==
  \/ RepoChange \/ StartDocstub \/ EndDocstub \/ KillPacket
  \/ StartValidate \/ CheckStructure \/ CheckDocuments \/ CheckContents \/ CheckVerdict
  \/ StartManifest \/ VerifyManifest \/ \E m \in Member : HashMember(m) \/ AddMember(m)
  \/ StartSkip \/ ListMembers \/ CloseArchive \/ FinishPackage \/ KillPackaging

WritingManifest == OpenManifest \/ WriteManifest \/ KilledInManifest

LEMMA LookingKeeps == Looking => packet' = packet
BY DEF Looking, RepoChange, StartDocstub, EndDocstub, KillPacket,
       StartValidate, CheckStructure, CheckDocuments, CheckContents, CheckVerdict, Unparsed,
       StartManifest, VerifyManifest, HashMember, AddMember,
       StartSkip, ListMembers, CloseArchive, FinishPackage, KillPackaging

LEMMA WritingManifestPuts ==
  ASSUME WritingManifest
  PROVE  \E text \in {"lines", "cut"} : \E of : Put(Manifest, text, of)
BY DEF WritingManifest, OpenManifest, WriteManifest, KilledInManifest

LEMMA NextCases ==
  ASSUME [Next]_vars
  PROVE  \/ Looking \/ WritingManifest \/ AgentEdit \/ Inventory \/ Verify
         \/ \E f \in Doc : OpenDoc(f) \/ WriteDoc(f)
         \/ OpenReport \/ WriteReport \/ UNCHANGED vars
BY DEF Next, Edit, PacketStep, Docstub, Validate, BuildManifest, BuildZip, Looking, WritingManifest
-----------------------------------------------------------------------------
LEMMA FirstDocs == \A n \in 0..(Len(Docs) - 1) : ToSet(SubSeq(Docs, 1, n)) \subseteq Doc
<1> TAKE n \in 0..(Len(Docs) - 1)
<1>1. Docs \in Seq(Doc) /\ Len(Docs) \in Nat
  BY DocsAssumption DEF Doc
<1>2. \A i \in 1..n : Docs[i] \in Doc
  BY <1>1, ElementOfSeq
<1>3. SubSeq(Docs, 1, n) \in Seq(Doc)
  BY <1>1, <1>2, SubSeqProperties
<1>4. \A i \in DOMAIN SubSeq(Docs, 1, n) : SubSeq(Docs, 1, n)[i] \in Doc
  BY <1>3, ElementOfSeq
<1> QED
  BY <1>4 DEF ToSet

\* What inventory leaves, also when it is killed.
LEMMA InventoryPuts ==
  ASSUME TypeOK, Inventory
  PROVE  \E text \in {"rows", "torn"} : \E of : Put(Rows, text, of) /\ DOMAIN of \subseteq Doc
<1>1. CASE Put(Rows, "rows", repo)
  BY <1>1 DEF TypeOK
<1>2. ASSUME NEW n \in 0..(Len(Docs) - 1), NEW text \in {"rows", "torn"},
             Put(Rows, text, [f \in ToSet(SubSeq(Docs, 1, n)) |-> repo[f]])
      PROVE  \E t \in {"rows", "torn"} : \E of : Put(Rows, t, of) /\ DOMAIN of \subseteq Doc
  BY <1>2, FirstDocs
<1> QED
  BY <1>1, <1>2 DEF Inventory

LEMMA VerifyPuts ==
  ASSUME PacketInv, Verify
  PROVE  \/ packet' = packet /\ UNCHANGED fresh
         \/ fresh' = "no" /\ \E text \in {"PASS", "FAIL", "unverifiable", "torn"} :
              Put(Verdict, text, packet[Rows].of)
BY DEF Verify, RowsRead, PacketInv, Stale

LEMMA PacketInvariant ==
  ASSUME TypeOK, PacketInv, [Next]_vars
  PROVE  PacketInv'
<1>1. CASE Looking \/ UNCHANGED vars
  <2>1. packet' = packet
    BY <1>1, LookingKeeps DEF vars, packetVars
  <2> QED
    BY <2>1 DEF PacketInv, Restrict, Has, Text
<1>2. CASE WritingManifest
  <2>1. PICK text \in {"lines", "cut"} : \E of : Put(Manifest, text, of)
    BY <1>2, WritingManifestPuts
  <2> QED
    BY <2>1, PutKeeps, Names
<1>3. CASE AgentEdit
  <2>1. /\ packet' = Restrict(packet', DOMAIN packet')
        /\ \A m \in DOMAIN packet \cup DOMAIN packet' :
             m # Own => (m \in DOMAIN packet' <=> m \in DOMAIN packet)
        /\ \A m \in DOMAIN packet \ (Doc \cup {Own}) : packet'[m] = packet[m]
        /\ \A f \in Doc \cap DOMAIN packet :
             \/ packet'[f] = packet[f]
             \/ packet[f].text = "stub" /\ packet'[f] = [text |-> "full", of |-> packet[f].of]
        /\ Own \in DOMAIN packet' =>
             \/ Own \in DOMAIN packet /\ packet'[Own] = packet[Own]
             \/ \E own \in {"clean", "faulty", "torn"} : packet'[Own] = [text |-> own, of |-> None]
    BY <1>3, AgentEditFacts
  <2>2. \A m \in DOMAIN packet' : packet'[m] = [text |-> packet'[m].text, of |-> packet'[m].of]
    <3> TAKE m \in DOMAIN packet'
    <3>1. CASE m = Own
      <4>1. CASE Own \in DOMAIN packet /\ packet'[Own] = packet[Own]
        BY <3>1, <4>1 DEF PacketInv
      <4>2. ASSUME NEW own, packet'[Own] = [text |-> own, of |-> None]
            PROVE  packet'[Own] = [text |-> packet'[Own].text, of |-> packet'[Own].of]
        BY <4>2
      <4> QED
        BY <2>1, <3>1, <4>1, <4>2
    <3>2. CASE m \in Doc /\ m # Own
      <4>1. m \in Doc \cap DOMAIN packet
        BY <2>1, <3>2
      <4>2. CASE packet'[m] = packet[m]
        BY <4>1, <4>2 DEF PacketInv
      <4>3. CASE packet'[m] = [text |-> "full", of |-> packet[m].of]
        BY <4>3
      <4> QED
        BY <2>1, <4>1, <4>2, <4>3
    <3>3. CASE m \notin Doc /\ m # Own
      <4>1. m \in DOMAIN packet /\ packet'[m] = packet[m]
        BY <2>1, <3>3
      <4> QED
        BY <4>1 DEF PacketInv
    <3> QED
      BY <3>1, <3>2, <3>3
  <2>3. Rows \in DOMAIN packet' /\ DOMAIN packet'[Rows].of \subseteq Doc
    <3>1. Rows \notin Doc \cup {Own} /\ Rows \in DOMAIN packet
      BY Names DEF PacketInv, Has
    <3>2. Rows \in DOMAIN packet' /\ packet'[Rows] = packet[Rows]
      BY <2>1, <3>1
    <3> QED
      BY <3>2 DEF PacketInv
  <2>4. Own \in DOMAIN packet' => packet'[Own].text \in {"clean", "faulty", "torn"}
    BY <2>1 DEF PacketInv, Has, Text
  <2>5. \A f \in Doc : f \in DOMAIN packet' => packet'[f].text \in {"empty", "stub", "full"}
    <3> SUFFICES ASSUME NEW f \in Doc, f \in DOMAIN packet'
                 PROVE  packet'[f].text \in {"empty", "stub", "full"}
      OBVIOUS
    <3>1. f # Own
      BY Names
    <3>2. f \in Doc \cap DOMAIN packet
      BY <2>1, <3>1
    <3>3. CASE packet'[f] = packet[f]
      BY <3>2, <3>3 DEF PacketInv, Has, Text
    <3>4. CASE packet'[f] = [text |-> "full", of |-> packet[f].of]
      BY <3>4
    <3> QED
      BY <2>1, <3>2, <3>3, <3>4
  <2> QED
    BY <2>1, <2>2, <2>3, <2>4, <2>5 DEF PacketInv, Has, Text
<1>4. CASE Inventory
  <2>1. PICK text \in {"rows", "torn"} : \E of : Put(Rows, text, of) /\ DOMAIN of \subseteq Doc
    BY <1>4, InventoryPuts
  <2> QED
    BY <2>1, PutKeeps, Names
<1>5. CASE Verify
  <2>1. CASE packet' = packet
    BY <2>1 DEF PacketInv, Restrict, Has, Text
  <2>2. CASE \E text \in {"PASS", "FAIL", "unverifiable", "torn"} :
               Put(Verdict, text, packet[Rows].of)
    BY <2>2, PutKeeps, Names
  <2> QED
    BY <1>5, <2>1, <2>2, VerifyPuts
<1>6. ASSUME NEW f \in Doc, OpenDoc(f) \/ WriteDoc(f) PROVE PacketInv'
  <2>1. Put(f, "empty", None) \/ Put(f, "stub", mem[f])
    BY <1>6 DEF OpenDoc, WriteDoc
  <2>2. f # Own /\ f # Rows
    BY Names
  <2> QED
    BY <2>1, <2>2, PutKeeps
<1>7. CASE OpenReport \/ WriteReport
  <2>1. \E text : Put(Report, text, None)
    BY <1>7 DEF OpenReport, WriteReport
  <2> QED
    BY <2>1, PutKeeps, Names
<1> QED
  BY <1>1, <1>2, <1>3, <1>4, <1>5, <1>6, <1>7, NextCases
-----------------------------------------------------------------------------
(* Ranges                                                                   *)

LEMMA PacketDomain ==
  ASSUME TypeOK, PacketInv, [Next]_vars
  PROVE  DOMAIN packet' \subseteq Member
<1>0. DOMAIN packet \subseteq Member
  BY DEF TypeOK
<1>1. ASSUME NEW m \in Member, NEW text, NEW of, Put(m, text, of)
      PROVE  DOMAIN packet' \subseteq Member
  BY <1>0, <1>1, PutFacts
<1>2. CASE packet' = packet
  BY <1>0, <1>2
<1>3. CASE AgentEdit
  <2>1. \A m \in DOMAIN packet \cup DOMAIN packet' :
          m # Own => (m \in DOMAIN packet' <=> m \in DOMAIN packet)
    BY <1>3, AgentEditFacts
  <2> QED
    BY <1>0, <2>1, Members
<1>4. CASE Inventory
  <2>1. \E text, of : Put(Rows, text, of)
    BY <1>4, InventoryPuts
  <2> QED
    BY <1>1, <2>1, Members
<1>5. CASE Verify
  <2>1. packet' = packet \/ \E text : Put(Verdict, text, packet[Rows].of)
    BY <1>5, VerifyPuts
  <2> QED
    BY <1>1, <1>2, <2>1, Members
<1>6. CASE WritingManifest
  <2>1. \E text, of : Put(Manifest, text, of)
    BY <1>6, WritingManifestPuts
  <2> QED
    BY <1>1, <2>1, Members
<1>7. ASSUME NEW f \in Doc, OpenDoc(f) \/ WriteDoc(f)
      PROVE  DOMAIN packet' \subseteq Member
  <2>1. Put(f, "empty", None) \/ Put(f, "stub", mem[f])
    BY <1>7 DEF OpenDoc, WriteDoc
  <2> QED
    BY <1>1, <2>1, Members
<1>8. CASE OpenReport \/ WriteReport
  <2>1. \E text : Put(Report, text, None)
    BY <1>8 DEF OpenReport, WriteReport
  <2> QED
    BY <1>1, <2>1, Members
<1> QED
  BY <1>2, <1>3, <1>4, <1>5, <1>6, <1>7, <1>8, NextCases, LookingKeeps DEF vars, packetVars

\* The bounds are kept, and the repository has all files.
CountsOK ==
  /\ repo \in [Doc -> Version]
  /\ edits \in 0..MaxEdits /\ changes \in 0..MaxChanges
  /\ kills \in 0..MaxKills /\ commands \in 0..MaxCommands

LEMMA CommandCounts ==
  ASSUME CountsOK, Command, UNCHANGED repo, kills' = kills \/ Killed
  PROVE  CountsOK'
BY BoundsAssumption DEF CountsOK, Command, Killed

LEMMA KilledCounts ==
  ASSUME CountsOK, Killed, UNCHANGED <<repo, edits, changes, commands>>
  PROVE  CountsOK'
BY BoundsAssumption DEF CountsOK, Killed

LEMMA StaysCounts ==
  ASSUME CountsOK, UNCHANGED <<repo, counts>>
  PROVE  CountsOK'
BY DEF CountsOK, counts

LEMMA EditCounts == CountsOK /\ Edit => CountsOK'
<1> SUFFICES ASSUME CountsOK, Edit PROVE CountsOK'
  OBVIOUS
<1>1. CASE AgentEdit
  BY <1>1, BoundsAssumption DEF CountsOK, Edit, AgentEdit
<1>2. CASE RepoChange
  BY <1>2, BoundsAssumption DEF CountsOK, Edit, RepoChange
<1> QED
  BY <1>1, <1>2 DEF Edit

LEMMA CountsInvariant ==
  ASSUME CountsOK, [Next]_vars
  PROVE  CountsOK'
<1>1. CASE Edit
  BY <1>1, EditCounts
<1>2. CASE PacketStep
  <2>1. CASE Inventory
    BY <2>1, CommandCounts DEF Inventory
  <2>2. CASE Verify
    BY <2>2, CommandCounts DEF Verify
  <2>3. CASE Docstub
    <3>1. CASE StartDocstub
      BY <3>1, CommandCounts DEF StartDocstub
    <3>2. CASE EndDocstub \/ \E f \in Doc : OpenDoc(f) \/ WriteDoc(f)
      BY <3>2, StaysCounts DEF EndDocstub, OpenDoc, WriteDoc
    <3> QED
      BY <2>3, <3>1, <3>2 DEF Docstub
  <2>4. CASE Validate
    <3>1. CASE StartValidate
      BY <3>1, CommandCounts DEF StartValidate
    <3>2. CASE CheckStructure \/ CheckDocuments \/ CheckContents \/ CheckVerdict
      BY <3>2, StaysCounts DEF CheckStructure, CheckDocuments, CheckContents, CheckVerdict, Unparsed
    <3>3. CASE OpenReport \/ WriteReport
      BY <3>3, StaysCounts DEF OpenReport, WriteReport
    <3> QED
      BY <2>4, <3>1, <3>2, <3>3 DEF Validate
  <2>5. CASE KillPacket
    BY <2>5, KilledCounts DEF KillPacket
  <2> QED
    BY <1>2, <2>1, <2>2, <2>3, <2>4, <2>5 DEF PacketStep
<1>3. CASE StartManifest \/ StartSkip
  BY <1>3, CommandCounts DEF StartManifest, StartSkip
<1>4. CASE KilledInManifest \/ KillPackaging
  BY <1>4, KilledCounts DEF KilledInManifest, KillPackaging
<1>5. CASE OpenManifest \/ WriteManifest \/ VerifyManifest \/ \E m \in Member : HashMember(m)
  BY <1>5, StaysCounts DEF OpenManifest, WriteManifest, VerifyManifest, HashMember
<1>6. CASE ListMembers \/ CloseArchive \/ FinishPackage \/ \E m \in Member : AddMember(m)
  BY <1>6, StaysCounts DEF ListMembers, CloseArchive, FinishPackage, AddMember
<1>7. CASE UNCHANGED vars
  BY <1>7, StaysCounts DEF vars, packetVars
<1> QED
  BY <1>1, <1>2, <1>3, <1>4, <1>5, <1>6, <1>7 DEF Next, BuildManifest, BuildZip

\* The ranges that the commands' own variables keep.
RangesOK ==
  /\ DOMAIN archive.of \subseteq Member /\ todo \subseteq Member
  /\ fresh \in {"no", "sampling", "yes"} /\ covers \in {"no", "building", "yes"}
  /\ mode \in {"none", "manifest", "package", "skip"}
  /\ archive.state \in {"none", "open", "closed"}
  /\ pc = "idle" => todo = {} /\ mem = None /\ problems = {} /\ mode = "none"
  /\ outcome.status \in {"none", "PASS", "FAIL"}

LEMMA TypeParts == TypeOK <=> CountsOK /\ RangesOK /\ DOMAIN packet \subseteq Member
BY DEF TypeOK, CountsOK, RangesOK

\* What a step of the packet's own commands keeps, it keeps with the others' variables.
LEMMA PacketRanges ==
  ASSUME TypeOK, ControlInv, PacketInv, Edit \/ PacketStep, Track,
         UNCHANGED <<mode, archive, outcome>>
  PROVE  RangesOK'
<1>0. RangesOK
  BY TypeParts
<1>1. covers' \in {"no", "building", "yes"} /\ archive' = archive /\ outcome' = outcome
      /\ mode' = mode
  BY <1>0 DEF RangesOK, Track
<1>2. CASE Edit
  BY <1>0, <1>1, <1>2 DEF RangesOK, Edit, AgentEdit, RepoChange, Stale
<1>3. CASE Inventory \/ Verify
  BY <1>0, <1>1, <1>3 DEF RangesOK, Inventory, Verify, Stale
<1>4. CASE StartDocstub
  <2>1. todo' \subseteq Member
    BY <1>4, Members DEF PacketInv, StartDocstub, RowsRead
  <2> QED
    BY <1>0, <1>1, <1>4, <2>1 DEF RangesOK, StartDocstub
<1>5. ASSUME NEW f \in Doc, OpenDoc(f) \/ WriteDoc(f) PROVE RangesOK'
  BY <1>0, <1>1, <1>5 DEF RangesOK, OpenDoc, WriteDoc, Stale
<1>6. CASE End /\ pc # "idle" /\ fresh' \in {"no", "sampling", "yes"} /\ mode = "none"
  BY <1>0, <1>1, <1>6 DEF RangesOK, End
<1>7. CASE EndDocstub \/ WriteReport \/ KillPacket
  <2>1. fresh' \in {"no", "sampling", "yes"} /\ pc # "idle" /\ End
    BY <1>0, <1>7 DEF RangesOK, EndDocstub, WriteReport, KillPacket
  <2>2. mode = "none"
    BY <1>7 DEF ControlInv, DocstubPc, ValidatePc, EndDocstub, WriteReport, KillPacket
  <2> QED
    BY <1>6, <2>1, <2>2
<1>8. CASE StartValidate
  BY <1>0, <1>1, <1>8 DEF RangesOK, StartValidate
<1>9. CASE CheckStructure \/ OpenReport
  BY <1>0, <1>1, <1>9 DEF RangesOK, CheckStructure, OpenReport
<1>10. CASE CheckDocuments \/ CheckContents \/ CheckVerdict
  <2>1. mode = "none" /\ pc # "idle"
    BY <1>10 DEF ControlInv, ValidatePc, CheckDocuments, CheckContents, CheckVerdict
  <2>2. CASE End /\ fresh' = "no"
    BY <1>6, <2>1, <2>2
  <2>3. CASE pc' \in {"contents", "verdict", "report"} /\ UNCHANGED <<todo, fresh>>
    BY <1>0, <1>1, <2>3 DEF RangesOK
  <2> QED
    BY <1>10, <2>2, <2>3 DEF CheckDocuments, CheckContents, CheckVerdict, Unparsed
<1> QED
  BY <1>2, <1>3, <1>4, <1>5, <1>7, <1>8, <1>9, <1>10 DEF PacketStep, Docstub, Validate

\* The members that hash and zip deal with are in the packet; what ends forgets them.
LEMMA FinishRanges ==
  ASSUME RangesOK, Finish, UNCHANGED <<fresh, outcome>>,
         DOMAIN archive'.of \subseteq Member, archive'.state \in {"none", "open", "closed"},
         covers' \in {"no", "building", "yes"}
  PROVE  RangesOK'
BY DEF RangesOK, Finish, End

LEMMA ManifestRanges ==
  ASSUME TypeOK, BuildManifest
  PROVE  RangesOK'
<1>0. RangesOK /\ DOMAIN packet \subseteq Member
  BY TypeParts
<1>1. CASE StartManifest
  BY <1>0, <1>1 DEF RangesOK, StartManifest, Covered, NoOutcome
<1>2. ASSUME NEW m \in Member, HashMember(m) PROVE RangesOK'
  <2>1. CASE Finish
    BY <1>0, <1>2, <2>1, FinishRanges DEF RangesOK, HashMember
  <2>2. CASE todo' = todo \ {m} /\ UNCHANGED <<pc, problems, mode>>
    BY <1>0, <1>2, <2>2 DEF RangesOK, HashMember
  <2> QED
    BY <1>2, <2>1, <2>2 DEF HashMember
<1>3. CASE OpenManifest
  BY <1>0, <1>3 DEF RangesOK, OpenManifest, zipVars
<1>4. CASE WriteManifest
  BY <1>0, <1>4 DEF RangesOK, WriteManifest
<1>5. CASE KilledInManifest
  BY <1>0, <1>5, FinishRanges DEF RangesOK, KilledInManifest
<1>6. CASE VerifyManifest
  <2>1. covers' \in {"no", "building", "yes"}
    BY <1>0, <1>6 DEF RangesOK, VerifyManifest
  <2> QED
    BY <1>0, <1>6, <2>1, FinishRanges DEF RangesOK, VerifyManifest
<1> QED
  BY <1>1, <1>2, <1>3, <1>4, <1>5, <1>6 DEF BuildManifest

LEMMA ZipRanges ==
  ASSUME TypeOK, ArchiveInv, BuildZip \/ KillPackaging
  PROVE  RangesOK'
<1>0. /\ RangesOK /\ DOMAIN packet \subseteq Member
      /\ archive = [state |-> archive.state, of |-> archive.of]
  BY TypeParts DEF ArchiveInv
<1>1. /\ [archive EXCEPT !.state = "closed"].state = "closed"
      /\ [archive EXCEPT !.state = "closed"].of = archive.of
      /\ [archive EXCEPT !.of = None].state = archive.state
      /\ [archive EXCEPT !.of = None].of = None
  BY <1>0
<1>2. CASE StartSkip
  BY <1>0, <1>2 DEF RangesOK, StartSkip, NoOutcome
<1>3. CASE ListMembers
  <2>1. CASE Finish /\ UNCHANGED archive
    BY <1>0, <1>3, <2>1, FinishRanges DEF RangesOK, ListMembers
  <2>2. CASE todo' = DOMAIN packet /\ archive' = NoArchive /\ pc' = "zip" /\ UNCHANGED mode
    BY <1>0, <1>3, <2>2, NoneFacts DEF RangesOK, ListMembers, NoArchive
  <2> QED
    BY <1>3, <2>1, <2>2 DEF ListMembers
<1>4. ASSUME NEW m \in Member, AddMember(m) PROVE RangesOK'
  <2>1. CASE archive' = [archive EXCEPT !.state = "closed"] /\ Finish
    BY <1>0, <1>1, <1>4, <2>1, FinishRanges DEF RangesOK, AddMember
  <2>2. CASE /\ archive' = [state |-> "open", of |-> With(archive.of, m, packet[m])]
             /\ todo' = todo \ {m} /\ UNCHANGED <<pc, mode>>
    <3>1. DOMAIN archive'.of = DOMAIN archive.of \cup {m}
      BY <2>2, WithFacts
    <3> QED
      BY <1>0, <1>4, <2>2, <3>1 DEF RangesOK, AddMember
  <2> QED
    BY <1>4, <2>1, <2>2 DEF AddMember
<1>5. CASE CloseArchive
  BY <1>0, <1>1, <1>5 DEF RangesOK, CloseArchive
<1>6. CASE FinishPackage
  BY <1>0, <1>6 DEF RangesOK, FinishPackage, Finish, End
<1>7. CASE KillPackaging
  <2>1. DOMAIN archive'.of \subseteq Member /\ archive'.state \in {"none", "open", "closed"}
    BY <1>0, <1>1, <1>7, NoneFacts DEF RangesOK, KillPackaging
  <2> QED
    BY <1>0, <1>7, <2>1, FinishRanges DEF RangesOK, KillPackaging
<1> QED
  BY <1>2, <1>3, <1>4, <1>5, <1>6, <1>7 DEF BuildZip

LEMMA TypeInvariant ==
  ASSUME TypeOK, ControlInv, PacketInv, ArchiveInv, [Next]_vars
  PROVE  TypeOK'
<1>1. CountsOK' /\ DOMAIN packet' \subseteq Member
  BY TypeParts, CountsInvariant, PacketDomain
<1>2. RangesOK'
  <2>1. CASE UNCHANGED vars
    BY <2>1, TypeParts DEF RangesOK, vars, packetVars, zipVars
  <2> QED
    BY <2>1, PacketRanges, ManifestRanges, ZipRanges DEF Next
<1> QED
  BY <1>1, <1>2 DEF TypeOK, CountsOK, RangesOK
-----------------------------------------------------------------------------
(* Control                                                                  *)

LEMMA PacketControl ==
  ASSUME TypeOK, ControlInv, Edit \/ PacketStep, UNCHANGED <<mode, archive, outcome>>
  PROVE  ControlInv'
<1>1. \/ pc' = pc
      \/ /\ pc \in {"idle"} \cup DocstubPc \cup ValidatePc
         /\ pc' \in {"idle"} \cup DocstubPc \cup ValidatePc
  <2>1. CASE Edit \/ Inventory \/ Verify
    BY <2>1 DEF Edit, Inventory, Verify
  <2>2. CASE Docstub
    BY <2>2 DEF Docstub, StartDocstub, EndDocstub, OpenDoc, WriteDoc, Command, End, DocstubPc
  <2>3. CASE StartValidate \/ CheckStructure \/ OpenReport \/ WriteReport
    BY <2>3 DEF StartValidate, CheckStructure, OpenReport, WriteReport, Command, End, ValidatePc
  <2>4. CASE CheckDocuments \/ CheckContents \/ CheckVerdict
    BY <2>4 DEF CheckDocuments, CheckContents, CheckVerdict, Unparsed, End, ValidatePc
  <2>5. CASE KillPacket
    BY <2>5 DEF KillPacket, End, DocstubPc, ValidatePc
  <2> QED
    BY <2>1, <2>2, <2>3, <2>4, <2>5 DEF PacketStep, Validate
<1>2. pc \in {"idle"} \cup DocstubPc \cup ValidatePc => mode = "none"
  BY DEF TypeOK, ControlInv
<1> QED
  BY <1>1, <1>2 DEF ControlInv, DocstubPc, ValidatePc, ZipPc

LEMMA FinishControl ==
  ASSUME ControlInv, Finish, UNCHANGED outcome, archive.state = "closed" => archive'.state = "closed"
  PROVE  ControlInv'
BY DEF ControlInv, Finish, End, DocstubPc, ValidatePc, ZipPc

LEMMA ManifestControl ==
  ASSUME TypeOK, ControlInv, BuildManifest
  PROVE  ControlInv'
<1>1. CASE StartManifest
  <2>1. pc = "idle" /\ mode = "none"
    BY <1>1 DEF StartManifest, Command, TypeOK
  <2> QED
    BY <1>1, <2>1 DEF ControlInv, StartManifest, NoOutcome, DocstubPc, ValidatePc, ZipPc
<1>2. ASSUME NEW m \in Member, HashMember(m) PROVE ControlInv'
  <2>1. CASE Finish
    BY <1>2, <2>1, FinishControl DEF HashMember
  <2>2. CASE UNCHANGED <<pc, mode>>
    BY <1>2, <2>2 DEF ControlInv, HashMember
  <2> QED
    BY <1>2, <2>1, <2>2 DEF HashMember
<1>3. CASE OpenManifest
  BY <1>3 DEF ControlInv, OpenManifest, zipVars, DocstubPc, ValidatePc, ZipPc
<1>4. CASE WriteManifest
  BY <1>4 DEF ControlInv, WriteManifest, DocstubPc, ValidatePc, ZipPc
<1>5. CASE KilledInManifest \/ VerifyManifest
  BY <1>5, FinishControl DEF KilledInManifest, VerifyManifest
<1> QED
  BY <1>1, <1>2, <1>3, <1>4, <1>5 DEF BuildManifest

LEMMA ZipControl ==
  ASSUME TypeOK, ControlInv, ArchiveInv, BuildZip \/ KillPackaging
  PROVE  ControlInv'
<1>0. archive = [state |-> archive.state, of |-> archive.of]
  BY DEF ArchiveInv
<1>1. /\ [archive EXCEPT !.state = "closed"].state = "closed"
      /\ [archive EXCEPT !.of = None].state = archive.state
  BY <1>0
<1>2. CASE StartSkip
  <2>1. pc = "idle" /\ mode = "none"
    BY <1>2 DEF StartSkip, Command, TypeOK
  <2> QED
    BY <1>2, <2>1 DEF ControlInv, StartSkip, NoOutcome, DocstubPc, ValidatePc, ZipPc
<1>3. CASE ListMembers
  <2>1. CASE Finish /\ UNCHANGED archive
    BY <1>3, <2>1, FinishControl DEF ListMembers
  <2>2. CASE pc' = "zip" /\ UNCHANGED mode
    BY <1>3, <2>2 DEF ControlInv, ListMembers, DocstubPc, ValidatePc, ZipPc
  <2> QED
    BY <1>3, <2>1, <2>2 DEF ListMembers
<1>4. ASSUME NEW m \in Member, AddMember(m) PROVE ControlInv'
  <2>1. CASE archive' = [archive EXCEPT !.state = "closed"] /\ Finish
    BY <1>1, <1>4, <2>1, FinishControl DEF AddMember
  <2>2. CASE UNCHANGED <<pc, mode>>
    BY <1>4, <2>2 DEF ControlInv, AddMember, ZipPc, DocstubPc, ValidatePc
  <2> QED
    BY <1>4, <2>1, <2>2 DEF AddMember
<1>5. CASE CloseArchive
  BY <1>1, <1>5 DEF ControlInv, CloseArchive, DocstubPc, ValidatePc, ZipPc
<1>6. CASE FinishPackage
  BY <1>6 DEF ControlInv, FinishPackage, Finish, End, DocstubPc, ValidatePc, ZipPc
<1>7. CASE KillPackaging
  BY <1>1, <1>7, FinishControl DEF KillPackaging
<1> QED
  BY <1>2, <1>3, <1>4, <1>5, <1>6, <1>7 DEF BuildZip

LEMMA ControlInvariant ==
  ASSUME TypeOK, ControlInv, ArchiveInv, [Next]_vars
  PROVE  ControlInv'
<1>1. CASE UNCHANGED vars
  BY <1>1 DEF ControlInv, vars, packetVars, zipVars
<1> QED
  BY <1>1, PacketControl, ManifestControl, ZipControl DEF Next
-----------------------------------------------------------------------------
(* What a step leaves alone                                                 *)

\* The step does not touch file m of the packet.
Same(m) ==
  /\ m \in DOMAIN packet' <=> m \in DOMAIN packet
  /\ m \in DOMAIN packet => packet'[m] = packet[m]

LEMMA PutSame ==
  ASSUME NEW m, NEW text, NEW of, Put(m, text, of)
  PROVE  \A n : n # m => Same(n)
<1>1. /\ DOMAIN packet' = DOMAIN packet \cup {m}
      /\ \A n \in DOMAIN packet : n # m => packet'[n] = packet[n]
  BY PutFacts
<1> QED
  BY <1>1 DEF Same

LEMMA UnchangedSame == packet' = packet => \A m : Same(m)
BY DEF Same

LEMMA WritingManifestSame == WritingManifest => \A m : m # Manifest => Same(m)
BY WritingManifestPuts, PutSame

LEMMA AgentEditSame ==
  ASSUME PacketInv, AgentEdit
  PROVE  \A m : m \notin Doc \cup {Own} => Same(m)
BY AgentEditFacts DEF Same

\* The packet's own commands and the agent leave the manifest alone.
LEMMA ManifestSame ==
  ASSUME TypeOK, PacketInv, Edit \/ PacketStep
  PROVE  Same(Manifest)
<1>1. CASE packet' = packet
  BY <1>1 DEF Same
<1>2. CASE AgentEdit
  BY <1>2, AgentEditSame, Names
<1>3. ASSUME NEW m, NEW text, NEW of, Put(m, text, of), m # Manifest PROVE Same(Manifest)
  BY <1>3, PutSame
<1>4. CASE Inventory
  <2>1. \E text, of : Put(Rows, text, of)
    BY <1>4, InventoryPuts
  <2> QED
    BY <1>3, <2>1, Names
<1>5. CASE Verify
  <2>1. packet' = packet \/ \E text : Put(Verdict, text, packet[Rows].of)
    BY <1>5, VerifyPuts
  <2> QED
    BY <1>1, <1>3, <2>1, Names
<1>6. ASSUME NEW f \in Doc, OpenDoc(f) \/ WriteDoc(f) PROVE Same(Manifest)
  <2>1. Put(f, "empty", None) \/ Put(f, "stub", mem[f])
    BY <1>6 DEF OpenDoc, WriteDoc
  <2> QED
    BY <1>3, <2>1, Names
<1>7. CASE OpenReport \/ WriteReport
  <2>1. \E text : Put(Report, text, None)
    BY <1>7 DEF OpenReport, WriteReport
  <2> QED
    BY <1>3, <2>1, Names
<1>8. CASE \/ RepoChange \/ StartDocstub \/ EndDocstub \/ KillPacket
           \/ StartValidate \/ CheckStructure \/ CheckDocuments \/ CheckContents \/ CheckVerdict
  BY <1>1, <1>8, LookingKeeps DEF Looking
<1> QED
  BY <1>2, <1>4, <1>5, <1>6, <1>7, <1>8 DEF Edit, PacketStep, Docstub, Validate

\* As long as covers, or lastZip, survives a step of theirs, the packet is the same.
LEMMA TrackFacts ==
  ASSUME TypeOK, PacketInv, PacketInv', Edit \/ PacketStep, Track
  PROVE  /\ covers' = "no" \/ (covers' = covers /\ packet' = packet)
         /\ lastZip' = NoArchive \/ (lastZip' = lastZip /\ packet' = packet)
<1>1. ASSUME Changed = {} PROVE packet' = packet
  <2>1. \A m \in (DOMAIN packet \cup DOMAIN packet') \ {Manifest} :
          m \in DOMAIN packet /\ m \in DOMAIN packet' /\ packet[m] = packet'[m]
    BY <1>1 DEF Changed, Has
  <2>2. DOMAIN packet' = DOMAIN packet /\ \A m \in DOMAIN packet : packet'[m] = packet[m]
    BY <2>1, ManifestSame DEF Same
  <2>3. /\ packet = [m \in DOMAIN packet |-> packet[m]]
        /\ packet' = [m \in DOMAIN packet' |-> packet'[m]]
    BY DEF PacketInv, Restrict
  <2> QED
    BY <2>2, <2>3
<1> QED
  BY <1>1 DEF Track
-----------------------------------------------------------------------------
(* Where documents and verdict come from                                    *)

LEMMA SourceStays ==
  ASSUME PacketInv, SourceInv, \A m \in Doc \cup {Rows, Verdict} : Same(m),
         rebased' = rebased, stubKilled => stubKilled',
         \/ UNCHANGED <<pc, todo, mem>>
         \/ pc' \notin DocstubPc /\ (pc = "docstubWrite" => stubKilled')
  PROVE  SourceInv'
<1>1. /\ Rows \in DOMAIN packet /\ packet'[Rows] = packet[Rows]
      /\ \A f \in Doc : f \in DOMAIN packet' <=> f \in DOMAIN packet
      /\ \A f \in Doc : f \in DOMAIN packet => packet'[f] = packet[f]
      /\ Verdict \in DOMAIN packet' => Verdict \in DOMAIN packet /\ packet'[Verdict] = packet[Verdict]
  BY DEF Same, PacketInv, Has
<1>2. \A f \in Doc : f \in DOMAIN packet' /\ packet'[f].text = "empty" =>
        stubKilled' \/ (pc' = "docstubWrite" /\ IsNext(f, todo'))
  BY <1>1 DEF SourceInv, Has, Text
<1>3. pc' \in DocstubPc => mem' = packet'[Rows].of /\ todo' \subseteq Doc
  BY <1>1 DEF SourceInv
<1>4. ~rebased' =>
        /\ \A f \in Doc : f \in DOMAIN packet' /\ packet'[f].text # "empty" =>
             packet'[f].of = packet'[Rows].of[f]
        /\ Verdict \in DOMAIN packet' => packet'[Verdict].of = packet'[Rows].of
  BY <1>1 DEF SourceInv, Has, Text
<1> QED
  BY <1>2, <1>3, <1>4 DEF SourceInv, Has, Text, IsNext

LEMMA SourceInvariant ==
  ASSUME TypeOK, PacketInv, SourceInv, [Next]_vars
  PROVE  SourceInv'
<1>0. /\ Rows \in DOMAIN packet /\ DOMAIN packet[Rows].of \subseteq Doc
      /\ Rows \notin Doc /\ Verdict \notin Doc /\ Rows # Verdict
      /\ Manifest \notin Doc \cup {Rows, Verdict} /\ Report \notin Doc \cup {Rows, Verdict}
  BY Names DEF PacketInv, Has
<1>1. CASE UNCHANGED vars
  BY <1>1, SourceStays, UnchangedSame DEF vars, packetVars, history
<1>2. CASE AgentEdit /\ Edit
  <2>1. /\ \A f \in Doc \cap DOMAIN packet :
             \/ packet'[f] = packet[f]
             \/ packet[f].text = "stub" /\ packet'[f] = [text |-> "full", of |-> packet[f].of]
        /\ \A f \in Doc : f \in DOMAIN packet' <=> f \in DOMAIN packet
        /\ Same(Rows) /\ Same(Verdict)
    BY <1>2, AgentEditFacts, AgentEditSame, Names
  <2>2. UNCHANGED <<pc, todo, mem, stubKilled, rebased>>
    BY <1>2 DEF Edit, history
  <2>3. ASSUME NEW f \in Doc, f \in DOMAIN packet'
        PROVE  /\ f \in DOMAIN packet /\ packet'[f].of = packet[f].of
               /\ packet'[f].text = "empty" <=> packet[f].text = "empty"
    <3>1. f \in Doc \cap DOMAIN packet
      BY <2>1, <2>3
    <3>2. CASE packet'[f] = packet[f]
      BY <3>1, <3>2
    <3>3. CASE packet[f].text = "stub" /\ packet'[f] = [text |-> "full", of |-> packet[f].of]
      BY <3>1, <3>3
    <3> QED
      BY <2>1, <3>1, <3>2, <3>3
  <2>4. \A f \in Doc : f \in DOMAIN packet' /\ packet'[f].text = "empty" =>
          stubKilled' \/ (pc' = "docstubWrite" /\ IsNext(f, todo'))
    BY <2>2, <2>3 DEF SourceInv, Has, Text
  <2>5. pc' \in DocstubPc => mem' = packet'[Rows].of /\ todo' \subseteq Doc
    BY <1>0, <2>1, <2>2 DEF SourceInv, Same
  <2>6. ~rebased' =>
          /\ \A f \in Doc : f \in DOMAIN packet' /\ packet'[f].text # "empty" =>
               packet'[f].of = packet'[Rows].of[f]
          /\ Verdict \in DOMAIN packet' => packet'[Verdict].of = packet'[Rows].of
    BY <1>0, <2>1, <2>2, <2>3 DEF SourceInv, Same, Has, Text
  <2> QED
    BY <2>4, <2>5, <2>6 DEF SourceInv, Has, Text, IsNext
<1>3. CASE RepoChange /\ Edit
  BY <1>3, SourceStays, UnchangedSame DEF RepoChange, Edit, history
<1>4. CASE Inventory
  <2>1. PICK text, of : Put(Rows, text, of)
    BY <1>4, InventoryPuts
  <2>2. \A f \in Doc \cup {Verdict} : Same(f)
    BY <1>0, <2>1, PutSame
  <2>3. /\ pc = "idle" /\ pc' = "idle" /\ stubKilled' = stubKilled
        /\ rebased' = (rebased \/ \E m \in Doc \cup {Verdict} : Has(m))
    BY <1>4 DEF Inventory, Command
  <2>4. \A f \in Doc : f \in DOMAIN packet' /\ packet'[f].text = "empty" => stubKilled'
    BY <2>2, <2>3 DEF SourceInv, Same, Has, Text
  <2>5. ~rebased' => \A f \in Doc \cup {Verdict} : f \notin DOMAIN packet'
    BY <2>2, <2>3 DEF Same, Has
  <2> QED
    BY <2>3, <2>4, <2>5 DEF SourceInv, DocstubPc, Has, Text
<1>5. CASE Verify
  <2>1. UNCHANGED <<pc, todo, mem, stubKilled, rebased>> /\ pc = "idle"
    BY <1>5 DEF Verify, Command, history
  <2>2. CASE packet' = packet
    BY <2>1, <2>2, SourceStays, UnchangedSame
  <2>3. ASSUME NEW text, Put(Verdict, text, packet[Rows].of) PROVE SourceInv'
    <3>1. (\A f \in Doc \cup {Rows} : Same(f)) /\ packet'[Verdict].of = packet[Rows].of
      <4>1. \A f \in Doc \cup {Rows} : f # Verdict
        BY <1>0
      <4>2. \A f : f # Verdict => Same(f)
        BY <2>3, PutSame
      <4> DEFINE rows == packet[Rows].of
      <4> HIDE DEF rows
      <4>3. packet'[Verdict].of = rows
        <5>1. Put(Verdict, text, rows)
          BY <2>3 DEF rows
        <5> QED
          BY <5>1, PutFacts
      <4> QED
        BY <4>1, <4>2, <4>3 DEF rows
    <3>2. \A f \in Doc : f \in DOMAIN packet' /\ packet'[f].text = "empty" => stubKilled'
      BY <2>1, <3>1 DEF SourceInv, Same, Has, Text
    <3>3. ~rebased' =>
            /\ \A f \in Doc : f \in DOMAIN packet' /\ packet'[f].text # "empty" =>
                 packet'[f].of = packet'[Rows].of[f]
            /\ packet'[Verdict].of = packet'[Rows].of
      BY <1>0, <2>1, <3>1 DEF SourceInv, Same, Has, Text
    <3> QED
      BY <2>1, <3>2, <3>3 DEF SourceInv, DocstubPc, Has, Text
  <2> QED
    BY <1>5, <2>2, <2>3, VerifyPuts
<1>6. CASE StartDocstub
  <2>1. /\ packet' = packet /\ pc = "idle" /\ pc' = "docstub" /\ mem' = packet[Rows].of
        /\ todo' \subseteq DOMAIN packet[Rows].of
        /\ UNCHANGED <<stubKilled, rebased>>
    BY <1>0, <1>6 DEF StartDocstub, Command, RowsRead, Has, history
  <2> QED
    BY <1>0, <2>1 DEF SourceInv, Has, Text
<1>7. ASSUME NEW f \in Doc, OpenDoc(f) PROVE SourceInv'
  <2>1. /\ pc = "docstub" /\ pc' = "docstubWrite" /\ IsNext(f, todo)
        /\ UNCHANGED <<todo, mem, stubKilled, rebased>> /\ Put(f, "empty", None)
    BY <1>7 DEF OpenDoc, history
  <2>2. /\ \A g \in Doc \cup {Rows, Verdict} : g # f => Same(g)
        /\ packet'[f].text = "empty"
    BY <2>1, PutSame, PutFacts
  <2>3. \A g \in Doc : g \in DOMAIN packet' /\ packet'[g].text = "empty" =>
          stubKilled' \/ IsNext(g, todo')
    BY <2>1, <2>2 DEF SourceInv, Same, Has, Text
  <2>4. mem' = packet'[Rows].of /\ todo' \subseteq Doc
    BY <1>0, <2>1, <2>2 DEF SourceInv, DocstubPc, Same
  <2>5. ~rebased' =>
          /\ \A g \in Doc : g \in DOMAIN packet' /\ packet'[g].text # "empty" =>
               packet'[g].of = packet'[Rows].of[g]
          /\ Verdict \in DOMAIN packet' => packet'[Verdict].of = packet'[Rows].of
    BY <1>0, <2>1, <2>2 DEF SourceInv, Same, Has, Text
  <2> QED
    BY <2>1, <2>3, <2>4, <2>5 DEF SourceInv, Has, Text, IsNext
<1>8. ASSUME NEW f \in Doc, WriteDoc(f) PROVE SourceInv'
  <2>1. /\ pc = "docstubWrite" /\ pc' = "docstub" /\ IsNext(f, todo) /\ todo' = todo \ {f}
        /\ UNCHANGED <<mem, stubKilled, rebased>> /\ Put(f, "stub", mem[f])
    BY <1>8 DEF WriteDoc, history
  <2>2. /\ \A g \in Doc \cup {Rows, Verdict} : g # f => Same(g)
        /\ packet'[f].text = "stub" /\ packet'[f].of = mem[f]
    BY <2>1, PutSame, PutFacts
  <2>3. mem = packet[Rows].of /\ todo \subseteq Doc
    BY <2>1 DEF SourceInv, DocstubPc
  <2>4. ASSUME NEW g \in Doc, g \in DOMAIN packet', packet'[g].text = "empty"
        PROVE  stubKilled'
    <3>1. g # f
      BY <2>2, <2>4
    <3>2. g \in DOMAIN packet /\ packet[g].text = "empty"
      BY <2>2, <2>4, <3>1 DEF Same
    <3>3. ~IsNext(g, todo)
      BY <2>1, <3>1, NextIsOne, Members
    <3> QED
      BY <2>1, <3>2, <3>3 DEF SourceInv, Has, Text
  <2>5. mem' = packet'[Rows].of /\ todo' \subseteq Doc
    BY <1>0, <2>1, <2>2, <2>3 DEF Same
  <2>6. ~rebased' =>
          /\ \A g \in Doc : g \in DOMAIN packet' /\ packet'[g].text # "empty" =>
               packet'[g].of = packet'[Rows].of[g]
          /\ Verdict \in DOMAIN packet' => packet'[Verdict].of = packet'[Rows].of
    BY <1>0, <2>1, <2>2, <2>3 DEF SourceInv, Same, Has, Text
  <2> QED
    BY <2>1, <2>4, <2>5, <2>6 DEF SourceInv, Has, Text
<1>9. CASE EndDocstub
  <2>1. /\ packet' = packet /\ pc = "docstub" /\ pc' = "idle"
        /\ UNCHANGED <<stubKilled, rebased>>
    BY <1>9 DEF EndDocstub, End, history
  <2>2. pc # "docstubWrite" /\ pc' \notin DocstubPc
    BY <2>1 DEF DocstubPc
  <2> QED
    BY <2>1, <2>2, SourceStays, UnchangedSame
<1>14. CASE KillPacket
  <2>1. packet' = packet /\ pc' = "idle" /\ rebased' = rebased
    BY <1>14 DEF KillPacket, End
  <2>2. stubKilled' = (stubKilled \/ pc = "docstubWrite")
    BY <1>14 DEF KillPacket
  <2>3. (stubKilled => stubKilled') /\ (pc = "docstubWrite" => stubKilled')
    BY <2>2, Zenon
  <2>4. pc' \notin DocstubPc
    BY <2>1 DEF DocstubPc
  <2> QED
    BY <2>1, <2>3, <2>4, SourceStays, UnchangedSame
<1>10. CASE StartValidate \/ CheckStructure \/ CheckDocuments \/ CheckContents \/ CheckVerdict
  <2>1. /\ packet' = packet /\ UNCHANGED <<stubKilled, rebased>>
        /\ pc # "docstubWrite" /\ pc' \notin DocstubPc
    BY <1>10 DEF StartValidate, CheckStructure, CheckDocuments, CheckContents, CheckVerdict,
                 Unparsed, Command, End, DocstubPc, history
  <2> QED
    BY <2>1, SourceStays, UnchangedSame
<1>11. CASE OpenReport \/ WriteReport
  <2>1. /\ \E text : Put(Report, text, None)
        /\ UNCHANGED <<stubKilled, rebased>> /\ pc # "docstubWrite" /\ pc' \notin DocstubPc
    BY <1>11 DEF OpenReport, WriteReport, End, DocstubPc, history
  <2>2. \A m \in Doc \cup {Rows, Verdict} : Same(m)
    BY <1>0, <2>1, PutSame
  <2> QED
    BY <2>1, <2>2, SourceStays
<1>12. CASE BuildManifest
  <2>1. \A m \in Doc \cup {Rows, Verdict} : Same(m)
    BY <1>0, <1>12, WritingManifestSame, UnchangedSame, LookingKeeps
    DEF BuildManifest, WritingManifest, Looking
  <2>2. /\ UNCHANGED <<stubKilled, rebased>>
        /\ UNCHANGED <<pc, todo, mem>> \/ (pc # "docstubWrite" /\ pc' \notin DocstubPc)
    BY <1>12 DEF BuildManifest, StartManifest, OpenManifest, WriteManifest, KilledInManifest,
                 VerifyManifest, HashMember, Finish, End, Command, DocstubPc, history
  <2> QED
    BY <2>1, <2>2, SourceStays
<1>13. CASE BuildZip \/ KillPackaging
  <2>1. packet' = packet
    BY <1>13, LookingKeeps DEF BuildZip, Looking
  <2>2. /\ UNCHANGED <<stubKilled, rebased>> /\ pc # "docstubWrite" /\ pc' \notin DocstubPc
    BY <1>13 DEF BuildZip, StartSkip, ListMembers, CloseArchive, FinishPackage, AddMember,
                 KillPackaging, Finish, End, Command, DocstubPc, history
  <2> QED
    BY <2>1, <2>2, SourceStays, UnchangedSame
<1> QED
  BY <1>1, <1>2, <1>3, <1>4, <1>5, <1>6, <1>7, <1>8, <1>9, <1>10, <1>11, <1>12, <1>13,
     <1>14
  DEF Next, Edit, PacketStep, Docstub, Validate
-----------------------------------------------------------------------------
(* What the report means                                                    *)

\* The part of the packet that validate judges.
Judged == Doc \cup {Own, Rows, Verdict}

LEMMA JudgedSame ==
  ASSUME PacketInv, \A m \in Judged : Same(m)
  PROVE  /\ Deficient' <=> Deficient
         /\ Documented' <=> Documented
         /\ \A m \in {Own, Rows, Verdict} : /\ m \in DOMAIN packet' <=> m \in DOMAIN packet
                                            /\ m \in DOMAIN packet => packet'[m] = packet[m]
<1>1. /\ \A m \in Judged : m \in DOMAIN packet' <=> m \in DOMAIN packet
      /\ \A m \in Judged : m \in DOMAIN packet => packet'[m] = packet[m]
      /\ Own \in Judged /\ Rows \in Judged /\ Verdict \in Judged /\ Doc \subseteq Judged
  BY DEF Same, Judged
<1>2. Rows \in DOMAIN packet /\ DOMAIN packet[Rows].of \subseteq Doc
  BY DEF PacketInv, Has
<1>3. RowsRead' = RowsRead /\ RowsRead = packet[Rows].of
  BY <1>1, <1>2 DEF RowsRead, Has
<1>4. \A f \in DOMAIN RowsRead : f \in Judged
  BY <1>1, <1>2, <1>3
<1>5. Documented' <=> Documented
  BY <1>1, <1>3, <1>4 DEF Documented, Has, Text
<1>6. Deficient' <=> Deficient
  BY <1>1, <1>3, <1>4 DEF Deficient, Has, Text
<1> QED
  BY <1>1, <1>5, <1>6

\* A report that is no longer about the packet, or about the same one.
LEMMA ReportStays ==
  ASSUME PacketInv, ReportInv,
         \/ fresh' = "no"
         \/ /\ fresh = "yes" /\ fresh' = "yes" /\ pc' \notin ValidatePc
            /\ tornReport' = tornReport
            /\ \A m \in Judged \cup {Report} : Same(m)
  PROVE  ReportInv'
<1>1. CASE fresh' = "no"
  BY <1>1 DEF ReportInv, SampleInv, ReportMeans
<1>2. CASE /\ fresh = "yes" /\ fresh' = "yes" /\ pc' \notin ValidatePc
           /\ tornReport' = tornReport
           /\ \A m \in Judged \cup {Report} : Same(m)
  <2>1. Deficient' <=> Deficient
    BY <1>2, JudgedSame
  <2>2. Report \in DOMAIN packet' /\ packet'[Report] = packet[Report]
    BY <1>2 DEF ReportInv, Same, Has
  <2> QED
    BY <1>2, <2>1, <2>2 DEF ReportInv, SampleInv, ReportMeans, Has, Text
<1> QED
  BY <1>1, <1>2

\* The steps of other commands, and of no command.
LEMMA ReportOutside ==
  ASSUME TypeOK, PacketInv, ReportInv, pc \notin ValidatePc, pc' \notin ValidatePc,
         fresh' = fresh, tornReport' = tornReport, \A m : m # Manifest => Same(m)
  PROVE  ReportInv'
<1>1. fresh \in {"no", "yes"}
  BY DEF TypeOK, ReportInv, SampleInv
<1>2. Manifest \notin Judged \cup {Report}
  BY Names DEF Judged
<1> QED
  BY <1>1, <1>2, ReportStays

\* The steps of validate before the report.
LEMMA SampleGoesOn ==
  ASSUME PacketInv, ReportInv, CheckStructure \/ CheckDocuments \/ CheckContents \/ CheckVerdict,
         fresh' = "sampling"
  PROVE  ReportInv'
<1>0. packet' = packet /\ fresh = "sampling" /\ tornReport' = tornReport
  BY DEF CheckStructure, CheckDocuments, CheckContents, CheckVerdict, Unparsed, history
<1>1. /\ Deficient' <=> Deficient
      /\ Documented' <=> Documented
      /\ Has(Own)' <=> Has(Own)
      /\ Has(Verdict)' <=> Has(Verdict)
      /\ Text(Own)' = Text(Own) /\ Text(Verdict)' = Text(Verdict)
      /\ Torn(Rows)' <=> Torn(Rows)
  BY <1>0, UnchangedSame, JudgedSame DEF Has, Text, Torn
<1>2. /\ Has(Rows)
      /\ Has(Own) => Text(Own) \in {"clean", "faulty", "torn"}
  BY DEF PacketInv
<1>3. SUFFICES SampleInv'
  BY <1>0 DEF ReportInv, ReportMeans
<1>4. CASE CheckStructure
  <2>1. pc = "structure" /\ pc' = "documents" /\ tornReport = Torn(Report)
    BY <1>0, <1>4 DEF CheckStructure, ReportInv, SampleInv
  <2>2. problems' # {} => ~Has(Own) \/ \E m \in JsonMember : Torn(m)
    BY <1>2, <1>4 DEF CheckStructure, Found, RequiredDocs, RequiredArtifacts
  <2>3. problems' = {} => Has(Own)
    BY <1>4 DEF CheckStructure, Found, RequiredDocs
  <2>4. Torn(Own) \/ Torn(Verdict) \/ ~Has(Own) => Deficient
    BY DEF Torn, Deficient
  <2>5. problems' # {} => Deficient \/ tornReport \/ Torn(Rows)
    BY <2>1, <2>2, <2>4 DEF JsonMember
  <2> QED
    BY <1>0, <1>1, <2>1, <2>3, <2>5 DEF SampleInv, ValidatePc
<1>5. CASE CheckDocuments
  <2>1. /\ pc = "documents" /\ pc' = "contents" /\ ~Torn(Rows)
        /\ problems' = problems
                       \cup Found("missing", \E f \in DOMAIN RowsRead : ~Has(f))
                       \cup Found("stubs", \E f \in DOMAIN RowsRead : Has(f) /\ Text(f) = "stub")
    BY <1>0, <1>5 DEF CheckDocuments, Unparsed
  <2>2. problems' # {} => Deficient \/ tornReport
    BY <1>0, <2>1 DEF ReportInv, SampleInv, Found, Deficient
  <2>3. problems' = {} => problems = {} /\ Documented
    BY <2>1 DEF Found, Documented
  <2>4. problems' = {} => Has(Own)
    BY <1>0, <2>1, <2>3 DEF ReportInv, SampleInv
  <2> QED
    BY <1>0, <1>1, <2>1, <2>2, <2>3, <2>4 DEF SampleInv, ValidatePc
<1>6. CASE CheckContents
  <2>1. /\ pc = "contents" /\ pc' = "verdict" /\ ~Torn(Own)
        /\ problems' = problems \cup Found("contents", Has(Own) => Text(Own) = "faulty")
    BY <1>0, <1>6 DEF CheckContents, Unparsed
  <2>2. problems' # {} => Deficient \/ tornReport
    BY <1>0, <2>1 DEF ReportInv, SampleInv, Found, Deficient
  <2>3. problems' = {} => problems = {} /\ Has(Own) /\ Text(Own) = "clean"
    BY <1>2, <2>1 DEF Found, Torn
  <2>4. problems = {} => Documented
    BY <1>0, <2>1 DEF ReportInv, SampleInv, ValidatePc
  <2> QED
    BY <1>0, <1>1, <2>1, <2>2, <2>3, <2>4 DEF SampleInv, ValidatePc
<1>7. CASE CheckVerdict
  <2>1. /\ pc = "verdict" /\ pc' = "report"
        /\ problems' = problems \cup Found("integrity", Has(Verdict) => Text(Verdict) # "PASS")
    BY <1>0, <1>7 DEF CheckVerdict, Unparsed
  <2>2. problems' # {} => Deficient \/ tornReport
    BY <1>0, <2>1 DEF ReportInv, SampleInv, Found, Deficient
  <2>3. problems' = {} => problems = {} /\ Has(Verdict) /\ Text(Verdict) = "PASS"
    BY <2>1 DEF Found
  <2>4. problems = {} => Documented /\ Has(Own) /\ Text(Own) = "clean"
    BY <1>0, <2>1 DEF ReportInv, SampleInv, ValidatePc
  <2> QED
    BY <1>0, <1>1, <2>1, <2>2, <2>3, <2>4 DEF SampleInv, ValidatePc
<1> QED
  BY <1>4, <1>5, <1>6, <1>7

LEMMA ReportInvariant ==
  ASSUME TypeOK, ControlInv, PacketInv, ReportInv, [Next]_vars
  PROVE  ReportInv'
<1>0. fresh \in {"no", "sampling", "yes"} /\ Manifest # Report /\ Report \notin Judged
  BY Names DEF TypeOK, Judged
<1>1. CASE UNCHANGED vars
  <2>1. /\ packet' = packet /\ pc' = pc /\ problems' = problems
        /\ fresh' = fresh /\ tornReport' = tornReport
    BY <1>1 DEF vars, packetVars, history
  <2>2. SampleInv'
    BY <2>1 DEF ReportInv, SampleInv, Torn, Deficient, Documented, RowsRead, Has, Text
  <2> QED
    BY <2>1, <2>2 DEF ReportInv, ReportMeans, Deficient, RowsRead, Has, Text
<1>2. CASE AgentEdit \/ Inventory \/ \E f \in Doc : OpenDoc(f) \/ WriteDoc(f)
  BY <1>2, ReportStays DEF AgentEdit, Inventory, OpenDoc, WriteDoc, Stale
<1>3. CASE RepoChange /\ Edit
  <2>1. packet' = packet /\ UNCHANGED <<pc, fresh, tornReport>> /\ pc = "idle"
    BY <1>3 DEF RepoChange, Edit, history
  <2> QED
    BY <2>1, ReportOutside, UnchangedSame DEF ValidatePc
<1>4. CASE Verify
  <2>1. UNCHANGED <<pc, tornReport>> /\ pc = "idle"
    BY <1>4 DEF Verify, Command, history
  <2>2. CASE fresh' = "no"
    BY <2>2, ReportStays
  <2>3. CASE packet' = packet /\ fresh' = fresh
    BY <2>1, <2>3, ReportOutside, UnchangedSame DEF ValidatePc
  <2> QED
    BY <1>4, <2>2, <2>3, VerifyPuts
<1>5. CASE StartDocstub \/ EndDocstub
  <2>1. /\ packet' = packet /\ UNCHANGED <<fresh, tornReport>>
        /\ pc \notin ValidatePc /\ pc' \notin ValidatePc
    BY <1>5 DEF StartDocstub, EndDocstub, End, Command, ValidatePc, history
  <2> QED
    BY <2>1, ReportOutside, UnchangedSame
<1>6. CASE KillPacket
  <2>1. /\ packet' = packet /\ tornReport' = tornReport /\ pc' = "idle"
        /\ fresh' = IF fresh = "sampling" THEN "no" ELSE fresh
    BY <1>6 DEF KillPacket, End
  <2> QED
    BY <1>0, <2>1, ReportStays, UnchangedSame DEF ValidatePc
<1>7. CASE StartValidate
  <2>1. /\ packet' = packet /\ pc' = "structure" /\ fresh' = "sampling"
        /\ tornReport' = Torn(Report)
    BY <1>7 DEF StartValidate
  <2>2. Torn(Report)' = Torn(Report)
    BY <2>1 DEF Torn, Has, Text
  <2> QED
    BY <2>1, <2>2 DEF ReportInv, SampleInv, ReportMeans, ValidatePc
<1>8. CASE CheckStructure \/ CheckDocuments \/ CheckContents \/ CheckVerdict
  <2>1. fresh' \in {"no", "sampling"}
    BY <1>0, <1>8 DEF CheckStructure, CheckDocuments, CheckContents, CheckVerdict, Unparsed,
                      ReportInv, ValidatePc
  <2> QED
    BY <1>8, <2>1, ReportStays, SampleGoesOn
<1>9. CASE OpenReport
  <2>1. /\ Put(Report, "torn", None) /\ pc = "report" /\ pc' = "reportWrite"
        /\ UNCHANGED <<problems, fresh, tornReport>>
    BY <1>9 DEF OpenReport, history
  <2>2. \A m \in Judged : Same(m)
    BY <1>0, <2>1, PutSame
  <2>3. fresh \in {"no", "sampling"}
    BY <1>0, <2>1 DEF ReportInv, ValidatePc
  <2>4. CASE fresh = "no"
    BY <2>1, <2>4, ReportStays
  <2>5. CASE fresh = "sampling"
    <3>1. /\ problems # {} => Deficient \/ tornReport
          /\ problems = {} => /\ Has(Own) /\ Documented /\ Text(Own) = "clean"
                              /\ Has(Verdict) /\ Text(Verdict) = "PASS"
      BY <2>1, <2>5 DEF ReportInv, SampleInv, ValidatePc
    <3>2. /\ problems' # {} => Deficient' \/ tornReport'
          /\ problems' = {} => /\ Has(Own)' /\ Documented' /\ Text(Own)' = "clean"
                               /\ Has(Verdict)' /\ Text(Verdict)' = "PASS"
      BY <2>1, <2>2, <3>1, JudgedSame DEF Has, Text
    <3> QED
      BY <2>1, <2>5, <3>2 DEF ReportInv, SampleInv, ReportMeans, ValidatePc
  <2> QED
    BY <2>3, <2>4, <2>5
<1>10. CASE WriteReport
  <2> DEFINE text == IF problems = {} THEN "PASS" ELSE "FAIL"
  <2>1. /\ Put(Report, text, None) /\ pc = "reportWrite" /\ pc' = "idle"
        /\ fresh' = (IF fresh = "sampling" THEN "yes" ELSE "no") /\ tornReport' = tornReport
    BY <1>10 DEF WriteReport, End, history
  <2>2. CASE fresh # "sampling"
    BY <2>1, <2>2, ReportStays
  <2>3. CASE fresh = "sampling"
    <3>1. /\ problems # {} => Deficient \/ tornReport
          /\ problems = {} => /\ Has(Own) /\ Documented /\ Text(Own) = "clean"
                              /\ Has(Verdict) /\ Text(Verdict) = "PASS"
      BY <2>1, <2>3 DEF ReportInv, SampleInv, ValidatePc
    <3>2. problems = {} => ~Deficient
      BY <3>1 DEF Deficient, Documented, PacketInv
    <3>3. Deficient' <=> Deficient
      BY <1>0, <2>1, PutSame, JudgedSame
    <3>4. Report \in DOMAIN packet' /\ packet'[Report].text = text
      BY <2>1, PutFacts
    <3> QED
      BY <2>1, <2>3, <3>1, <3>2, <3>3, <3>4
      DEF ReportInv, SampleInv, ReportMeans, ValidatePc, Has, Text
  <2> QED
    BY <2>2, <2>3
<1>11. CASE BuildManifest
  <2>1. \A m : m # Manifest => Same(m)
    BY <1>11, WritingManifestSame, UnchangedSame, LookingKeeps
    DEF BuildManifest, WritingManifest, Looking
  <2>2. /\ UNCHANGED <<fresh, tornReport>>
        /\ pc \notin ValidatePc /\ pc' \notin ValidatePc
    BY <1>11 DEF BuildManifest, StartManifest, OpenManifest, WriteManifest, KilledInManifest,
                 VerifyManifest, HashMember, Finish, End, Command, ValidatePc, history
  <2> QED
    BY <2>1, <2>2, ReportOutside
<1>12. CASE BuildZip \/ KillPackaging
  <2>1. packet' = packet
    BY <1>12, LookingKeeps DEF BuildZip, Looking
  <2>2. /\ UNCHANGED <<fresh, tornReport>>
        /\ pc \notin ValidatePc /\ pc' \notin ValidatePc
    BY <1>12 DEF BuildZip, StartSkip, ListMembers, CloseArchive, FinishPackage, AddMember,
                 KillPackaging, Finish, End, Command, ValidatePc, history
  <2> QED
    BY <2>1, <2>2, ReportOutside, UnchangedSame
<1> QED
  BY <1>1, <1>2, <1>3, <1>4, <1>5, <1>6, <1>7, <1>8, <1>9, <1>10, <1>11, <1>12
  DEF Next, Edit, PacketStep, Docstub, Validate
-----------------------------------------------------------------------------
(* What the manifest lists                                                  *)

\* The manifest does not list itself: writing it leaves what is due.
LEMMA DueStays ==
  ASSUME packet' = packet \/ WritingManifest
  PROVE  /\ Covered(packet') = Covered(packet) /\ Due' = Due
         /\ \A S \in SUBSET Covered(packet) : Restrict(packet', S) = Restrict(packet, S)
<1>1. CASE packet' = packet
  BY <1>1 DEF Due
<1>2. CASE WritingManifest
  <2>1. \A m : m # Manifest => Same(m)
    BY <1>2, WritingManifestSame
  <2>2. Covered(packet') = Covered(packet)
    BY <2>1 DEF Covered, Same
  <2>3. \A m \in Covered(packet) : packet'[m] = packet[m]
    BY <2>1 DEF Covered, Same
  <2>4. ASSUME NEW S \in SUBSET Covered(packet) PROVE Restrict(packet', S) = Restrict(packet, S)
    BY <2>3, <2>4 DEF Restrict
  <2>5. Due' = Due
    BY <2>2, <2>4 DEF Due
  <2> QED
    BY <2>2, <2>4, <2>5
<1> QED
  BY <1>1, <1>2

ManifestPc == {"hash", "manifestWrite", "verifyManifest"}

\* The steps of others, and those that end the command.
LEMMA ManifestStays ==
  ASSUME ManifestInv, Same(Manifest),
         covers' = "no" \/ (covers' = covers /\ packet' = packet),
         pc' \notin ManifestPc \/ UNCHANGED <<pc, todo, mem>>
  PROVE  ManifestInv'
<1>1. CASE pc' \notin ManifestPc
  <2>1. covers' = "yes" => packet' = packet /\ Due' = Due /\ covers = "yes"
    BY DueStays
  <2> QED
    BY <1>1, <2>1 DEF ManifestInv, ManifestPc, Has
<1>2. CASE UNCHANGED <<pc, todo, mem>>
  <2>1. covers' # "no" =>
          packet' = packet /\ Due' = Due /\ covers' = covers /\ Covered(packet') = Covered(packet)
    BY DueStays
  <2>2. pc' = "verifyManifest" =>
          /\ Manifest \in DOMAIN packet' /\ packet'[Manifest].text = "lines"
          /\ packet'[Manifest].of = Restrict(packet'[Manifest].of, DOMAIN packet'[Manifest].of)
    BY <1>2 DEF ManifestInv, Same, Has
  <2>3. pc' \in {"hash", "manifestWrite"} => covers' # "yes" /\ mem' = Restrict(mem', DOMAIN mem')
    BY <1>2 DEF ManifestInv
  <2>4. pc' \in {"hash", "manifestWrite"} /\ covers' = "building" =>
          /\ todo' \subseteq Covered(packet')
          /\ mem' = Restrict(packet', Covered(packet') \ todo')
    BY <1>2, <2>1 DEF ManifestInv
  <2>5. pc' = "manifestWrite" => todo' = {}
    BY <1>2 DEF ManifestInv
  <2>6. covers' = "yes" =>
          Manifest \in DOMAIN packet' /\ packet'[Manifest] = [text |-> "lines", of |-> Due']
    BY <2>1 DEF ManifestInv, Has
  <2> QED
    BY <2>2, <2>3, <2>4, <2>5, <2>6 DEF ManifestInv, Has
<1> QED
  BY <1>1, <1>2

LEMMA HashKeepsManifest ==
  ASSUME ManifestInv, NEW m \in Member, HashMember(m), Has(m)
  PROVE  ManifestInv'
<1>1. /\ pc = "hash" /\ pc' = "hash" /\ m \in todo /\ todo' = todo \ {m}
      /\ mem' = With(mem, m, packet[m]) /\ packet' = packet /\ covers' = covers
  BY DEF HashMember, IsNext
<1>2. mem' = Restrict(mem', DOMAIN mem')
  BY <1>1 DEF With, Restrict
<1>3. ASSUME covers = "building"
      PROVE  /\ todo' \subseteq Covered(packet')
             /\ mem' = Restrict(packet', Covered(packet') \ todo')
  <2>1. todo \subseteq Covered(packet) /\ mem = Restrict(packet, Covered(packet) \ todo)
    BY <1>1, <1>3 DEF ManifestInv
  <2> DEFINE S == Covered(packet) \ todo
  <2>2. S \cup {m} = Covered(packet) \ todo'
    BY <1>1, <2>1
  <2>3. mem = Restrict(packet, S)
    BY <2>1
  <2> HIDE DEF S
  <2>4. mem' = Restrict(packet, S \cup {m})
    BY <1>1, <2>3, WithRestrict
  <2> QED
    BY <1>1, <2>1, <2>2, <2>4
<1> QED
  BY <1>1, <1>2, <1>3 DEF ManifestInv

LEMMA WriteKeepsManifest ==
  ASSUME ManifestInv, WriteManifest
  PROVE  ManifestInv'
<1>1. /\ pc = "manifestWrite" /\ pc' \in {"verifyManifest", "list"}
      /\ Put(Manifest, "lines", mem) /\ mem = Restrict(mem, DOMAIN mem)
      /\ covers' = IF covers = "building" THEN "yes" ELSE "no"
  BY DEF WriteManifest, ManifestInv
<1>2. /\ Manifest \in DOMAIN packet' /\ packet'[Manifest] = [text |-> "lines", of |-> mem]
      /\ packet'[Manifest].text = "lines" /\ packet'[Manifest].of = mem
  <2>1. Put(Manifest, "lines", mem)
    BY <1>1
  <2> QED
    BY ONLY <2>1, PutFacts
<1>3. covers' = "yes" => mem = Due'
  <2>1. covers = "building" => mem = Restrict(packet, Covered(packet) \ todo) /\ todo = {}
    BY <1>1 DEF ManifestInv
  <2>2. covers = "building" => mem = Due
    BY <2>1 DEF Due
  <2> QED
    BY <1>1, <2>2, DueStays DEF WritingManifest
<1> QED
  BY <1>1, <1>2, <1>3 DEF ManifestInv, Has

LEMMA VerifyKeepsManifest ==
  ASSUME PacketInv, ManifestInv, VerifyManifest
  PROVE  ManifestInv'
<1>1. pc = "verifyManifest" /\ pc' = "idle" /\ packet' = packet /\ Due' = Due
  BY DueStays DEF VerifyManifest, Finish, End
<1>2. CASE /\ Covered(packet) = DOMAIN packet[Manifest].of
           /\ \A m \in Covered(packet) : packet[m] = packet[Manifest].of[m]
  <2> DEFINE listed == packet[Manifest].of
  <2>1. /\ Has(Manifest) /\ packet[Manifest].text = "lines" /\ listed = Restrict(listed, DOMAIN listed)
    BY <1>1 DEF ManifestInv
  <2>2. packet[Manifest] = [text |-> "lines", of |-> listed]
    BY <2>1 DEF PacketInv, Has
  <2>3. Covered(packet) = DOMAIN listed /\ \A m \in Covered(packet) : packet[m] = listed[m]
    BY <1>2
  <2> HIDE DEF listed
  <2>4. listed = Due
    BY <2>1, <2>3 DEF Due, Restrict
  <2> QED
    BY <1>1, <2>1, <2>2, <2>4 DEF ManifestInv, Has
<1>3. CASE covers' = covers
  BY <1>1, <1>3 DEF ManifestInv, Has
<1> QED
  BY <1>2, <1>3 DEF VerifyManifest

LEMMA ManifestInvariant ==
  ASSUME TypeOK, ControlInv, PacketInv, PacketInv', ManifestInv, [Next]_vars
  PROVE  ManifestInv'
<1>1. CASE UNCHANGED vars
  BY <1>1, ManifestStays, UnchangedSame DEF vars, packetVars, zipVars
<1>2. CASE (Edit \/ PacketStep) /\ Track
  <2>1. Same(Manifest) /\ (covers' = "no" \/ (covers' = covers /\ packet' = packet))
    BY <1>2, ManifestSame, TrackFacts
  <2>2. CASE Edit
    BY <2>1, <2>2, ManifestStays DEF Edit
  <2>3. CASE PacketStep
    <3>1. pc' \notin ManifestPc
      BY <2>3 DEF PacketStep, Inventory, Verify, Docstub, Validate, KillPacket, Command,
                  StartDocstub, EndDocstub, OpenDoc, WriteDoc, StartValidate, CheckStructure,
                  CheckDocuments, CheckContents, CheckVerdict, OpenReport, WriteReport,
                  Unparsed, End, ManifestPc
    <3> QED
      BY <2>1, <3>1, ManifestStays
  <2> QED
    BY <1>2, <2>2, <2>3
<1>3. CASE StartManifest
  <2>1. /\ packet' = packet /\ mem = None /\ mem' = mem /\ covers' = "building"
        /\ pc' = "hash" /\ todo' = Covered(packet)
    BY <1>3 DEF StartManifest, Command, TypeOK
  <2>2. Covered(packet') \ todo' = {}
    BY <2>1
  <2> QED
    BY <2>1, <2>2, NoneFacts DEF ManifestInv
<1>4. ASSUME NEW m \in Member, HashMember(m) PROVE ManifestInv'
  <2>1. CASE Has(m)
    BY <1>4, <2>1, HashKeepsManifest
  <2>2. CASE ~Has(m)
    <3>1. packet' = packet /\ covers' = covers /\ pc' = "idle"
      BY <1>4, <2>2 DEF HashMember, Finish, End
    <3> QED
      BY <3>1, ManifestStays, UnchangedSame DEF ManifestPc
  <2> QED
    BY <2>1, <2>2
<1>5. CASE OpenManifest
  <2>1. /\ pc = "hash" /\ pc' = "manifestWrite" /\ todo = {} /\ UNCHANGED <<todo, mem, covers>>
    BY <1>5 DEF OpenManifest, zipVars
  <2>2. /\ Covered(packet') = Covered(packet)
        /\ \A S \in SUBSET Covered(packet) : Restrict(packet', S) = Restrict(packet, S)
    BY <1>5, DueStays DEF WritingManifest
  <2>3. covers = "building" => mem = Restrict(packet', Covered(packet') \ {})
    BY <2>1, <2>2 DEF ManifestInv
  <2> QED
    BY <2>1, <2>2, <2>3 DEF ManifestInv
<1>6. CASE WriteManifest
  BY <1>6, WriteKeepsManifest
<1>7. CASE KilledInManifest
  BY <1>7 DEF KilledInManifest, ManifestInv, Finish, End
<1>8. CASE VerifyManifest
  BY <1>8, VerifyKeepsManifest
<1>9. CASE BuildZip \/ KillPackaging
  <2>1. packet' = packet
    BY <1>9, LookingKeeps DEF BuildZip, Looking
  <2>2. covers' = covers /\ pc' \notin ManifestPc
    BY <1>9 DEF BuildZip, StartSkip, ListMembers, CloseArchive, FinishPackage, AddMember,
                KillPackaging, Finish, End, ManifestPc
  <2> QED
    BY <2>1, <2>2, ManifestStays, UnchangedSame
<1> QED
  BY <1>1, <1>2, <1>3, <1>4, <1>5, <1>6, <1>7, <1>8, <1>9 DEF Next, BuildManifest
-----------------------------------------------------------------------------
(* The archive                                                              *)

LEMMA ArchiveStays ==
  ASSUME ArchiveInv, archive' = [state |-> archive'.state, of |-> archive'.of],
         \/ pc' \notin {"zip", "reopen"}
         \/ UNCHANGED <<pc, todo>> /\ covers' # "yes" /\ fresh' # "yes"
  PROVE  ArchiveInv'
BY DEF ArchiveInv

LEMMA AddKeepsArchive ==
  ASSUME ArchiveInv, NEW m \in Member, AddMember(m), Has(m)
  PROVE  ArchiveInv'
<1>1. /\ pc = "zip" /\ pc' = "zip" /\ m \in todo /\ todo' = todo \ {m}
      /\ archive' = [state |-> "open", of |-> With(archive.of, m, packet[m])]
      /\ UNCHANGED <<packet, covers, fresh>>
  BY DEF AddMember, IsNext
<1>2. archive' = [state |-> archive'.state, of |-> archive'.of]
  BY <1>1
<1>3. ASSUME covers = "yes" \/ fresh = "yes"
      PROVE  /\ todo' \subseteq DOMAIN packet
             /\ archive'.of = Restrict(packet, DOMAIN packet \ todo')
  <2> DEFINE S == DOMAIN packet \ todo
  <2>1. todo \subseteq DOMAIN packet /\ archive.of = Restrict(packet, S)
    BY <1>1, <1>3 DEF ArchiveInv
  <2>2. S \cup {m} = DOMAIN packet \ todo'
    BY <1>1, <2>1
  <2>3. archive'.of = With(archive.of, m, packet[m])
    BY <1>1
  <2> HIDE DEF S
  <2>4. archive'.of = Restrict(packet, S \cup {m})
    BY <2>1, <2>3, WithRestrict
  <2> QED
    BY <1>1, <2>1, <2>2, <2>4
<1> QED
  BY <1>1, <1>2, <1>3 DEF ArchiveInv

LEMMA ArchiveInvariant ==
  ASSUME TypeOK, PacketInv, PacketInv', ArchiveInv, [Next]_vars
  PROVE  ArchiveInv'
<1>0. /\ archive = [state |-> archive.state, of |-> archive.of]
      /\ \A s : [archive EXCEPT !.state = s] =
                [state |-> [archive EXCEPT !.state = s].state, of |-> [archive EXCEPT !.state = s].of]
      /\ \A t : [archive EXCEPT !.of = t] =
                [state |-> [archive EXCEPT !.of = t].state, of |-> [archive EXCEPT !.of = t].of]
  <2>1. archive = [state |-> archive.state, of |-> archive.of]
    BY DEF ArchiveInv
  <2>2. ASSUME NEW s, NEW t, NEW a, a = [state |-> s, of |-> t]
        PROVE  /\ \A u : [a EXCEPT !.state = u] = [state |-> u, of |-> t]
               /\ \A u : [a EXCEPT !.of = u] = [state |-> s, of |-> u]
    BY <2>2
  <2>3. /\ \A u : [archive EXCEPT !.state = u] = [state |-> u, of |-> archive.of]
        /\ \A u : [archive EXCEPT !.of = u] = [state |-> archive.state, of |-> u]
    BY <2>1, <2>2
  <2> QED
    BY <2>1, <2>3
<1>1. CASE UNCHANGED vars
  BY <1>1 DEF ArchiveInv, vars, packetVars, zipVars
<1>2. CASE (Edit \/ PacketStep) /\ Track /\ UNCHANGED <<mode, archive, outcome>>
  <2>1. archive' = [state |-> archive'.state, of |-> archive'.of]
    BY <1>0, <1>2
  <2>2. CASE AgentEdit /\ Edit
    <3>1. covers' # "yes"
      <4>1. packet' # packet
        BY <2>2 DEF AgentEdit
      <4>2. covers' = "no" \/ packet' = packet
        BY <1>2, TrackFacts
      <4> QED
        BY <4>1, <4>2
    <3>2. fresh' = "no" /\ UNCHANGED <<pc, todo>>
      BY <2>2 DEF AgentEdit, Edit, Stale
    <3> QED
      BY <2>1, <3>1, <3>2, ArchiveStays
  <2>3. CASE (RepoChange /\ Edit) \/ PacketStep
    <3>1. pc' \notin {"zip", "reopen"}
      BY <2>3 DEF Edit, RepoChange, PacketStep, Inventory, Verify, Docstub, Validate, KillPacket,
                  Command, StartDocstub, EndDocstub, OpenDoc, WriteDoc, StartValidate,
                  CheckStructure, CheckDocuments, CheckContents, CheckVerdict, OpenReport,
                  WriteReport, Unparsed, End
    <3> QED
      BY <2>1, <3>1, ArchiveStays
  <2> QED
    BY <1>2, <2>2, <2>3 DEF Edit
<1>3. CASE BuildManifest \/ StartSkip \/ FinishPackage
  <2>1. archive' = archive /\ pc' \notin {"zip", "reopen"}
    BY <1>3 DEF BuildManifest, StartManifest, OpenManifest, WriteManifest, KilledInManifest,
                VerifyManifest, HashMember, StartSkip, FinishPackage, Finish, End, zipVars
  <2> QED
    BY <1>0, <2>1, ArchiveStays
<1>4. CASE ListMembers
  <2>1. CASE Finish /\ UNCHANGED archive
    <3>1. archive' = archive /\ pc' \notin {"zip", "reopen"}
      BY <2>1 DEF Finish, End
    <3> QED
      BY <1>0, <3>1, ArchiveStays
  <2>2. CASE todo' = DOMAIN packet /\ archive' = NoArchive /\ pc' = "zip"
    <3>1. packet' = packet /\ DOMAIN packet' \ todo' = {}
      BY <1>4, <2>2 DEF ListMembers
    <3>2. archive' = [state |-> "none", of |-> None] /\ archive'.of = None
      BY <2>2 DEF NoArchive
    <3>3. archive' = [state |-> archive'.state, of |-> archive'.of]
      BY <3>2
    <3>4. archive'.of = Restrict(packet', DOMAIN packet' \ todo')
      BY <3>1, <3>2, NoneFacts
    <3> QED
      BY <2>2, <3>1, <3>3, <3>4 DEF ArchiveInv
  <2> QED
    BY <1>4, <2>1, <2>2 DEF ListMembers
<1>5. ASSUME NEW m \in Member, AddMember(m) PROVE ArchiveInv'
  <2>1. CASE Has(m)
    BY <1>5, <2>1, AddKeepsArchive
  <2>2. CASE ~Has(m)
    <3>1. archive' = [archive EXCEPT !.state = "closed"] /\ pc' = "idle"
      BY <1>5, <2>2 DEF AddMember, Finish, End
    <3> QED
      BY <1>0, <3>1, ArchiveStays
  <2> QED
    BY <2>1, <2>2
<1>6. CASE CloseArchive
  <2>1. /\ pc = "zip" /\ todo = {} /\ UNCHANGED <<packet, todo, covers, fresh>>
        /\ archive' = [archive EXCEPT !.state = "closed"]
    BY <1>6 DEF CloseArchive
  <2>2. archive'.of = archive.of /\ archive' = [state |-> archive'.state, of |-> archive'.of]
    BY <1>0, <2>1
  <2> QED
    BY <2>1, <2>2 DEF ArchiveInv
<1>7. CASE KillPackaging
  <2>1. pc' = "idle"
    BY <1>7 DEF KillPackaging, Finish, End
  <2>2. archive' = archive \/ archive' = [archive EXCEPT !.of = None]
    BY <1>7 DEF KillPackaging
  <2> QED
    BY <1>0, <2>1, <2>2, ArchiveStays
<1> QED
  BY <1>1, <1>2, <1>3, <1>4, <1>5, <1>6, <1>7 DEF Next, BuildZip

\* The archive of a packet that did not change while it was built is the packet.
LEMMA ArchiveIsPacket ==
  ASSUME PacketInv, ArchiveInv, pc = "reopen", covers = "yes" \/ fresh = "yes"
  PROVE  archive.of = packet
<1>1. todo = {} /\ archive.of = Restrict(packet, DOMAIN packet \ todo)
  BY DEF ArchiveInv
<1>2. DOMAIN packet \ todo = DOMAIN packet
  BY <1>1
<1> QED
  BY <1>1, <1>2 DEF PacketInv

\* With a manifest that covers it, there is one such archive.
LEMMA ArchiveIsArchived ==
  ASSUME ControlInv, PacketInv, ManifestInv, ArchiveInv, pc = "reopen", covers = "yes"
  PROVE  archive = Archived
<1>1. Manifest \in DOMAIN packet /\ packet[Manifest] = [text |-> "lines", of |-> Due]
  BY DEF ManifestInv, Has
<1>2. Covered(packet) \cup {Manifest} = DOMAIN packet
  BY <1>1 DEF Covered
<1>3. With(Due, Manifest, packet[Manifest]) = Restrict(packet, DOMAIN packet)
  BY <1>2, WithRestrict DEF Due
<1>4. With(Due, Manifest, [text |-> "lines", of |-> Due]) = packet
  BY <1>1, <1>3 DEF PacketInv
<1>5. archive = [state |-> archive.state, of |-> archive.of] /\ archive.state = "closed"
  BY DEF ArchiveInv, ControlInv
<1>6. archive.of = packet
  BY ArchiveIsPacket
<1> QED
  BY <1>4, <1>5, <1>6 DEF Archived

LEMMA LastZipInvariant ==
  ASSUME TypeOK, ControlInv, PacketInv, PacketInv', ManifestInv, ArchiveInv, LastZipInv,
         [Next]_vars
  PROVE  LastZipInv'
<1>1. ASSUME lastZip' = NoArchive \/ (lastZip' = lastZip /\ Due' = Due) PROVE LastZipInv'
  BY <1>1 DEF LastZipInv, Archived, NoArchive
<1>2. CASE UNCHANGED vars
  BY <1>1, <1>2, DueStays DEF vars, packetVars, zipVars
<1>3. CASE (Edit \/ PacketStep) /\ Track
  BY <1>1, <1>3, TrackFacts, DueStays
<1>4. CASE BuildManifest
  <2>1. packet' = packet \/ WritingManifest
    BY <1>4, LookingKeeps DEF BuildManifest, WritingManifest, Looking
  <2>2. lastZip' = lastZip
    BY <1>4 DEF BuildManifest, StartManifest, OpenManifest, WriteManifest, KilledInManifest,
                VerifyManifest, HashMember, zipVars
  <2> QED
    BY <1>1, <2>1, <2>2, DueStays
<1>5. CASE BuildZip \/ KillPackaging
  <2>1. packet' = packet
    BY <1>5, LookingKeeps DEF BuildZip, Looking
  <2>2. CASE lastZip' = lastZip
    BY <1>1, <2>1, <2>2, DueStays
  <2>3. CASE FinishPackage /\ covers = "yes" /\ lastZip' = archive
    <3>1. archive = Archived
      BY <2>3, ArchiveIsArchived DEF FinishPackage
    <3>2. Archived' = Archived
      BY <2>1, DueStays DEF Archived
    <3> QED
      BY <2>3, <3>1, <3>2 DEF LastZipInv
  <2> QED
    BY <1>5, <2>2, <2>3 DEF BuildZip, StartSkip, ListMembers, CloseArchive, FinishPackage,
                            AddMember, KillPackaging
<1> QED
  BY <1>2, <1>3, <1>4, <1>5 DEF Next
-----------------------------------------------------------------------------
(* What was shipped                                                         *)

\* What package printed last stays true of the archive until it runs again.
LEMMA OutcomeStays ==
  ASSUME TypeOK, ControlInv, ArchiveInv, [Next]_vars
  PROVE  \/ FinishPackage \/ outcome'.status = "none"
         \/ /\ outcome' = outcome /\ archive' = archive
            /\ stubKilled => stubKilled'
            /\ rebased => rebased'
<1> DEFINE goal == \/ outcome'.status = "none"
                   \/ /\ outcome' = outcome /\ archive' = archive
                      /\ stubKilled => stubKilled'
                      /\ rebased => rebased'
<1>1. CASE UNCHANGED vars
  BY <1>1 DEF vars, packetVars, zipVars, history
<1>2. CASE (Edit \/ PacketStep) /\ UNCHANGED <<mode, archive, outcome>>
  <2>1. CASE UNCHANGED <<stubKilled, rebased>>
    BY <1>2, <2>1
  <2>2. CASE Inventory
    <3>1. stubKilled' = stubKilled /\ rebased' = (rebased \/ \E m \in Doc \cup {Verdict} : Has(m))
      BY <2>2 DEF Inventory
    <3>2. (stubKilled => stubKilled') /\ (rebased => rebased')
      BY <3>1, Zenon
    <3> QED
      BY <1>2, <3>2
  <2>3. CASE KillPacket
    <3>1. stubKilled' = (stubKilled \/ pc = "docstubWrite") /\ rebased' = rebased
      BY <2>3 DEF KillPacket
    <3>2. (stubKilled => stubKilled') /\ (rebased => rebased')
      BY <3>1, Zenon
    <3> QED
      BY <1>2, <3>2
  <2> QED
    BY <1>2, <2>1, <2>2, <2>3
    DEF Edit, PacketStep, Docstub, Validate, Verify, StartDocstub, EndDocstub, OpenDoc, WriteDoc,
        StartValidate, CheckStructure, CheckDocuments, CheckContents, CheckVerdict, Unparsed,
        OpenReport, WriteReport, history
<1>3. CASE BuildManifest
  <2>1. archive' = archive /\ UNCHANGED <<stubKilled, rebased>>
    BY <1>3 DEF BuildManifest, StartManifest, OpenManifest, WriteManifest, KilledInManifest,
                VerifyManifest, HashMember, history, zipVars
  <2>2. outcome' = outcome \/ outcome' = NoOutcome
    BY <1>3 DEF BuildManifest, StartManifest, OpenManifest, WriteManifest, KilledInManifest,
                VerifyManifest, HashMember, zipVars
  <2> QED
    BY <2>1, <2>2 DEF NoOutcome
<1>4. CASE StartSkip
  BY <1>4 DEF StartSkip, NoOutcome
<1>5. CASE ListMembers \/ CloseArchive \/ \E m \in Member : AddMember(m)
  <2>1. pc \in ZipPc /\ outcome' = outcome
    BY <1>5 DEF ListMembers, CloseArchive, AddMember, ZipPc
  <2> QED
    BY <2>1 DEF ControlInv
<1>6. CASE KillPackaging
  <2>1. UNCHANGED <<outcome, stubKilled, rebased>> /\ (archive' = archive \/ archive.state = "open")
    BY <1>6 DEF KillPackaging, Killed, history
  <2> QED
    BY <2>1 DEF ControlInv
<1> QED
  BY <1>1, <1>2, <1>3, <1>4, <1>5, <1>6 DEF Next, BuildZip

LEMMA FinishOutcome ==
  ASSUME FinishPackage, outcome'.status = "PASS"
  PROVE  /\ pc = "reopen" /\ archive' = archive /\ ArchiveVerified(archive.of)
         /\ outcome'.validation = IF Has(Report) THEN Text(Report) ELSE "not-run"
         /\ outcome'.fresh <=> fresh = "yes"
         /\ outcome'.listed <=> covers = "yes"
         /\ UNCHANGED <<stubKilled, rebased>>
BY DEF FinishPackage, history

LEMMA ListedInvariant ==
  ASSUME TypeOK, ControlInv, PacketInv, ManifestInv, ArchiveInv, ShippedListed, [Next]_vars
  PROVE  ShippedListed'
<1>1. CASE FinishPackage
  <2>1. SUFFICES ASSUME outcome'.status = "PASS", outcome'.listed
                 PROVE  \A m \in DOMAIN archive'.of \ {Manifest} :
                          m \in DOMAIN Listed(archive'.of) /\ Listed(archive'.of)[m] = archive'.of[m]
    BY DEF ShippedListed
  <2>2. pc = "reopen" /\ covers = "yes" /\ archive' = archive
    BY <1>1, <2>1, FinishOutcome
  <2>3. archive'.of = packet
    BY <2>2, ArchiveIsPacket
  <2>4. Manifest \in DOMAIN packet /\ packet[Manifest] = [text |-> "lines", of |-> Due]
    BY <2>2 DEF ManifestInv, Has
  <2>5. Listed(packet) = Due
    BY <2>4 DEF Listed
  <2> QED
    BY <2>3, <2>5 DEF Due, Restrict, Covered
<1>2. CASE outcome'.status = "none"
  BY <1>2 DEF ShippedListed
<1>3. CASE outcome' = outcome /\ archive' = archive
  BY <1>3 DEF ShippedListed, Listed
<1> QED
  BY <1>1, <1>2, <1>3, OutcomeStays

LEMMA SoundInvariant ==
  ASSUME TypeOK, ControlInv, PacketInv, ReportInv, SourceInv, ArchiveInv, ShippedSound,
         [Next]_vars
  PROVE  ShippedSound'
<1>1. CASE FinishPackage
  <2>1. CASE ~Shipped'
    BY <2>1 DEF ShippedSound
  <2>2. CASE Shipped'
    <3>1. outcome'.status = "PASS" /\ outcome'.validation = "PASS" /\ outcome'.fresh
      BY <2>2 DEF Shipped
    <3>2. /\ pc = "reopen" /\ archive' = archive /\ fresh = "yes"
          /\ Has(Report) /\ Text(Report) = "PASS" /\ UNCHANGED <<stubKilled, rebased>>
      BY <1>1, <3>1, FinishOutcome
    <3>3. archive'.of = packet
      BY <3>2, ArchiveIsPacket
    <3>4. ~Deficient
      BY <3>2 DEF ReportInv, ReportMeans
    <3> DEFINE rows == packet[Rows].of
    <3>5. /\ Has(Rows) /\ RowsRead = rows /\ DOMAIN rows \subseteq Doc
          /\ packet[Own].text = "clean" /\ packet[Report].text = "PASS"
          /\ Has(Verdict) /\ packet[Verdict].text = "PASS"
      BY <3>2, <3>4 DEF Deficient, RowsRead, PacketInv, Has, Text
    <3>6. ASSUME NEW f \in DOMAIN rows
          PROVE  /\ f \in DOMAIN packet
                 /\ packet[f].text = "full" \/ (packet[f].text = "empty" /\ stubKilled)
                 /\ packet[f].text = "full" /\ ~rebased => packet[f].of = rows[f]
      <4>1. f \in Doc /\ f \in DOMAIN packet /\ packet[f].text # "stub"
        BY <3>4, <3>5 DEF Deficient, Has, Text
      <4>2. packet[f].text \in {"empty", "full"}
        BY <4>1 DEF PacketInv, Has, Text
      <4>3. packet[f].text = "empty" => stubKilled
        BY <3>2, <4>1 DEF SourceInv, Has, Text
      <4>4. packet[f].text = "full" /\ ~rebased => packet[f].of = rows[f]
        BY <4>1 DEF SourceInv, Has, Text
      <4> QED
        BY <4>1, <4>2, <4>3, <4>4
    <3>7. ~rebased => packet[Verdict].of = rows
      BY <3>5 DEF SourceInv
    <3> QED
      BY <3>2, <3>3, <3>5, <3>6, <3>7 DEF ShippedSound
  <2> QED
    BY <2>1, <2>2
<1>2. CASE outcome'.status = "none"
  BY <1>2 DEF ShippedSound, Shipped
<1>3. CASE /\ outcome' = outcome /\ archive' = archive
           /\ stubKilled => stubKilled'
           /\ rebased => rebased'
  BY <1>3 DEF ShippedSound, Shipped
<1> QED
  BY <1>1, <1>2, <1>3, OutcomeStays
-----------------------------------------------------------------------------
LEMMA InitInv == Init => IInv
<1> SUFFICES ASSUME Init PROVE IInv
  OBVIOUS
<1>1. /\ repo \in [Doc -> Version] /\ pc = "idle" /\ todo = {} /\ mem = None /\ problems = {}
      /\ edits = 0 /\ changes = 0 /\ kills = 0 /\ commands = 0
      /\ fresh = "no" /\ stubKilled = FALSE /\ rebased = FALSE
      /\ mode = "none" /\ archive = NoArchive /\ outcome = NoOutcome
      /\ covers = "no" /\ lastZip = NoArchive
      /\ packet = [m \in {Own, Rows} |-> IF m = Own THEN [text |-> "clean", of |-> None]
                                         ELSE [text |-> "rows", of |-> repo]]
  BY DEF Init, InitPacket
<1>2. /\ DOMAIN packet = {Own, Rows} /\ packet = Restrict(packet, DOMAIN packet)
      /\ packet[Own] = [text |-> "clean", of |-> None]
      /\ packet[Rows] = [text |-> "rows", of |-> repo]
  BY <1>1, Names DEF Restrict
<1>3. /\ packet[Own].text = "clean" /\ packet[Own].of = None
      /\ packet[Rows].text = "rows" /\ packet[Rows].of = repo /\ DOMAIN repo = Doc
  BY <1>1, <1>2
<1>4. /\ archive = [state |-> "none", of |-> None] /\ archive.state = "none"
      /\ archive.of = None /\ outcome.status = "none"
  BY <1>1 DEF NoArchive, NoOutcome
<1>5. TypeOK
  BY <1>1, <1>2, <1>4, NoneFacts, Members, BoundsAssumption DEF TypeOK
<1>6. ControlInv
  BY <1>1, <1>4 DEF ControlInv, DocstubPc, ValidatePc, ZipPc
<1>7. PacketInv
  BY <1>2, <1>3, Names DEF PacketInv, Has, Text
<1>8. ReportInv
  BY <1>1 DEF ReportInv, SampleInv, ReportMeans, ValidatePc
<1>9. SourceInv
  BY <1>1, <1>2, Names DEF SourceInv, DocstubPc, Has
<1>10. ManifestInv /\ LastZipInv
  BY <1>1 DEF ManifestInv, LastZipInv
<1>11. ArchiveInv
  BY <1>1, <1>4 DEF ArchiveInv
<1>12. ShippedSound /\ ShippedListed
  BY <1>4 DEF ShippedSound, ShippedListed, Shipped
<1> QED
  BY <1>5, <1>6, <1>7, <1>8, <1>9, <1>10, <1>11, <1>12 DEF IInv

LEMMA StepInv == IInv /\ [Next]_vars => IInv'
<1> SUFFICES ASSUME IInv, [Next]_vars PROVE IInv'
  OBVIOUS
<1>0. /\ TypeOK /\ ControlInv /\ PacketInv /\ ReportInv /\ SourceInv
      /\ ManifestInv /\ ArchiveInv /\ LastZipInv /\ ShippedSound /\ ShippedListed
  BY DEF IInv
<1>1. PacketInv'
  BY <1>0, PacketInvariant
<1>2. TypeOK' /\ ControlInv'
  BY <1>0, TypeInvariant, ControlInvariant
<1>3. ReportInv' /\ SourceInv'
  BY <1>0, ReportInvariant, SourceInvariant
<1>4. ManifestInv'
  BY <1>0, <1>1, ManifestInvariant
<1>5. ArchiveInv' /\ LastZipInv'
  BY <1>0, <1>1, ArchiveInvariant, LastZipInvariant
<1>6. ShippedSound' /\ ShippedListed'
  BY <1>0, SoundInvariant, ListedInvariant
<1> QED
  BY <1>1, <1>2, <1>3, <1>4, <1>5, <1>6 DEF IInv

LEMMA Invariant == Spec => []IInv
<1> QED
  BY InitInv, StepInv, PTL DEF Spec
-----------------------------------------------------------------------------
(* The theorems                                                             *)

\* Whatever is run, edited and killed in whatever order, every variable keeps its
\* range, and no command leaves files to do, hashes, problems or its mode behind.
THEOREM TypeCorrect == Spec => []TypeOK
<1>1. IInv => TypeOK
  BY DEF IInv
<1> QED
  BY <1>1, Invariant, PTL

\* validate: as long as nobody touches the packet, a report that says PASS was
\* written over a packet that lacks nothing, and one that says FAIL over one that
\* lacks something, unless the report of a killed validate could not be read.
THEOREM ReportTellsTheTruth == Spec => []ReportMeans
<1>1. IInv => ReportMeans
  BY DEF IInv, ReportInv
<1> QED
  BY <1>1, Invariant, PTL

\* package: an archive that passed, with a PASS of validate for its packet, holds a
\* complete document of every file of its baseline, about that baseline.
THEOREM ShippedIsSound == Spec => []ShippedSound
<1>1. IInv => ShippedSound
  BY DEF IInv
<1> QED
  BY <1>1, Invariant, PTL

\* build_manifest and build_zip: every member of the archive is listed in its
\* manifest with its bytes, if nothing else touched the packet since.
THEOREM ShippedIsListed == Spec => []ShippedListed
<1>1. IInv => ShippedListed
  BY DEF IInv
<1> QED
  BY <1>1, Invariant, PTL

\* build_zip: the archive is a function of the packet, whatever was killed before.
THEOREM SamePacketSameArchive == Spec => Repackaged
<1>1. ASSUME IInv
      PROVE  (pc = "reopen" /\ pc' = "idle" /\ outcome' # outcome /\ mode = "package"
              /\ covers = "yes" /\ lastZip # NoArchive) => archive = lastZip
  BY <1>1, ArchiveIsArchived DEF IInv, LastZipInv
<1>2. IInv =>
        [(pc = "reopen" /\ pc' = "idle" /\ outcome' # outcome /\ mode = "package"
          /\ covers = "yes" /\ lastZip # NoArchive) => archive = lastZip]_vars
  BY <1>1
<1> QED
  BY <1>2, Invariant, PTL DEF Repackaged
=============================================================================
