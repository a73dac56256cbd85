-------------------------- MODULE AlgorithmsProofs --------------------------
(***************************************************************************)
(* Theorems about the other algorithms: the document paths of              *)
(* safe_doc_path, for every set of paths, every escape and every set of    *)
(* reserved names; the roles and the origin of a file, for directories of  *)
(* any depth and any tables of names; the README lint, for documents of    *)
(* any length; the cascade of build_record, for any labels; what           *)
(* file_statuses makes of the output of git, for entries of any number;    *)
(* and the attributes of a path, for any files of attributes.              *)
(***************************************************************************)
EXTENDS LoopProofs

\* The paths of files, of any length and any characters.
Paths == Seq(Seq(STRING)) \ {<<>>}

\* A document without a digest has the name of its path: nothing was changed.
LEMMA PlainName ==
  ASSUME NEW path \in Paths, SafeDocPath(path).digest = <<>>
  PROVE  /\ ~Remapped(path)
         /\ Len(DocName(path)) = Len(path)
         /\ \A i \in 1 .. Len(path) :
              DocName(path)[i] = IF i = Len(path) THEN path[i] \o <<".", "md">> ELSE path[i]
<1>1. ~Remapped(path)
  BY DEF SafeDocPath, Paths
<1>2. \A i \in 1 .. Len(path) : Safe(path[i]) = path[i]
  BY <1>1 DEF Remapped, Paths
<1>3. Len(path) \in Nat
  BY DEF Paths
<1> QED
  BY <1>1, <1>2, <1>3 DEF DocName

\* Two sequences that are the same with ".md" after them are the same.
LEMMA SameBeforeSuffix ==
  ASSUME NEW s \in Seq(STRING), NEW t \in Seq(STRING),
         s \o <<".", "md">> = t \o <<".", "md">>
  PROVE  s = t
<1>1. Len(s) = Len(t)
  <2>1. Len(s \o <<".", "md">>) = Len(s) + 2 /\ Len(t \o <<".", "md">>) = Len(t) + 2
    OBVIOUS
  <2> QED
    BY <2>1
<1>2. \A i \in 1 .. Len(s) : s[i] = t[i]
  <2> TAKE i \in 1 .. Len(s)
  <2>1. s[i] = (s \o <<".", "md">>)[i] /\ t[i] = (t \o <<".", "md">>)[i]
    BY <1>1
  <2> QED
    BY <2>1
<1> QED
  BY <1>1, <1>2

\* Different paths have different documents: with a digest because it is that of
\* the path, without one because the name is.
THEOREM Injective ==
  ASSUME NEW p \in Paths, NEW q \in Paths, SafeDocPath(p) = SafeDocPath(q)
  PROVE  p = q
<1>1. SafeDocPath(p).digest = SafeDocPath(q).digest /\ DocName(p) = DocName(q)
  BY DEF SafeDocPath
<1>2. CASE Remapped(p)
  <2>1. SafeDocPath(p).digest = p /\ p # <<>>
    BY <1>2 DEF SafeDocPath, Paths
  <2>2. SafeDocPath(q).digest = q
    BY <1>1, <2>1 DEF SafeDocPath
  <2> QED
    BY <1>1, <2>1, <2>2
<1>3. CASE ~Remapped(p)
  <2>1. SafeDocPath(p).digest = <<>> /\ SafeDocPath(q).digest = <<>>
    BY <1>1, <1>3 DEF SafeDocPath
  <2>2. Len(p) = Len(q) /\ Len(p) \in Nat
    BY <1>1, <2>1, PlainName DEF Paths
  <2>3. \A i \in 1 .. Len(p) : p[i] = q[i]
    <3> TAKE i \in 1 .. Len(p)
    <3>1. p[i] \in Seq(STRING) /\ q[i] \in Seq(STRING)
      BY <2>2 DEF Paths
    <3>2. DocName(p)[i] = IF i = Len(p) THEN p[i] \o <<".", "md">> ELSE p[i]
      BY <2>1, PlainName
    <3>3. DocName(q)[i] = IF i = Len(p) THEN q[i] \o <<".", "md">> ELSE q[i]
      BY <2>1, <2>2, PlainName
    <3> QED
      BY <1>1, <3>1, <3>2, <3>3, SameBeforeSuffix
  <2>4. p \in Seq(Seq(STRING)) /\ q \in Seq(Seq(STRING))
    BY DEF Paths
  <2> QED
    BY <2>2, <2>3, <2>4, SeqEqual
<1> QED
  BY <1>2, <1>3

\* A document is in the way of another only if nothing of its path was changed
\* and the other path has, at its place, a directory of its name with ".md".
THEOREM InTheWayOnly ==
  ASSUME NEW p \in Paths, NEW q \in Paths, InTheWay(SafeDocPath(p), SafeDocPath(q))
  PROVE  /\ ~Remapped(p) /\ Len(p) < Len(q)
         /\ Safe(q[Len(p)]) = Last(p) \o <<".", "md">>
<1>1. /\ SafeDocPath(p).digest = <<>>
      /\ Len(DocName(p)) <= Len(DocName(q)) /\ DocName(p) # DocName(q)
      /\ SubSeq(DocName(p), 1, Len(DocName(p))) = SubSeq(DocName(q), 1, Len(DocName(p)))
  BY DEF InTheWay, SafeDocPath, IsStrictPrefix, IsPrefix
<1>2. /\ Len(p) \in Nat \ {0} /\ Len(q) \in Nat
      /\ Len(DocName(p)) = Len(p) /\ Len(DocName(q)) = Len(q)
  BY DEF Paths, DocName
<1>3. \A i \in 1 .. Len(p) : DocName(p)[i] = DocName(q)[i]
  <2> TAKE i \in 1 .. Len(p)
  <2>1. SubSeq(DocName(p), 1, Len(p))[i] = DocName(p)[i]
    BY <1>2
  <2>2. SubSeq(DocName(q), 1, Len(p))[i] = DocName(q)[i]
    BY <1>1, <1>2
  <2> QED
    BY <1>1, <1>2, <2>1, <2>2
<1>4. Len(p) < Len(q)
  <2> SUFFICES ASSUME Len(p) = Len(q) PROVE FALSE
    BY <1>1, <1>2
  <2>1. DocName(p) = DocName(q)
    BY <1>2, <1>3 DEF DocName
  <2> QED
    BY <1>1, <2>1
<1>5. DocName(q)[Len(p)] = Safe(q[Len(p)])
  <2>1. Len(p) \in 1 .. Len(q) /\ Len(p) # Len(q)
    BY <1>2, <1>4
  <2> QED
    BY <2>1 DEF DocName
<1>6. DocName(p)[Len(p)] = p[Len(p)] \o <<".", "md">> /\ ~Remapped(p)
  <2>1. Len(p) \in 1 .. Len(p)
    BY <1>2
  <2> QED
    BY <1>1, <2>1, PlainName
<1>7. DocName(p)[Len(p)] = DocName(q)[Len(p)]
  BY <1>2, <1>3
<1> QED
  BY <1>4, <1>5, <1>6, <1>7 DEF Last

\* In every run, whatever the paths of the repository, what DocsApart says.
THEOREM DocumentsApart == Spec => []DocsApart
<1> DEFINE Inv == about = "path" => input \in PathInputs
<1>1. Init => Inv
  BY DEF Init
<1>2. Inv /\ [Next]_<<about, input>> => Inv'
  <2> SUFFICES ASSUME Inv, [Next]_<<about, input>> PROVE Inv'
    OBVIOUS
  <2>1. CASE Next
    BY <2>1 DEF Next, Pick, PickTodos, PickSecrets, PickArchive, PickLink, PickReadme, PickPath,
                PickTree, PickText, PickStatus, PickAttributes, PickSignals, PickOrigin,
                PickRender, PickCounts
  <2>2. CASE UNCHANGED <<about, input>>
    BY <2>2
  <2> QED
    BY <2>1, <2>2
<1>3. Inv => DocsApart
  <2> SUFFICES ASSUME Inv, about = "path", NEW other \in PathInputs, other # input
               PROVE  LET doc == SafeDocPath(input)
                          its == SafeDocPath(other)
                      IN /\ doc # its
                         /\ InTheWay(doc, its) =>
                              /\ ~Remapped(input) /\ Len(input) < Len(other)
                              /\ Safe(other[Len(input)]) = Last(input) \o <<".", "md">>
    BY DEF DocsApart
  <2>1. input \in Paths /\ other \in Paths
    BY PathAssumption DEF Paths
  <2> QED
    BY <2>1, Injective, InTheWayOnly
<1> QED
  BY <1>1, <1>2, <1>3, PTL DEF Spec
-----------------------------------------------------------------------------
(* Roles and origins                                                        *)

\* What is said of the parts of a sequence of roles is said of the whole.
LEMMA Joined ==
  ASSUME NEW R, NEW s \in Seq(R), NEW t \in Seq(R)
  PROVE  /\ s \o t \in Seq(R)
         /\ ToSet(s \o t) = ToSet(s) \cup ToSet(t)
         /\ s # <<>> => s \o t # <<>> /\ Head(s \o t) = Head(s)
         /\ s = <<>> => s \o t = t
<1>1. /\ s \o t \in Seq(R) /\ Len(s \o t) = Len(s) + Len(t)
      /\ \A i \in 1 .. Len(s) + Len(t) :
           (s \o t)[i] = IF i <= Len(s) THEN s[i] ELSE t[i - Len(s)]
  BY ConcatProperties
<1>2. /\ Len(s) \in Nat /\ DOMAIN s = 1 .. Len(s)
      /\ Len(t) \in Nat /\ DOMAIN t = 1 .. Len(t)
      /\ DOMAIN (s \o t) = 1 .. Len(s) + Len(t)
  BY <1>1
<1>3. ToSet(s \o t) \subseteq ToSet(s) \cup ToSet(t)
  <2> SUFFICES ASSUME NEW i \in 1 .. Len(s) + Len(t)
               PROVE  (s \o t)[i] \in ToSet(s) \cup ToSet(t)
    BY <1>2 DEF ToSet
  <2>1. CASE i <= Len(s)
    BY <1>1, <1>2, <2>1 DEF ToSet
  <2>2. CASE ~(i <= Len(s))
    <3>1. i - Len(s) \in 1 .. Len(t)
      BY <1>2, <2>2
    <3> QED
      BY <1>1, <1>2, <2>2, <3>1 DEF ToSet
  <2> QED
    BY <2>1, <2>2
<1>4. ToSet(s) \subseteq ToSet(s \o t)
  <2> SUFFICES ASSUME NEW i \in 1 .. Len(s) PROVE s[i] \in ToSet(s \o t)
    BY <1>2 DEF ToSet
  <2>1. i \in 1 .. Len(s) + Len(t) /\ (s \o t)[i] = s[i]
    BY <1>1, <1>2
  <2> QED
    BY <1>2, <2>1 DEF ToSet
<1>5. ToSet(t) \subseteq ToSet(s \o t)
  <2> SUFFICES ASSUME NEW i \in 1 .. Len(t) PROVE t[i] \in ToSet(s \o t)
    BY <1>2 DEF ToSet
  <2>1. Len(s) + i \in 1 .. Len(s) + Len(t) /\ ~(Len(s) + i <= Len(s)) /\ (Len(s) + i) - Len(s) = i
    BY <1>2
  <2>2. (s \o t)[Len(s) + i] = t[i]
    BY <1>1, <2>1
  <2> QED
    BY <1>2, <2>1, <2>2 DEF ToSet
<1>6. s # <<>> => s \o t # <<>> /\ Head(s \o t) = Head(s)
  OBVIOUS
<1>7. s = <<>> => s \o t = t
  OBVIOUS
<1> QED
  BY <1>1, <1>3, <1>4, <1>5, <1>6, <1>7

\* A sequence of one role.
LEMMA OneRole ==
  ASSUME NEW R, NEW role \in R
  PROVE  /\ <<role>> \in Seq(R) /\ <<role>> # <<>>
         /\ Head(<<role>>) = role /\ ToSet(<<role>>) = {role}
<1>1. /\ <<role>> \in Seq(R) /\ <<role>> # <<>> /\ Head(<<role>>) = role
      /\ Len(<<role>>) = 1 /\ <<role>>[1] = role
  OBVIOUS
<1>2. DOMAIN <<role>> = {1}
  BY <1>1
<1> HIDE DEF ToSet
<1>3. ToSet(<<role>>) = {role}
  BY <1>1, <1>2 DEF ToSet
<1> QED
  BY <1>1, <1>3

\* A sequence of no role.
LEMMA NoRole == ToSet(<<>>) = {} /\ \A R : <<>> \in Seq(R)
<1>1. \A R : <<>> \in Seq(R)
  OBVIOUS
<1>2. DOMAIN <<>> = {}
  OBVIOUS
<1> QED
  BY <1>1, <1>2 DEF ToSet

\* The roles that a file can have.
RolesIn(file) ==
  PathRoles \cup {"vcs-metadata", "test", file.special} \cup ToSet(file.named)

\* The roles of a path are among the hints exactly if its directories say so; the
\* project's own files have none.
LEMMA RolesOfPath ==
  ASSUME NEW file, file.named \in Seq(ToSet(file.named)),
         ({file.special} \cup ToSet(file.named)) \cap PathRoles = {}
  PROVE  LET hints == RoleHints(file)
         IN /\ hints \in Seq(RolesIn(file)) /\ hints # <<>> /\ Head(hints) \in ToSet(hints)
            /\ "first-party-source" \notin ToSet(hints)
            /\ "vendored" \in ToSet(hints) <=> Under(file.segs, Vendors)
            /\ "cache-or-build-artifact" \in ToSet(hints) <=> Under(file.segs, Builds)
            /\ file.segs # <<>> /\ Head(file.segs) = "git" => Head(hints) = "vcs-metadata"
            /\ Head(hints) = "unknown" =>
                 /\ hints = <<"unknown">>
                 /\ ~(file.segs # <<>> /\ Head(file.segs) = "git")
<1> DEFINE R == RolesIn(file)
           git == file.segs # <<>> /\ Head(file.segs) = "git"
           h1 == IF git THEN <<"vcs-metadata">> ELSE <<>>
           h2 == IF Under(file.segs, {"vcs"}) THEN <<"vcs-metadata">> ELSE <<>>
           h3 == IF file.special # "" THEN <<file.special>> ELSE <<>>
           h4 == IF Under(file.segs, Vendors) THEN <<"vendored">> ELSE <<>>
           h5 == IF Under(file.segs, Builds) THEN <<"cache-or-build-artifact">> ELSE <<>>
           h6 == IF Under(file.segs, {"test"}) THEN <<"test">> ELSE <<>>
           h7 == file.named
           p2 == h1 \o h2
           p3 == p2 \o h3
           p4 == p3 \o h4
           p5 == p4 \o h5
           p6 == p5 \o h6
           p7 == p6 \o h7
<1>1. RoleHints(file) = IF p7 = <<>> THEN <<"unknown">> ELSE p7
  BY DEF RoleHints
<1>2. {"vcs-metadata", "test", "vendored", "cache-or-build-artifact", "unknown", file.special} \subseteq R
  BY DEF RolesIn, PathRoles
<1> HIDE DEF R
<1>3. /\ h1 \in Seq(R) /\ ToSet(h1) \subseteq {"vcs-metadata"}
      /\ git => h1 # <<>> /\ Head(h1) = "vcs-metadata"
  BY <1>2, OneRole, NoRole
<1>4. /\ h2 \in Seq(R) /\ ToSet(h2) \subseteq {"vcs-metadata"}
      /\ h3 \in Seq(R) /\ ToSet(h3) \cap PathRoles = {}
      /\ h6 \in Seq(R) /\ ToSet(h6) \subseteq {"test"}
  <2>2. h2 \in Seq(R) /\ ToSet(h2) \subseteq {"vcs-metadata"}
    BY <1>2, OneRole, NoRole
  <2>3. h3 \in Seq(R) /\ ToSet(h3) \subseteq {file.special}
    <3>1. file.special \in R
      BY <1>2
    <3>2. <<file.special>> \in Seq(R) /\ ToSet(<<file.special>>) = {file.special}
      BY <3>1, OneRole
    <3> QED
      BY <3>2, NoRole
  <2>4. h6 \in Seq(R) /\ ToSet(h6) \subseteq {"test"}
    BY <1>2, OneRole, NoRole
  <2> QED
    BY <2>2, <2>3, <2>4
<1>5. /\ h4 \in Seq(R) /\ ToSet(h4) = IF Under(file.segs, Vendors) THEN {"vendored"} ELSE {}
      /\ h5 \in Seq(R)
      /\ ToSet(h5) = IF Under(file.segs, Builds) THEN {"cache-or-build-artifact"} ELSE {}
  <2>1. /\ <<"vendored">> \in Seq(R) /\ ToSet(<<"vendored">>) = {"vendored"}
        /\ <<"cache-or-build-artifact">> \in Seq(R)
        /\ ToSet(<<"cache-or-build-artifact">>) = {"cache-or-build-artifact"}
    BY <1>2, OneRole
  <2> QED
    BY <2>1, NoRole
<1>6. h7 \in Seq(R) /\ ToSet(h7) \cap PathRoles = {}
  <2>1. ToSet(file.named) \subseteq R
    BY DEF R, RolesIn
  <2> DEFINE T == ToSet(file.named)
  <2> HIDE DEF T
  <2>2. h7 \in Seq(T) /\ T \subseteq R
    BY <2>1 DEF T
  <2>3. h7 \in Seq(R)
    BY <2>2
  <2> QED
    BY <2>3
<1> HIDE DEF git, h1, h2, h3, h4, h5, h6, h7, p2, p3, p4, p5, p6, p7
<1>7. /\ p2 \in Seq(R) /\ ToSet(p2) = ToSet(h1) \cup ToSet(h2)
      /\ git => p2 # <<>> /\ Head(p2) = "vcs-metadata"
  BY <1>3, <1>4, Joined DEF p2
<1>8. /\ p3 \in Seq(R) /\ ToSet(p3) = ToSet(p2) \cup ToSet(h3)
      /\ git => p3 # <<>> /\ Head(p3) = "vcs-metadata"
  BY <1>4, <1>7, Joined DEF p3
<1>9. /\ p4 \in Seq(R) /\ ToSet(p4) = ToSet(p3) \cup ToSet(h4)
      /\ git => p4 # <<>> /\ Head(p4) = "vcs-metadata"
  BY <1>5, <1>8, Joined DEF p4
<1>10. /\ p5 \in Seq(R) /\ ToSet(p5) = ToSet(p4) \cup ToSet(h5)
       /\ git => p5 # <<>> /\ Head(p5) = "vcs-metadata"
  BY <1>5, <1>9, Joined DEF p5
<1>11. /\ p6 \in Seq(R) /\ ToSet(p6) = ToSet(p5) \cup ToSet(h6)
       /\ git => p6 # <<>> /\ Head(p6) = "vcs-metadata"
  BY <1>4, <1>10, Joined DEF p6
<1>12. /\ p7 \in Seq(R) /\ ToSet(p7) = ToSet(p6) \cup ToSet(h7)
       /\ git => p7 # <<>> /\ Head(p7) = "vcs-metadata"
  BY <1>6, <1>11, Joined DEF p7
<1>13. /\ "unknown" \notin ToSet(p7) /\ "first-party-source" \notin ToSet(p7)
       /\ "vendored" \in ToSet(p7) <=> Under(file.segs, Vendors)
       /\ "cache-or-build-artifact" \in ToSet(p7) <=> Under(file.segs, Builds)
  BY <1>3, <1>4, <1>5, <1>6, <1>7, <1>8, <1>9, <1>10, <1>11, <1>12 DEF PathRoles
<1>14. CASE p7 = <<>>
  <2>1. /\ RoleHints(file) = <<"unknown">> /\ <<"unknown">> \in Seq(R)
        /\ ToSet(<<"unknown">>) = {"unknown"} /\ Head(<<"unknown">>) = "unknown"
    BY <1>1, <1>2, <1>14, OneRole
  <2>2. ToSet(p7) = {}
    BY <1>14, NoRole
  <2> QED
    BY <1>12, <1>13, <1>14, <2>1, <2>2 DEF git, R
<1>15. CASE p7 # <<>>
  <2>1. RoleHints(file) = p7
    BY <1>1, <1>15
  <2>2. Head(p7) \in ToSet(p7)
    BY <1>12, <1>15 DEF ToSet
  <2> QED
    BY <1>12, <1>13, <1>15, <2>1, <2>2 DEF git, R
<1> QED
  BY <1>14, <1>15

\* role_hints and origin_hints, and what build_record makes of them: for directories
\* of any depth, role and origin do not contradict each other.
LEMMA AgreeFor ==
  ASSUME NEW in \in OriginInputs
  PROVE  LET roles  == Roles(in.file, in.label)
             origin == Origin(in.file)
             Overruled == "set" \in {in.file.vendored, in.file.linguistGenerated}
             Has(role) == role \in ToSet(roles)
         IN /\ ~Overruled => /\ origin = "vcs-metadata" => Head(roles) = "vcs-metadata"
                             /\ origin = "vendored" => Has("vendored")
                             /\ Has("vendored") => origin \in {"vendored", "vcs-metadata"}
            /\ Head(roles) = "first-party-source" /\ origin # "first-party" =>
                 Overruled \/ (origin = "generated" /\ (in.file.generated \/ in.file.marked))
            /\ origin = "first-party" => ~Has("vendored") /\ ~Has("cache-or-build-artifact")
<1> DEFINE file == in.file
           hints == RoleHints(file)
           roles == Roles(file, in.label)
           R == RolesIn(file)
           git == file.segs # <<>> /\ Head(file.segs) = "git"
<1>1. /\ hints \in Seq(R) /\ hints # <<>> /\ Head(hints) \in ToSet(hints)
      /\ "first-party-source" \notin ToSet(hints)
      /\ "vendored" \in ToSet(hints) <=> Under(file.segs, Vendors)
      /\ "cache-or-build-artifact" \in ToSet(hints) <=> Under(file.segs, Builds)
      /\ git => Head(hints) = "vcs-metadata"
      /\ Head(hints) = "unknown" => hints = <<"unknown">> /\ ~git
  BY OriginAssumption, RolesOfPath
<1>2. \/ roles = hints
      \/ roles = <<"first-party-source">> \o hints /\ hints = <<"unknown">> /\ ~git
  BY <1>1 DEF Roles
<1>8. "first-party-source" \in R
  BY DEF RolesIn, PathRoles
<1> HIDE DEF hints, roles, git, R
<1>3. /\ roles = hints \/ (~git /\ hints = <<"unknown">> /\ Head(roles) = "first-party-source")
      /\ \A r \in {"vendored", "cache-or-build-artifact"} : r \in ToSet(roles) <=> r \in ToSet(hints)
  <2>1. CASE roles = hints
    BY <2>1
  <2>2. CASE roles = <<"first-party-source">> \o hints /\ hints = <<"unknown">> /\ ~git
    <3> DEFINE own == <<"first-party-source">>
    <3>1. /\ own \in Seq(R) /\ own # <<>>
          /\ ToSet(own) = {"first-party-source"} /\ Head(own) = "first-party-source"
      BY <1>8, OneRole
    <3>3. roles = own \o hints
      BY <2>2
    <3> HIDE DEF own
    <3>2. /\ Head(roles) = "first-party-source"
          /\ ToSet(roles) = {"first-party-source"} \cup ToSet(hints)
      BY <1>1, <3>1, <3>3, Joined
    <3> QED
      BY <2>2, <3>2
  <2> QED
    BY <1>2, <2>1, <2>2
<1>4. hints = <<"unknown">> => ~Under(file.segs, Vendors) /\ ~Under(file.segs, Builds)
  <2>1. ToSet(<<"unknown">>) = {"unknown"}
    BY OneRole
  <2> QED
    BY <1>1, <2>1
<1>5. OriginHints(file) = IF git THEN "vcs-metadata"
                          ELSE IF Under(file.segs, Vendors) THEN "vendored"
                          ELSE IF file.generated \/ file.marked \/ Under(file.segs, Builds)
                          THEN "generated" ELSE "first-party"
  BY DEF OriginHints, git
<1>6. Origin(file) = IF file.vendored = "set" THEN "vendored"
                     ELSE IF file.linguistGenerated = "set" THEN "generated"
                     ELSE OriginHints(file)
  BY DEF Origin
<1>7. roles = hints => Head(roles) # "first-party-source"
  BY <1>1
<1> QED
  BY <1>1, <1>3, <1>4, <1>5, <1>6, <1>7 DEF roles

\* In every run, whatever the paths, names and signals, what HintsAgree says.
THEOREM HintsAlwaysAgree == Spec => []HintsAgree
<1> DEFINE Inv == about = "origin" => input \in OriginInputs
<1>1. Init => Inv
  BY DEF Init
<1>2. Inv /\ [Next]_<<about, input>> => Inv'
  <2> SUFFICES ASSUME Inv, [Next]_<<about, input>> PROVE Inv'
    OBVIOUS
  <2>1. CASE Next
    BY <2>1 DEF Next, Pick, PickTodos, PickSecrets, PickArchive, PickLink, PickReadme, PickPath,
                PickTree, PickText, PickStatus, PickAttributes, PickSignals, PickOrigin,
                PickRender, PickCounts
  <2>2. CASE UNCHANGED <<about, input>>
    BY <2>2
  <2> QED
    BY <2>1, <2>2
<1>3. Inv => HintsAgree
  BY AgreeFor DEF HintsAgree
<1> QED
  BY <1>1, <1>2, <1>3, PTL DEF Spec
-----------------------------------------------------------------------------
(* ReadmeLint                                                              *)

LintTurn(c, state, line) == LintLine(state, line)
Lints == INSTANCE Loops WITH Op <- LintTurn

\* What the pass over the lines has after k of them.
State(lines, k) == Lints!Run(0, Outside, SubSeq(lines, 1, k))
Fence(lines, k) == State(lines, k).fence
Heads(lines, k) == State(lines, k).headings
Errors(lines, k) == State(lines, k).errors

\* lint goes over the lines in a loop.
LEMMA LintRuns ==
  ASSUME NEW lines
  PROVE  FoldLeft(LintLine, Outside, lines) = Lints!Run(0, Outside, lines)
BY DEF Lints!Run, LintTurn, FoldLeft, MapThenFoldSet, Max, Lints!Max

\* The titles with one more.
Added(titles, title) == Append(titles, title)

LintShape(state) ==
  /\ state = [fence |-> state.fence, headings |-> state.headings, errors |-> state.errors]
  /\ state.headings \in Seq(Range(state.headings))

\* A line whose forbidden characters are seen.
Unfit(line) == line.kind # "fence" /\ line.forbidden

\* The errors after a line.
ErrorsAdded(state, line, next) ==
  \A e : e \in next.errors <=>
           \/ e \in state.errors
           \/ e = "forbidden-unicode" /\ Unfit(line)
           \/ e = "heading" /\ line.kind = "heading" /\ state.fence = "none" /\ line.of \in BadTitles

\* What a line makes of each part of the state.
LEMMA LintParts ==
  ASSUME NEW state, LintShape(state), NEW line, NEW next, next = LintLine(state, line)
  PROVE  /\ LintShape(next)
         /\ line.kind = "fence" =>
              /\ state.fence = "none" => next.fence = line.of
              /\ state.fence # "none" /\ state.fence = line.of => next.fence = "none"
              /\ state.fence # "none" /\ state.fence # line.of => next.fence = state.fence
         /\ line.kind # "fence" => next.fence = state.fence
         /\ line.kind = "heading" /\ state.fence = "none" =>
              next.headings = Added(state.headings, line.of)
         /\ ~(line.kind = "heading" /\ state.fence = "none") => next.headings = state.headings
         /\ ErrorsAdded(state, line, next)
<1> DEFINE fence == state.fence
           headings == state.headings
           errors == state.errors
           new == IF fence = "none" THEN line.of ELSE IF fence = line.of THEN "none" ELSE fence
           more == Added(headings, line.of)
           titled == line.kind = "heading" /\ fence = "none"
           worse == errors \cup Wrong(line, titled)
<1>1. state = [fence |-> fence, headings |-> headings, errors |-> errors]
  BY DEF LintShape
<1>2. headings \in Seq(Range(headings)) /\ more \in Seq(Range(more))
  <2>1. headings \in Seq(Range(headings) \cup {line.of})
    BY DEF LintShape
  <2>2. Range(more) = Range(headings) \cup {line.of}
    <3> HIDE DEF headings
    <3> QED
      BY <2>1, RangeAppend DEF Added
  <2>3. more \in Seq(Range(headings) \cup {line.of})
    <3> HIDE DEF headings
    <3> QED
      BY <2>1 DEF Added
  <2> QED
    BY <2>2, <2>3 DEF LintShape
<1>3. /\ line.kind = "fence" => next = FenceLine(state, line.of)
      /\ line.kind # "fence" /\ titled => next = [state EXCEPT !.headings = more, !.errors = worse]
      /\ line.kind # "fence" /\ ~titled => next = [state EXCEPT !.errors = worse]
  <2> HIDE DEF worse, more, errors, headings
  <2>1. state.headings = headings /\ state.errors = errors /\ state.fence = fence
    BY DEF headings, errors
  <2>2. line.kind = "fence" => next = FenceLine(state, line.of)
    BY DEF LintLine
  <2>3. ASSUME line.kind # "fence"
        PROVE  next = [state EXCEPT !.headings = IF titled THEN more ELSE headings, !.errors = worse]
    BY <2>1, <2>3 DEF LintLine, Added, more, worse
  <2>4. ASSUME line.kind # "fence", ~titled PROVE next = [state EXCEPT !.errors = worse]
    BY <1>1, <2>1, <2>3, <2>4
  <2> QED
    BY <2>2, <2>3, <2>4
<1>4. FenceLine(state, line.of) = [state EXCEPT !.fence = new]
  <2> HIDE DEF headings, errors
  <2>1. CASE fence = "none"
    BY <2>1 DEF FenceLine
  <2>2. CASE fence # "none" /\ fence = line.of
    BY <2>2 DEF FenceLine
  <2>3. CASE fence # "none" /\ fence # line.of
    <3>1. FenceLine(state, line.of) = state
      BY <2>3 DEF FenceLine
    <3>2. new = fence
      BY <2>3
    <3> HIDE DEF new, fence
    <3>3. [state EXCEPT !.fence = new] = state
      BY <1>1, <3>2
    <3> QED
      BY <3>1, <3>3
  <2> QED
    BY <2>1, <2>2, <2>3
<1>9. \A e : e \in worse <=>
        \/ e \in errors
        \/ e = "forbidden-unicode" /\ line.forbidden
        \/ e = "heading" /\ titled /\ line.of \in BadTitles
  <2> HIDE DEF errors, titled
  <2> QED
    BY DEF Wrong
<1> HIDE DEF fence, headings, errors, new, more, worse
<1>5. CASE line.kind = "fence"
  <2>1. next = [fence |-> new, headings |-> headings, errors |-> errors]
    BY <1>1, <1>3, <1>4, <1>5
  <2>2. /\ next = [fence |-> next.fence, headings |-> next.headings, errors |-> next.errors]
        /\ next.fence = new /\ next.headings = headings /\ next.errors = errors
    BY <2>1
  <2> QED
    BY <1>2, <1>5, <2>2 DEF LintShape, Unfit, ErrorsAdded, fence, headings, errors, new
<1>6. CASE line.kind # "fence" /\ titled
  <2>1. next = [fence |-> fence, headings |-> more, errors |-> worse]
    BY <1>1, <1>3, <1>6
  <2>2. /\ next = [fence |-> next.fence, headings |-> next.headings, errors |-> next.errors]
        /\ next.fence = fence /\ next.headings = more /\ next.errors = worse
    BY <2>1
  <2> QED
    BY <1>2, <1>6, <1>9, <2>2 DEF LintShape, Unfit, ErrorsAdded, fence, headings, errors, more
<1>7. CASE line.kind # "fence" /\ ~titled
  <2>1. next = [fence |-> fence, headings |-> headings, errors |-> worse]
    BY <1>1, <1>3, <1>7
  <2>2. /\ next = [fence |-> next.fence, headings |-> next.headings, errors |-> next.errors]
        /\ next.fence = fence /\ next.headings = headings /\ next.errors = worse
    BY <2>1
  <2> QED
    BY <1>2, <1>7, <1>9, <2>2 DEF LintShape, Unfit, ErrorsAdded, fence, headings, errors
<1> QED
  BY <1>5, <1>6, <1>7

\* Each line makes the next state of the one before it.
LEMMA StateStart ==
  ASSUME NEW S, NEW lines \in Seq(S)
  PROVE  State(lines, 0) = Outside
BY Lints!Start DEF State

\* The state of lint after a line is one turn from the state before it.
LEMMA StateTurn ==
  ASSUME NEW S, NEW lines \in Seq(S), NEW k \in 1 .. Len(lines)
  PROVE  State(lines, k) = LintLine(State(lines, k - 1), lines[k])
<1>1. State(lines, k) = LintTurn(0, State(lines, k - 1), lines[k])
  BY Lints!Turn DEF State
<1> QED
  BY <1>1 DEF LintTurn

\* The state of lint has the fields that a turn changes.
LEMMA StateShape ==
  ASSUME NEW S, NEW lines \in Seq(S)
  PROVE  \A k \in 0 .. Len(lines) : LintShape(State(lines, k))
<1> DEFINE n == Len(lines)
           T == {k \in 0 .. n : LintShape(State(lines, k))}
<1>1. n \in Nat
  OBVIOUS
<1>2. 0 \in T
  <2> DEFINE none == Outside.headings
  <2>1. /\ Outside = [fence |-> Outside.fence, headings |-> none, errors |-> Outside.errors]
        /\ none = <<>>
    BY DEF Outside
  <2> HIDE DEF none
  <2>2. none \in Seq(Range(none))
    BY <2>1
  <2>3. LintShape(Outside)
    BY <2>1, <2>2 DEF LintShape, none
  <2> QED
    BY <1>1, <2>3, StateStart
<1>3. \A k \in 1 .. n : k - 1 \in T => k \in T
  <2> SUFFICES ASSUME NEW k \in 1 .. n, k - 1 \in T PROVE k \in T
    OBVIOUS
  <2>1. LintShape(State(lines, k))
    BY StateTurn, LintParts
  <2> QED
    BY <1>1, <2>1
<1> HIDE DEF T
<1>4. \A k \in 0 .. n : k \in T
  <2> HIDE DEF n
  <2> QED
    BY <1>1, <1>2, <1>3, Lints!UpTo
<1> QED
  BY <1>4 DEF T

\* The fences that open a block as the machine sees them, and what closes one.
Fences(lines) == {i \in DOMAIN lines : lines[i].kind = "fence"}
Opened(lines) == {i \in Fences(lines) : Fence(lines, i - 1) = "none"}
Closed(lines, s, k) == \E c \in Fences(lines) : s < c /\ c <= k /\ lines[c].of = lines[s].of

Marks(lines) == \A i \in Fences(lines) : lines[i].of # "none"

\* After k lines every block but the open one has been closed.
FenceMeans(lines, k) ==
  /\ Fence(lines, k) = "none" => \A s \in Opened(lines) : s <= k => Closed(lines, s, k)
  /\ Fence(lines, k) # "none" =>
       \E s \in Opened(lines) :
         /\ s <= k /\ lines[s].of = Fence(lines, k) /\ ~Closed(lines, s, k)
         /\ \A r \in Opened(lines) : r <= k /\ r # s => Closed(lines, r, k)

\* One line more: the block that lint is in is the one opened last and not closed.
LEMMA NextFence ==
  ASSUME NEW S, NEW lines \in Seq(S), Marks(lines), NEW k \in 1 .. Len(lines),
         FenceMeans(lines, k - 1)
  PROVE  FenceMeans(lines, k)
<1> DEFINE was == Fence(lines, k - 1)
           now == Fence(lines, k)
           O == Opened(lines)
           F == Fences(lines)
           of(i) == lines[i].of
<1>1. /\ k \in Nat /\ k - 1 \in Nat /\ F \subseteq Nat /\ O \subseteq F /\ k \in DOMAIN lines
      /\ \A i \in Nat : i <= k => i <= k - 1 \/ i = k
      /\ \A i \in F : of(i) # "none"
  BY DEF Fences, Opened, Marks
<1>2. /\ lines[k].kind = "fence" =>
           /\ was = "none" => now = of(k)
           /\ was # "none" /\ was = of(k) => now = "none"
           /\ was # "none" /\ was # of(k) => now = was
      /\ lines[k].kind # "fence" => now = was
  <2>1. k - 1 \in 0 .. Len(lines)
    BY <1>1
  <2>2. LintShape(State(lines, k - 1))
    BY <2>1, StateShape
  <2> DEFINE state == State(lines, k - 1)
             next == State(lines, k)
             line == lines[k]
  <2>3. next = LintLine(state, line) /\ LintShape(state)
    BY <2>2, StateTurn
  <2>4. was = state.fence /\ now = next.fence
    BY DEF Fence
  <2> HIDE DEF state, next, line, was, now
  <2>5. /\ line.kind = "fence" =>
             /\ was = "none" => now = line.of
             /\ was # "none" /\ was = line.of => now = "none"
             /\ was # "none" /\ was # line.of => now = was
        /\ line.kind # "fence" => now = was
    BY <2>3, <2>4, LintParts
  <2> QED
    BY <2>5 DEF line
<1>3. /\ k \in F <=> lines[k].kind = "fence"
      /\ k \in O <=> k \in F /\ was = "none"
  BY <1>1 DEF Fences, Opened
<1>4. \A s \in F : Closed(lines, s, k) <=>
        Closed(lines, s, k - 1) \/ (k \in F /\ s < k /\ of(k) = of(s))
  <2> TAKE s \in F
  <2>1. \A c \in F : c <= k <=> c <= k - 1 \/ c = k
    BY <1>1
  <2> QED
    BY <1>1, <2>1 DEF Closed
<1>5. ~Closed(lines, k, k)
  BY <1>1 DEF Closed
<1>6. /\ was = "none" => \A s \in O : s <= k - 1 => Closed(lines, s, k - 1)
      /\ was # "none" =>
           \E s \in O :
             /\ s <= k - 1 /\ of(s) = was /\ ~Closed(lines, s, k - 1)
             /\ \A r \in O : r <= k - 1 /\ r # s => Closed(lines, r, k - 1)
  BY DEF FenceMeans
<1>9. \A s \in O : s \in Nat /\ s \in F
  BY <1>1
<1> HIDE DEF O, F, was, now, of
<1>7. /\ now = "none" => \A s \in O : s <= k => Closed(lines, s, k)
      /\ now # "none" =>
           \E s \in O :
             /\ s <= k /\ of(s) = now /\ ~Closed(lines, s, k)
             /\ \A r \in O : r <= k /\ r # s => Closed(lines, r, k)
  <2>1. CASE k \notin F
    <3>1. now = was /\ \A s \in O : (s <= k <=> s <= k - 1) /\ (Closed(lines, s, k) <=> Closed(lines, s, k - 1))
      BY <1>1, <1>2, <1>3, <1>4, <1>9, <2>1
    <3> QED
      BY <1>6, <3>1
  <2>2. CASE k \in F /\ was = "none"
    <3>1. now = of(k) /\ now # "none" /\ k \in O
      BY <1>1, <1>2, <1>3, <2>2
    <3>2. \A r \in O : r <= k /\ r # k => Closed(lines, r, k)
      BY <1>1, <1>4, <1>6, <1>9, <2>2
    <3> QED
      BY <1>1, <1>5, <3>1, <3>2
  <2>3. CASE k \in F /\ was # "none" /\ was = of(k)
    <3>1. now = "none" /\ k \notin O
      BY <1>2, <1>3, <2>3
    <3>2. PICK s \in O :
             /\ s <= k - 1 /\ of(s) = was /\ ~Closed(lines, s, k - 1)
             /\ \A r \in O : r <= k - 1 /\ r # s => Closed(lines, r, k - 1)
      BY <1>6, <2>3
    <3>3. ASSUME NEW r \in O, r <= k PROVE Closed(lines, r, k)
      <4>1. r <= k - 1 /\ r < k /\ r \in F
        BY <1>1, <1>9, <3>1, <3>3
      <4>2. CASE r = s
        BY <1>4, <2>3, <3>2, <4>1, <4>2
      <4>3. CASE r # s
        BY <1>4, <3>2, <4>1, <4>3
      <4> QED
        BY <4>2, <4>3
    <3> QED
      BY <3>1, <3>3
  <2>4. CASE k \in F /\ was # "none" /\ was # of(k)
    <3>1. now = was /\ k \notin O
      BY <1>2, <1>3, <2>4
    <3>2. PICK s \in O :
             /\ s <= k - 1 /\ of(s) = was /\ ~Closed(lines, s, k - 1)
             /\ \A r \in O : r <= k - 1 /\ r # s => Closed(lines, r, k - 1)
      BY <1>6, <2>4
    <3>3. ~Closed(lines, s, k) /\ s <= k
      BY <1>1, <1>4, <1>9, <2>4, <3>2
    <3>4. \A r \in O : r <= k /\ r # s => Closed(lines, r, k)
      BY <1>1, <1>4, <1>9, <3>1, <3>2
    <3> QED
      BY <2>4, <3>1, <3>2, <3>3, <3>4
  <2> QED
    BY <2>1, <2>2, <2>3, <2>4
<1> QED
  BY <1>7 DEF FenceMeans, O, now, of

\* All lines.
LEMMA FenceAlwaysMeans ==
  ASSUME NEW S, NEW lines \in Seq(S), Marks(lines)
  PROVE  \A k \in 0 .. Len(lines) : FenceMeans(lines, k)
<1> DEFINE n == Len(lines)
           T == {k \in 0 .. n : FenceMeans(lines, k)}
<1>1. n \in Nat
  OBVIOUS
<1>2. 0 \in T
  <2>1. Fence(lines, 0) = "none"
    BY StateStart DEF Fence, Outside
  <2>2. \A s \in Opened(lines) : ~(s <= 0)
    BY DEF Opened, Fences
  <2> QED
    BY <1>1, <2>1, <2>2 DEF FenceMeans
<1>3. \A k \in 1 .. n : k - 1 \in T => k \in T
  BY <1>1, NextFence
<1> HIDE DEF T
<1>4. \A k \in 0 .. n : k \in T
  <2> HIDE DEF n
  <2> QED
    BY <1>1, <1>2, <1>3, Lints!UpTo
<1> QED
  BY <1>4 DEF T

\* The openers of the reference are those that the machine sees: they are an
\* answer, and two answers that agree below a fence agree on it.
Answers(lines, O) ==
  \A i \in Fences(lines) :
    i \in O <=> \A s \in O : s < i =>
                  \E c \in Fences(lines) : s < c /\ c < i /\ lines[c].of = lines[s].of

\* The fences that lint opens a block at answer the definition of an opener.
LEMMA OpenedAnswers ==
  ASSUME NEW S, NEW lines \in Seq(S), Marks(lines)
  PROVE  Answers(lines, Opened(lines))
<1> SUFFICES ASSUME NEW i \in Fences(lines)
             PROVE  i \in Opened(lines) <=>
                      \A s \in Opened(lines) : s < i =>
                        \E c \in Fences(lines) : s < c /\ c < i /\ lines[c].of = lines[s].of
  BY DEF Answers
<1>1. i \in 1 .. Len(lines) /\ i - 1 \in 0 .. Len(lines) /\ Fences(lines) \subseteq Nat
  BY DEF Fences
<1>2. FenceMeans(lines, i - 1)
  BY <1>1, FenceAlwaysMeans
<1>3. \A s \in Fences(lines) : (s < i <=> s <= i - 1)
  BY <1>1
<1>4. \A s \in Opened(lines) : s \in Fences(lines)
  BY DEF Opened
<1>5. i \in Opened(lines) <=> Fence(lines, i - 1) = "none"
  BY DEF Opened
<1>6. \A s \in Opened(lines) : Closed(lines, s, i - 1) <=>
        \E c \in Fences(lines) : s < c /\ c < i /\ lines[c].of = lines[s].of
  BY <1>3 DEF Closed
<1> QED
  BY <1>2, <1>3, <1>4, <1>5, <1>6 DEF FenceMeans

\* Only one set of fences answers that definition.
LEMMA OneAnswer ==
  ASSUME NEW S, NEW lines \in Seq(S), NEW O \in SUBSET Fences(lines), NEW P \in SUBSET Fences(lines),
         Answers(lines, O), Answers(lines, P)
  PROVE  O = P
<1> DEFINE D == {i \in Fences(lines) : ~(i \in O <=> i \in P)}
<1> SUFFICES ASSUME D # {} PROVE FALSE
  OBVIOUS
<1>1. Fences(lines) \subseteq Nat /\ D \in SUBSET Nat
  BY DEF Fences
<1>2. PICK i \in D : \A j \in D : i <= j
  <2> HIDE DEF D
  <2> QED
    BY <1>1, Lints!Least
<1>3. \A s \in Fences(lines) : s < i => (s \in O <=> s \in P)
  BY <1>1, <1>2
<1>4. i \in O <=> i \in P
  BY <1>3 DEF Answers
<1> QED
  BY <1>2, <1>4

\* So they are the openers.
LEMMA OpenersOf ==
  ASSUME NEW S, NEW lines \in Seq(S), Marks(lines)
  PROVE  Openers(lines) = Opened(lines)
<1> DEFINE A(O) == \A i \in Fences(lines) :
             i \in O <=> \A s \in O : s < i =>
                           \E c \in Fences(lines) : s < c /\ c < i /\ lines[c].of = lines[s].of
<1>1. Openers(lines) = CHOOSE O \in SUBSET Fences(lines) : A(O)
  BY DEF Openers, Fences
<1>2. A(Opened(lines)) /\ Opened(lines) \in SUBSET Fences(lines)
  BY OpenedAnswers DEF Answers, Opened
<1>3. \A O : A(O) => Answers(lines, O)
  BY DEF Answers
<1> HIDE DEF A
<1>4. A(Openers(lines)) /\ Openers(lines) \in SUBSET Fences(lines)
  BY <1>1, <1>2
<1> QED
  BY <1>2, <1>3, <1>4, OneAnswer

\* A line is in a block exactly if the machine is in one before it.
LEMMA FencedOf ==
  ASSUME NEW S, NEW lines \in Seq(S), Marks(lines), NEW i \in DOMAIN lines
  PROVE  Fenced(lines, i) <=> Fence(lines, i - 1) # "none"
<1>1. i \in 1 .. Len(lines) /\ i - 1 \in 0 .. Len(lines) /\ Fences(lines) \subseteq DOMAIN lines
      /\ DOMAIN lines \subseteq Nat
  BY DEF Fences
<1>2. FenceMeans(lines, i - 1)
  BY <1>1, FenceAlwaysMeans
<1>3. \A s \in Opened(lines) : s \in Nat /\ (s < i <=> s <= i - 1)
  BY <1>1 DEF Opened
<1>4. \A s \in Opened(lines) :
        (\A c \in s + 1 .. i - 1 : lines[c].kind = "fence" => lines[c].of # lines[s].of)
          <=> ~Closed(lines, s, i - 1)
  <2> TAKE s \in Opened(lines)
  <2>1. \A c \in Fences(lines) : s < c /\ c <= i - 1 => c \in s + 1 .. i - 1
    BY <1>1, <1>3
  <2>2. \A c \in s + 1 .. i - 1 : c \in DOMAIN lines /\ s < c /\ c <= i - 1
    BY <1>1, <1>3
  <2> QED
    BY <2>1, <2>2 DEF Closed, Fences
<1>5. Fenced(lines, i) <=> \E s \in Opened(lines) : s <= i - 1 /\ ~Closed(lines, s, i - 1)
  BY <1>3, <1>4, OpenersOf DEF Fenced
<1> QED
  BY <1>2, <1>5 DEF FenceMeans

\* The headings outside of blocks, and what the pass has made of them after k lines.
Tops(lines) == {i \in DOMAIN lines : lines[i].kind = "heading" /\ Fence(lines, i - 1) = "none"}
TopsBefore(lines, i) == {t \in Tops(lines) : t < i}
Place(lines, t) == Cardinality(TopsBefore(lines, t)) + 1
HeadsMean(lines, k) ==
  /\ Len(Heads(lines, k)) = Cardinality(TopsBefore(lines, k + 1))
  /\ \A t \in Tops(lines) : t <= k =>
       Place(lines, t) \in 1 .. Len(Heads(lines, k)) /\ Heads(lines, k)[Place(lines, t)] = lines[t].of
  /\ \A j \in 1 .. Len(Heads(lines, k)) : \E t \in Tops(lines) : t <= k /\ Place(lines, t) = j
ErrorsMean(lines, k) ==
  \A e : e \in Errors(lines, k) <=>
           \/ e = "forbidden-unicode" /\ \E i \in 1 .. k : Unfit(lines[i])
           \/ e = "heading" /\ \E t \in Tops(lines) : t <= k /\ lines[t].of \in BadTitles

\* A document has finitely many titles.
LEMMA TopsFinite ==
  ASSUME NEW S, NEW lines \in Seq(S), NEW i
  PROVE  /\ IsFiniteSet(TopsBefore(lines, i)) /\ Cardinality(TopsBefore(lines, i)) \in Nat
<1>1. IsFiniteSet(1 .. Len(lines))
  BY FS_Interval
<1>2. TopsBefore(lines, i) \subseteq 1 .. Len(lines)
  BY DEF TopsBefore, Tops
<1> QED
  BY <1>1, <1>2, FS_Subset, FS_CardinalityType

\* One line more: the levels, the anchors and the errors noted are those of the
\* headings so far.
LEMMA NextHeads ==
  ASSUME NEW S, NEW lines \in Seq(S), NEW k \in 1 .. Len(lines),
         HeadsMean(lines, k - 1), ErrorsMean(lines, k - 1)
  PROVE  HeadsMean(lines, k) /\ ErrorsMean(lines, k)
<1> DEFINE state == State(lines, k - 1)
           next == State(lines, k)
           line == lines[k]
           old == state.headings
           new == next.headings
           T == Tops(lines)
           n == Len(old)
           P(t) == Place(lines, t)
<1>1. next = LintLine(state, line) /\ LintShape(state)
  <2>1. k - 1 \in 0 .. Len(lines)
    OBVIOUS
  <2> QED
    BY <2>1, StateShape, StateTurn
<1>2. old = Heads(lines, k - 1) /\ new = Heads(lines, k)
  BY DEF Heads
<1>3. old \in Seq(Range(old)) /\ n \in Nat
  <2>1. old \in Seq(Range(old))
    BY <1>1 DEF LintShape
  <2> HIDE DEF old
  <2> QED
    BY <2>1
<1>4. /\ k \in Nat /\ k - 1 + 1 = k /\ k \in DOMAIN lines /\ T \subseteq Nat
      /\ \A t \in T : t <= k <=> t <= k - 1 \/ t = k
  BY DEF Tops
<1>5. k \in T <=> line.kind = "heading" /\ state.fence = "none"
  BY <1>4 DEF Tops, Fence
<1> HIDE DEF state, next
<1>6. /\ k \in T => new = Added(old, line.of)
      /\ k \notin T => new = old
      /\ \A e : e \in next.errors <=>
           \/ e \in state.errors
           \/ e = "forbidden-unicode" /\ Unfit(line)
           \/ e = "heading" /\ k \in T /\ line.of \in BadTitles
  <2> HIDE DEF line, T, old, new
  <2>1. /\ line.kind = "heading" /\ state.fence = "none" =>
             next.headings = Added(state.headings, line.of)
        /\ ~(line.kind = "heading" /\ state.fence = "none") => next.headings = state.headings
        /\ ErrorsAdded(state, line, next)
    BY <1>1, LintParts
  <2>2. /\ k \in T => new = Added(old, line.of)
        /\ k \notin T => new = old
    BY <1>5, <2>1, Zenon DEF old, new
  <2>3. ASSUME NEW e
        PROVE  e \in next.errors <=>
                 \/ e \in state.errors
                 \/ e = "forbidden-unicode" /\ Unfit(line)
                 \/ e = "heading" /\ k \in T /\ line.of \in BadTitles
    <3>1. e \in next.errors <=>
            \/ e \in state.errors
            \/ e = "forbidden-unicode" /\ Unfit(line)
            \/ e = "heading" /\ line.kind = "heading" /\ state.fence = "none" /\ line.of \in BadTitles
      BY <2>1 DEF ErrorsAdded
    <3> QED
      BY <1>5, <3>1
  <2> QED
    BY <2>2, <2>3
<1>7. /\ n = Cardinality(TopsBefore(lines, k))
      /\ \A t \in T : t <= k - 1 => P(t) \in 1 .. n /\ old[P(t)] = lines[t].of
      /\ \A j \in 1 .. n : \E t \in T : t <= k - 1 /\ P(t) = j
  BY <1>2, <1>4 DEF HeadsMean
<1>8. /\ k \in T => Cardinality(TopsBefore(lines, k + 1)) = n + 1
      /\ k \notin T => Cardinality(TopsBefore(lines, k + 1)) = n
  <2>1. k \in T => TopsBefore(lines, k + 1) = TopsBefore(lines, k) \cup {k}
    BY <1>4 DEF TopsBefore
  <2>2. k \notin T => TopsBefore(lines, k + 1) = TopsBefore(lines, k)
    BY <1>4 DEF TopsBefore
  <2>3. k \notin TopsBefore(lines, k) /\ IsFiniteSet(TopsBefore(lines, k))
    <3>1. IsFiniteSet(TopsBefore(lines, k))
      BY TopsFinite
    <3>2. k \notin TopsBefore(lines, k)
      BY <1>4 DEF TopsBefore
    <3> QED
      BY <3>1, <3>2
  <2> HIDE DEF n, T
  <2> QED
    BY <1>7, <2>1, <2>2, <2>3, FS_AddElement
<1>9. P(k) = n + 1
  BY <1>7 DEF Place
<1>10. HeadsMean(lines, k)
  <2> HIDE DEF n, old, new, P, T
  <2>1. CASE k \notin T
    <3>1. new = old /\ Len(new) = n
      BY <1>6, <2>1 DEF n
    <3>2. \A t \in T : t <= k => t <= k - 1
      BY <1>4, <2>1
    <3>3. \A t \in T : t <= k - 1 => t <= k
      BY <1>4
    <3>4. \A t \in T : t <= k => P(t) \in 1 .. n /\ new[P(t)] = lines[t].of
      BY <1>7, <3>1, <3>2
    <3>5. \A j \in 1 .. n : \E t \in T : t <= k /\ P(t) = j
      BY <1>7, <3>3
    <3> QED
      BY <1>2, <1>8, <2>1, <3>1, <3>4, <3>5 DEF HeadsMean, T, P
  <2>2. CASE k \in T
    <3>1. /\ new = Append(old, line.of) /\ Len(new) = n + 1 /\ new[n + 1] = line.of
          /\ \A j \in 1 .. n : new[j] = old[j]
      BY <1>3, <1>6, <2>2 DEF n, Added
    <3>2. \A j \in 1 .. n + 1 : j \in 1 .. n \/ j = n + 1
      BY <1>3
    <3>3. \A j \in 1 .. n : j \in 1 .. n + 1
      BY <1>3
    <3>4. n + 1 \in 1 .. n + 1
      BY <1>3
    <3>5. ASSUME NEW t \in T, t <= k PROVE P(t) \in 1 .. n + 1 /\ new[P(t)] = lines[t].of
      <4>1. CASE t <= k - 1
        BY <1>7, <3>1, <3>3, <4>1
      <4>2. CASE t = k
        BY <1>9, <3>1, <3>4, <4>2
      <4> QED
        BY <1>4, <3>5, <4>1, <4>2
    <3>6. ASSUME NEW j \in 1 .. n + 1 PROVE \E t \in T : t <= k /\ P(t) = j
      <4>1. CASE j \in 1 .. n
        BY <1>4, <1>7, <4>1
      <4>2. CASE j = n + 1
        BY <1>4, <1>9, <2>2, <4>2
      <4> QED
        BY <3>2, <4>1, <4>2
    <3> QED
      BY <1>2, <1>8, <2>2, <3>1, <3>5, <3>6 DEF HeadsMean, T, P
  <2> QED
    BY <2>1, <2>2
<1>11. ErrorsMean(lines, k)
  <2>1. state.errors = Errors(lines, k - 1) /\ next.errors = Errors(lines, k)
    BY DEF Errors, state, next
  <2> DEFINE Bad(j) == \E t \in T : t <= j /\ lines[t].of \in BadTitles
             Forbidden(j) == \E i \in 1 .. j : Unfit(lines[i])
  <2>2. \A e : e \in state.errors <=>
                 (e = "forbidden-unicode" /\ Forbidden(k - 1)) \/ (e = "heading" /\ Bad(k - 1))
    BY <2>1 DEF ErrorsMean
  <2>3. Bad(k) <=> Bad(k - 1) \/ (k \in T /\ line.of \in BadTitles)
    BY <1>4
  <2>4. Forbidden(k) <=> Forbidden(k - 1) \/ Unfit(line)
    <3>1. \A i : i \in 1 .. k <=> i \in 1 .. k - 1 \/ i = k
      BY <1>4
    <3> QED
      BY <3>1
  <2>6. "heading" # "forbidden-unicode"
    OBVIOUS
  <2> HIDE DEF T, Bad, Forbidden, line
  <2>7. \A e : e \in next.errors <=>
                 (e = "forbidden-unicode" /\ Forbidden(k)) \/ (e = "heading" /\ Bad(k))
    BY <1>6, <2>2, <2>3, <2>4
  <2> QED
    BY <2>1, <2>7 DEF ErrorsMean, Bad, Forbidden, T
<1> QED
  BY <1>10, <1>11

\* All lines.
LEMMA HeadsAlwaysMean ==
  ASSUME NEW S, NEW lines \in Seq(S)
  PROVE  HeadsMean(lines, Len(lines)) /\ ErrorsMean(lines, Len(lines))
<1> DEFINE n == Len(lines)
           T == {k \in 0 .. n : HeadsMean(lines, k) /\ ErrorsMean(lines, k)}
<1>1. n \in Nat
  OBVIOUS
<1>2. 0 \in T
  <2> DEFINE none == Outside.headings
  <2>1. Heads(lines, 0) = none /\ Errors(lines, 0) = {} /\ none = <<>>
    BY StateStart DEF Heads, Errors, Outside
  <2> HIDE DEF none
  <2>2. Len(none) = 0 /\ \A t \in Tops(lines) : ~(t <= 0) /\ t \in Nat
    BY <2>1 DEF Tops
  <2>3. TopsBefore(lines, 0 + 1) = {}
    BY <2>2 DEF TopsBefore
  <2>6. Cardinality(TopsBefore(lines, 0 + 1)) = 0 /\ \A j \in 1 .. 0 : FALSE
    <3>1. Cardinality(TopsBefore(lines, 0 + 1)) = Cardinality({})
      BY <2>3
    <3> QED
      BY <3>1, FS_EmptySet
  <2>4. HeadsMean(lines, 0)
    BY <2>1, <2>2, <2>6 DEF HeadsMean
  <2>5. ErrorsMean(lines, 0)
    BY <2>1, <2>2 DEF ErrorsMean
  <2> QED
    BY <1>1, <2>4, <2>5
<1>3. \A k \in 1 .. n : k - 1 \in T => k \in T
  BY <1>1, NextHeads
<1> HIDE DEF T
<1>4. n \in T
  <2> HIDE DEF n
  <2>1. \A k \in 0 .. n : k \in T
    BY <1>1, <1>2, <1>3, Lints!UpTo
  <2> QED
    BY <1>1, <2>1
<1> QED
  BY <1>4 DEF T

\* A README passes exactly if it keeps the rules.
THEOREM LintAlwaysMeans == Spec => []LintMeans
<1>1. Picked => LintMeans
  <2> SUFFICES ASSUME about = "readme", input \in ReadmeInputs PROVE LintMeans
    BY DEF Picked, LintMeans
  <2> DEFINE lines == input.lines
             S == ToSet(lines)
             n == Len(lines)
             T == Tops(lines)
             H == Heads(lines, n)
             E == Errors(lines, n)
  <2>1. lines \in Seq(S) /\ n \in Nat
    <3>1. lines \in Seq(S)
      BY ReadmeInputAssumption
    <3> HIDE DEF S
    <3> QED
      BY <3>1
  <2>2. Marks(lines)
    <3>1. \A i \in DOMAIN lines : lines[i] \in S
      <4> HIDE DEF S
      <4> QED
        BY <2>1
    <3> QED
      BY <3>1, ReadmeInputAssumption DEF Marks, Fences
  <2> HIDE DEF S
  <2>3. {i \in DOMAIN lines : lines[i].kind = "heading" /\ ~Fenced(lines, i)} = T
    BY <2>1, <2>2, FencedOf DEF Tops
  <2>4. HeadsMean(lines, n) /\ ErrorsMean(lines, n)
    BY <2>1, HeadsAlwaysMean
  <2>5. FoldLeft(LintLine, Outside, lines) = State(lines, n)
    BY <2>1, LintRuns, Lints!Finish DEF State
  <2>6. \A t \in T : t <= n /\ t \in Nat
    BY <2>1 DEF Tops
  <2>7. H \in Seq(Range(H))
    <3>1. n \in 0 .. n
      BY <2>1
    <3>2. LintShape(State(lines, n))
      BY <2>1, <3>1, StateShape
    <3> QED
      BY <3>2 DEF LintShape, Heads
  <2> DEFINE m == Len(H)
             Place1(t) == Cardinality({u \in T : u < t})
  <2>8. /\ m \in Nat /\ DOMAIN H = 1 .. m
        /\ \A t \in T : Place1(t) + 1 \in 1 .. m /\ H[Place1(t) + 1] = lines[t].of
        /\ \A j \in 1 .. m : \E t \in T : Place1(t) + 1 = j
        /\ \A t \in T : Place1(t) \in Nat
    <3>1. m \in Nat /\ DOMAIN H = 1 .. m
      <4> HIDE DEF H
      <4> QED
        BY <2>7
    <3>2. \A t \in T : Place(lines, t) = Place1(t) + 1
      BY DEF Place, TopsBefore
    <3>3. \A t \in T : Place1(t) \in Nat
      BY <2>1, TopsFinite DEF TopsBefore
    <3>4. /\ \A t \in T : Place(lines, t) \in 1 .. m /\ H[Place(lines, t)] = lines[t].of
          /\ \A j \in 1 .. m : \E t \in T : Place(lines, t) = j
      BY <2>4, <2>6 DEF HeadsMean
    <3> QED
      BY <3>1, <3>2, <3>3, <3>4
  <2>9. \A e : e \in E <=>
           \/ e = "forbidden-unicode" /\ \E i \in DOMAIN lines : Unfit(lines[i])
           \/ e = "heading" /\ \E t \in T : lines[t].of \in BadTitles
    <3>1. DOMAIN lines = 1 .. n
      BY <2>1
    <3> QED
      BY <2>4, <2>6, <3>1 DEF ErrorsMean
  <2> HIDE DEF T, H, E, m, Place1
  <2>10. Range(H) = {lines[t].of : t \in T}
    <3>1. \A j \in 1 .. m : \E t \in T : H[j] = lines[t].of
      BY <2>8
    <3>2. \A t \in T : \E j \in 1 .. m : H[j] = lines[t].of
      BY <2>8
    <3> DEFINE of(t) == lines[t].of
    <3>3. \A x : x \in Range(H) <=> \E j \in 1 .. m : x = H[j]
      BY <2>8 DEF Range
    <3>4. /\ \A j \in 1 .. m : \E t \in T : H[j] = of(t)
          /\ \A t \in T : \E j \in 1 .. m : H[j] = of(t)
      BY <3>1, <3>2
    <3> HIDE DEF of
    <3>5. Range(H) = {of(t) : t \in T}
      BY <3>3, <3>4
    <3> QED
      BY <3>5 DEF of
  <2>11. Broken(lines, H) <=>
           ~ \A i \in DOMAIN lines :
               lines[i].links \subseteq Numbered \cup {Anchor[lines[t].of] : t \in T}
    BY <2>10 DEF Broken
  <2> DEFINE Names(s) == {i \in T : s \in Sections[lines[i].of]}
  <2>12. Missing(H) = {} <=> \A s \in Required : Names(s) # {}
    BY <2>10 DEF Missing
  <2>13. ASSUME Missing(H) = {}
         PROVE  ~RundownLow(H) <=> \E i \in Names(Rundown) : Place1(i) < 4
    <3>1. H # <<>>
      <4>1. Names(Rundown) # {}
        BY <2>12, <2>13, LintAssumption
      <4>2. PICK t \in T : TRUE
        BY <4>1
      <4>3. 1 <= m
        BY <2>8, <4>2
      <4> QED
        BY <4>3 DEF m
    <3>2. ASSUME NEW k \in 1 .. m, k <= 4, Rundown \in Sections[H[k]]
          PROVE  \E i \in Names(Rundown) : Place1(i) < 4
      <4>1. PICK t \in T : Place1(t) + 1 = k
        BY <2>8
      <4>2. H[k] = lines[t].of /\ Place1(t) < 4
        <5>1. H[Place1(t) + 1] = lines[t].of /\ Place1(t) \in Nat
          BY <2>8
        <5>2. k <= 4
          BY <3>2
        <5> QED
          BY <4>1, <5>1, <5>2
      <4> QED
        BY <3>2, <4>2
    <3>3. ASSUME NEW i \in Names(Rundown), Place1(i) < 4
          PROVE  \E k \in 1 .. m : k <= 4 /\ Rundown \in Sections[H[k]]
      <4> DEFINE k == Place1(i) + 1
      <4>1. k \in 1 .. m /\ H[k] = lines[i].of /\ k <= 4
        BY <2>8, <3>3
      <4> HIDE DEF k
      <4> QED
        BY <4>1
    <3>4. RundownLow(H) <=> ~ \E k \in 1 .. m : k <= 4 /\ Rundown \in Sections[H[k]]
      BY <3>1 DEF RundownLow, m
    <3> QED
      BY <3>2, <3>3, <3>4
  <2>14. Lint(input).status = "PASS" <=>
           /\ E = {} /\ ~input.dash /\ ~Broken(lines, H)
           /\ input.sections => Missing(H) = {} /\ ~RundownLow(H)
    <3> DEFINE errors == E
                 \cup IF input.dash THEN {"prose-dash"} ELSE {}
                 \cup IF Broken(lines, H) THEN {"broken-toc-anchor"} ELSE {}
                 \cup IF input.sections /\ Missing(H) # {} THEN {"missing"} ELSE {}
                 \cup IF input.sections /\ RundownLow(H) THEN {"section-order"} ELSE {}
    <3>1. Lint(input) = [status |-> IF errors = {} THEN "PASS" ELSE "FAIL", headings |-> H]
      BY <2>5 DEF Lint, E, H, Errors, Heads
    <3>2. errors = {} <=>
           /\ E = {} /\ ~input.dash /\ ~Broken(lines, H)
           /\ input.sections => Missing(H) = {} /\ ~RundownLow(H)
      OBVIOUS
    <3> HIDE DEF errors
    <3>3. Lint(input).status = "PASS" <=> errors = {}
      BY <3>1
    <3> QED
      BY <3>2, <3>3
  <2>15. E = {} <=> /\ \A i \in DOMAIN lines : lines[i].forbidden => lines[i].kind = "fence"
                    /\ \A i \in T : lines[i].of \notin BadTitles
    <3>1. E = {} <=> /\ \A i \in DOMAIN lines : ~Unfit(lines[i])
                     /\ \A i \in T : lines[i].of \notin BadTitles
      BY <2>9
    <3> QED
      BY <3>1 DEF Unfit
  <2> DEFINE right == /\ ~input.dash
                      /\ \A i \in DOMAIN lines : lines[i].forbidden => lines[i].kind = "fence"
                      /\ \A i \in T : lines[i].of \notin BadTitles
                      /\ \A i \in DOMAIN lines :
                           lines[i].links \subseteq Numbered \cup {Anchor[lines[t].of] : t \in T}
                      /\ input.sections => /\ \A s \in Required : Names(s) # {}
                                           /\ \E i \in Names(Rundown) : Place1(i) < 4
  <2>16. Lint(input).status = "PASS" <=> right
    <3> HIDE DEF Names, lines
    <3> QED
      BY <2>11, <2>12, <2>13, <2>14, <2>15
  <2> QED
    BY <2>3, <2>16 DEF LintMeans, Place1
<1> QED
  BY <1>1, PickedFromInputs, PTL
-----------------------------------------------------------------------------
(* What build_record concludes                                              *)

ChosenTurn(kept, found, x) == IF x \in kept THEN Append(found, x) ELSE found
Chooses == INSTANCE Loops WITH Op <- ChosenTurn

\* A list of candidates or alternatives is made in a loop.
LEMMA ChosenRuns ==
  ASSUME NEW seq, NEW kept
  PROVE  Chosen(seq, kept) = Chooses!Run(kept, <<>>, seq)
BY DEF Chosen, Chooses!Run, ChosenTurn, FoldLeft, MapThenFoldSet, Max, Chooses!Max

\* What is found after k elements: those of the set, the first of them in front.
FoundWell(seq, kept, found, k) ==
  /\ found \in Seq(Range(seq))
  /\ \A x : x \in Range(found) <=> x \in kept /\ \E i \in 1 .. k : seq[i] = x
  /\ found # <<>> => \E i \in 1 .. k : /\ seq[i] \in kept /\ found[1] = seq[i]
                                      /\ \A j \in 1 .. i - 1 : seq[j] \notin kept

\* One more element.
LEMMA FoundMore ==
  ASSUME NEW seq, seq \in Seq(Range(seq)), NEW kept, NEW k \in 1 .. Len(seq),
         NEW found, FoundWell(seq, kept, found, k - 1)
  PROVE  FoundWell(seq, kept, ChosenTurn(kept, found, seq[k]), k)
<1> DEFINE x == seq[k]
           more == Append(found, x)
           S == Range(seq)
<1>1. /\ k \in Nat /\ k \in 1 .. Len(seq) /\ found \in Seq(S) /\ x \in S
      /\ \A i : i \in 1 .. k <=> i \in 1 .. k - 1 \/ i = k
  BY DEF FoundWell
<1>2. CASE x \notin kept
  <2>1. ChosenTurn(kept, found, x) = found
    BY <1>2 DEF ChosenTurn
  <2> HIDE DEF more
  <2>2. FoundWell(seq, kept, found, k)
    BY <1>1, <1>2 DEF FoundWell
  <2> QED
    BY <2>1, <2>2
<1>3. CASE x \in kept
  <2>1. ChosenTurn(kept, found, x) = more
    BY <1>3 DEF ChosenTurn
  <2>2. Range(more) = Range(found) \cup {x} /\ more \in Seq(S)
    <3> HIDE DEF S, x
    <3> QED
      BY <1>1, RangeAppend
  <2>3. found # <<>> => more[1] = found[1]
    <3> HIDE DEF S, x
    <3> QED
      BY <1>1
  <2>4. found = <<>> => more[1] = x
    <3> HIDE DEF S, x
    <3> QED
      BY <1>1
  <2>5. found = <<>> => \A i \in 1 .. k - 1 : seq[i] \notin kept
    <3> SUFFICES ASSUME found = <<>>, NEW i \in 1 .. k - 1, seq[i] \in kept PROVE FALSE
      OBVIOUS
    <3>1. seq[i] \in Range(found)
      BY DEF FoundWell
    <3> QED
      BY <3>1 DEF Range
  <2> HIDE DEF more
  <2>6. \A y : y \in Range(more) <=> y \in kept /\ \E i \in 1 .. k : seq[i] = y
    BY <1>1, <1>3, <2>2 DEF FoundWell
  <2>7. \E i \in 1 .. k : /\ seq[i] \in kept /\ more[1] = seq[i]
                          /\ \A j \in 1 .. i - 1 : seq[j] \notin kept
    <3>1. CASE found = <<>>
      BY <1>1, <1>3, <2>4, <2>5, <3>1
    <3>2. CASE found # <<>>
      BY <1>1, <2>3, <3>2 DEF FoundWell
    <3> QED
      BY <3>1, <3>2
  <2>8. FoundWell(seq, kept, more, k)
    BY <2>2, <2>6, <2>7 DEF FoundWell
  <2> QED
    BY <2>1, <2>8
<1> QED
  BY <1>2, <1>3

\* The elements that are chosen are those of the set, the first of them in front.
LEMMA ChosenWell ==
  ASSUME NEW seq, seq \in Seq(Range(seq)), NEW kept
  PROVE  FoundWell(seq, kept, Chosen(seq, kept), Len(seq))
<1> DEFINE n == Len(seq)
           After(k) == Chooses!Run(kept, <<>>, SubSeq(seq, 1, k))
           T == {k \in 0 .. n : FoundWell(seq, kept, After(k), k)}
<1>1. n \in Nat
  OBVIOUS
<1>2. 0 \in T
  <2> DEFINE none == <<>>
  <2>1. After(0) = none
    BY Chooses!Start
  <2>2. none \in Seq(Range(seq)) /\ Range(none) = {} /\ none = <<>>
    BY DEF Range
  <2> HIDE DEF none, After
  <2>3. FoundWell(seq, kept, none, 0)
    BY <2>2 DEF FoundWell
  <2> QED
    BY <1>1, <2>1, <2>3
<1>3. \A k \in 1 .. n : k - 1 \in T => k \in T
  <2> SUFFICES ASSUME NEW k \in 1 .. n, k - 1 \in T PROVE k \in T
    OBVIOUS
  <2>1. After(k) = ChosenTurn(kept, After(k - 1), seq[k])
    BY Chooses!Turn
  <2> HIDE DEF After
  <2>2. FoundWell(seq, kept, ChosenTurn(kept, After(k - 1), seq[k]), k)
    BY FoundMore
  <2> QED
    BY <1>1, <2>1, <2>2
<1>4. After(n) = Chosen(seq, kept)
  BY Chooses!Finish, ChosenRuns
<1> HIDE DEF T, After
<1>5. n \in T
  <2> HIDE DEF n
  <2>1. \A k \in 0 .. n : k \in T
    BY <1>1, <1>2, <1>3, Chooses!UpTo
  <2> QED
    BY <1>1, <2>1
<1> QED
  BY <1>4, <1>5 DEF T

\* The parts of Classify.
Confidence(evidence) ==
  CASE StartsWith(Rule[evidence], {"1", "2", "4", "6"}) -> "high"
    [] StartsWith(Rule[evidence], {"3", "5", "7"})      -> "medium"
    [] OTHER                                            -> "low"
Given(signals) == {i \in DOMAIN Cascade : signals[Cascade[i]] # NoLabel}
Mentioned(signals) == {s \in ToSet(Cascade) : signals[s] # NoLabel}

\* The first digit decides.
LEMMA StartsWithDigit ==
  ASSUME NEW S, NEW rule \in Seq(S), Len(rule) >= 1, NEW first, rule[1] = first, NEW digits
  PROVE  StartsWith(rule, digits) <=> first \in digits
<1>1. \A d \in digits : IsPrefix(<<d>>, rule) <=> rule[1] = d
  BY DEF IsPrefix
<1> QED
  BY <1>1 DEF StartsWith

\* What each rule is worth.
LEMMA Worth ==
  /\ \A s \in {"language", "special", "shebang", "magic", "content"} : Confidence(s) = "high"
  /\ \A s \in {"modeline", "extension", "structured"} : Confidence(s) = "medium"
<1>1. /\ Rule["language"] = <<"1">> /\ Rule["special"] = <<"2">> /\ Rule["modeline"] = <<"3">>
      /\ Rule["shebang"] = <<"4">> /\ Rule["extension"] = <<"5">> /\ Rule["magic"] = <<"6">>
      /\ Rule["structured"] = <<"7">> /\ Rule["content"] = <<"1", "0">>
  BY DEF Rule
<1>2. \A d, digits : StartsWith(<<d>>, digits) <=> d \in digits
  <2> TAKE d, digits
  <2> DEFINE rule == <<d>>
  <2>1. rule \in Seq({d}) /\ Len(rule) = 1 /\ rule[1] = d
    OBVIOUS
  <2> HIDE DEF rule
  <2>2. Len(rule) >= 1
    BY <2>1
  <2>3. StartsWith(rule, digits) <=> d \in digits
    BY <2>1, <2>2, StartsWithDigit, Zenon
  <2> QED
    BY <2>3 DEF rule
<1>3. \A digits : StartsWith(<<"1", "0">>, digits) <=> "1" \in digits
  <2> TAKE digits
  <2> DEFINE one == "1"
             zero == "0"
             rule == <<one, zero>>
  <2> HIDE DEF one, zero
  <2>1. rule \in Seq({one, zero}) /\ Len(rule) = 2 /\ rule[1] = one
    OBVIOUS
  <2> HIDE DEF rule
  <2>2. Len(rule) >= 1
    BY <2>1
  <2>3. StartsWith(rule, digits) <=> one \in digits
    BY <2>1, <2>2, StartsWithDigit, Zenon
  <2> QED
    BY <2>3 DEF rule, one, zero
<1>4. \A s \in {"language", "special", "shebang", "magic", "content"} :
        StartsWith(Rule[s], {"1", "2", "4", "6"}) /\ ~StartsWith(Rule[s], {"3", "5", "7"})
  BY <1>1, <1>2, <1>3
<1>5. \A s \in {"modeline", "extension", "structured"} :
        StartsWith(Rule[s], {"3", "5", "7"}) /\ ~StartsWith(Rule[s], {"1", "2", "4", "6"})
  BY <1>1, <1>2
<1> DEFINE High(s) == StartsWith(Rule[s], {"1", "2", "4", "6"})
           Medium(s) == StartsWith(Rule[s], {"3", "5", "7"})
<1>6. ASSUME NEW s
      PROVE  /\ High(s) /\ ~Medium(s) => Confidence(s) = "high"
             /\ Medium(s) /\ ~High(s) => Confidence(s) = "medium"
  <2>1. ASSUME High(s), ~Medium(s) PROVE Confidence(s) = "high"
    BY <2>1 DEF Confidence
  <2>2. ASSUME Medium(s), ~High(s) PROVE Confidence(s) = "medium"
    BY <2>2 DEF Confidence
  <2> QED
    BY <2>1, <2>2
<1>7. /\ \A s \in {"language", "special", "shebang", "magic", "content"} : High(s) /\ ~Medium(s)
      /\ \A s \in {"modeline", "extension", "structured"} : Medium(s) /\ ~High(s)
  BY <1>4, <1>5
<1> HIDE DEF High, Medium
<1> QED
  BY <1>6, <1>7

\* The names of the rules, in their order.
LEMMA CascadeNames ==
  /\ Cascade \in Seq(Range(Cascade)) /\ Len(Cascade) = 7
  /\ Range(Cascade) = {"language", "special", "modeline", "shebang", "extension", "magic", "structured"}
  /\ ToSet(Cascade) = Range(Cascade)
<1> DEFINE names == {"language", "special", "modeline", "shebang", "extension", "magic", "structured"}
<1>1. Cascade \in Seq(names) /\ Len(Cascade) = 7
  <2> DEFINE a == "language"
             b == "special"
             c == "modeline"
             d == "shebang"
             e == "extension"
             f == "magic"
             g == "structured"
  <2>1. Cascade = <<a, b, c, d, e, f, g>> /\ {a, b, c, d, e, f, g} = names
    BY DEF Cascade
  <2> HIDE DEF a, b, c, d, e, f, g, names
  <2>2. <<a, b, c, d, e, f, g>> \in Seq({a, b, c, d, e, f, g}) /\ Len(<<a, b, c, d, e, f, g>>) = 7
    OBVIOUS
  <2> QED
    BY <2>1, <2>2
<1>2. \A i \in DOMAIN Cascade : Cascade[i] \in names
  <2>1. Cascade \in Seq(names)
    BY <1>1
  <2> HIDE DEF names
  <2> QED
    BY <2>1
<1>3. /\ Cascade[1] = "language" /\ Cascade[2] = "special" /\ Cascade[3] = "modeline"
      /\ Cascade[4] = "shebang" /\ Cascade[5] = "extension" /\ Cascade[6] = "magic"
      /\ Cascade[7] = "structured"
  BY DEF Cascade
<1>4. Range(Cascade) = names
  <2>1. \A i \in {1, 2, 3, 4, 5, 6, 7} : i \in DOMAIN Cascade
    <3> HIDE DEF names
    <3> QED
      BY <1>1
  <2>2. \A x \in names : \E i \in DOMAIN Cascade : Cascade[i] = x
    BY <1>3, <2>1
  <2> QED
    BY <1>2, <2>2 DEF Range
<1>5. ToSet(Cascade) = Range(Cascade)
  BY DEF ToSet, Range
<1> HIDE DEF names
<1> QED
  BY <1>1, <1>4, <1>5 DEF names

\* A finite set has more than one element exactly if it has another than a given one.
LEMMA MoreThanOne ==
  ASSUME NEW S, IsFiniteSet(S), NEW x \in S
  PROVE  Cardinality(S) > 1 <=> S \ {x} # {}
<1>1. /\ Cardinality(S) \in Nat /\ IsFiniteSet(S \ {x})
      /\ Cardinality(S \ {x}) = Cardinality(S) - 1
  BY FS_CardinalityType, FS_RemoveElement
<1>2. Cardinality(S \ {x}) \in Nat /\ (Cardinality(S \ {x}) = 0 <=> S \ {x} = {})
  BY <1>1, FS_EmptySet, FS_CardinalityType
<1> QED
  BY <1>1, <1>2

\* The candidates of the cascade are the signals that are given, the strongest first.
LEMMA Candidacy ==
  ASSUME NEW signals
  PROVE  LET given == Chosen(Cascade, Mentioned(signals))
         IN /\ given \in Seq(Range(Cascade))
            /\ \A x : x \in Range(given) <=> \E i \in Given(signals) : Cascade[i] = x
            /\ given = <<>> <=> Given(signals) = {}
            /\ given # <<>> => given[1] = Cascade[Min(Given(signals))]
<1> DEFINE given == Chosen(Cascade, Mentioned(signals))
           G == Given(signals)
           n == Len(Cascade)
<1>1. /\ Cascade \in Seq(Range(Cascade)) /\ DOMAIN Cascade = 1 .. n /\ n \in Nat
      /\ \A i \in DOMAIN Cascade : Cascade[i] \in Mentioned(signals) <=> i \in G
  <2>1. Cascade \in Seq(Range(Cascade)) /\ ToSet(Cascade) = Range(Cascade)
    BY CascadeNames
  <2> QED
    BY <2>1 DEF Mentioned, Given, ToSet
<1>2. FoundWell(Cascade, Mentioned(signals), given, n)
  BY <1>1, ChosenWell
<1> HIDE DEF given, n
<1>3. /\ given \in Seq(Range(Cascade))
      /\ \A x : x \in Range(given) <=> \E i \in G : Cascade[i] = x
  BY <1>1, <1>2 DEF FoundWell, Given
<1>4. given = <<>> <=> Given(signals) = {}
  <2>1. given = <<>> <=> Range(given) = {}
    BY <1>3 DEF Range
  <2> QED
    BY <1>3, <2>1
<1>5. given # <<>> => given[1] = Cascade[Min(G)]
  <2> SUFFICES ASSUME given # <<>> PROVE given[1] = Cascade[Min(G)]
    OBVIOUS
  <2>1. PICK i \in 1 .. n : /\ i \in G /\ given[1] = Cascade[i]
                            /\ \A j \in 1 .. i - 1 : j \notin G
    BY <1>1, <1>2 DEF FoundWell
  <2>2. G \subseteq Nat /\ \A j \in G : i <= j
    BY <1>1, <2>1 DEF Given
  <2>3. \A j \in G : (\A y \in G : j <= y) => j = i
    BY <2>1, <2>2
  <2>4. Min(G) = i
    BY <2>1, <2>2, <2>3 DEF Min
  <2> QED
    BY <2>1, <2>4
<1> QED
  BY <1>3, <1>4, <1>5 DEF given

\* Only the empty sequence has no elements.
LEMMA EmptyRange ==
  ASSUME NEW S, NEW s \in Seq(S)
  PROVE  s = <<>> <=> Range(s) = {}
BY DEF Range

\* The alternatives are the candidates after the first that give another label.
LEMMA AlternativesOf ==
  ASSUME NEW signals, NEW S, NEW candidates \in Seq(S), candidates # <<>>
  PROVE  LET others == Alternatives(signals, candidates)
         IN /\ \A x : x \in ToSet(others) <=>
                        x \in Range(candidates) /\ signals[x] # signals[candidates[1]]
            /\ others = <<>> <=> ToSet(others) = {}
<1> DEFINE rest == Tail(candidates)
           label == signals[candidates[1]]
           kept == {s \in ToSet(candidates) : signals[s] # signals[Head(candidates)]}
           others == Chosen(rest, kept)
           n == Len(rest)
<1>1. /\ Head(candidates) = candidates[1] /\ n = Len(candidates) - 1
      /\ n \in Nat /\ rest \in Seq(S) /\ \A i \in 1 .. n : rest[i] = candidates[i + 1]
      /\ DOMAIN candidates = 1 .. n + 1 /\ DOMAIN rest = 1 .. n
  OBVIOUS
<1>2. \A s : s \in kept <=> s \in Range(candidates) /\ signals[s] # label
  BY <1>1 DEF ToSet, Range
<1> HIDE DEF rest, kept, n, label
<1>3. rest \in Seq(Range(rest))
  BY <1>1 DEF Range
<1>4. FoundWell(rest, kept, others, n)
  BY <1>3, ChosenWell DEF n
<1> HIDE DEF others
<1>5. others \in Seq(Range(rest)) /\ ToSet(others) = Range(others)
  BY <1>4 DEF FoundWell, ToSet, Range
<1>6. \A x : x \in Range(others) <=> x \in kept /\ \E i \in 1 .. n : rest[i] = x
  BY <1>4 DEF FoundWell
<1>7. \A x \in kept : \E i \in 1 .. n : rest[i] = x
  <2> SUFFICES ASSUME NEW x \in kept PROVE \E i \in 1 .. n : rest[i] = x
    OBVIOUS
  <2>1. PICK i \in 1 .. n + 1 : candidates[i] = x
    BY <1>1, <1>2 DEF Range
  <2>2. i # 1
    BY <1>2, <2>1 DEF label
  <2>3. i - 1 \in 1 .. n /\ i - 1 + 1 = i
    BY <1>1, <2>2
  <2> QED
    BY <1>1, <2>1, <2>3
<1>8. others = <<>> <=> Range(others) = {}
  BY <1>5, EmptyRange
<1>9. Alternatives(signals, candidates) = others
  BY DEF Alternatives, others, rest, kept
<1> QED
  BY <1>2, <1>5, <1>6, <1>7, <1>8, <1>9 DEF label

\* The label of a file is that of its strongest signal, an alternative another one,
\* and the confidence is that of the rule, whose number is compared as text.
THEOREM ClassificationAlwaysMeans == Spec => []ClassificationMeans
<1>1. ClassificationMeans
  <2> DEFINE signals == input
             given == Chosen(Cascade, Mentioned(signals))
             candidates == Candidates(signals)
             result == Classify(signals)
             G == Given(signals)
             Labels == {signals[Cascade[i]] : i \in G}
             others == Alternatives(signals, candidates)
  <2>1. /\ given \in Seq(Range(Cascade))
        /\ \A x : x \in Range(given) <=> \E i \in G : Cascade[i] = x
        /\ given = <<>> <=> G = {}
        /\ given # <<>> => given[1] = Cascade[Min(G)]
    BY Candidacy
  <2>2. /\ given # <<>> => candidates = given
        /\ given = <<>> /\ signals.content # NoLabel => candidates = <<"content">>
        /\ given = <<>> /\ ~(signals.content # NoLabel) => candidates = <<>>
    BY DEF Candidates, Mentioned
  <2>3. candidates # <<>> =>
          /\ result.primary = signals[Head(candidates)] /\ result.evidence = Head(candidates)
          /\ result.alternatives = others /\ result.confidence = Confidence(Head(candidates))
    BY DEF Classify, Confidence
  <2>4. candidates = <<>> =>
          /\ result.primary = NoLabel /\ result.evidence = NoLabel
          /\ result.alternatives = <<>> /\ result.confidence = NoLabel
    BY DEF Classify
  <2>5. NoLabel \notin {"low", "medium", "content", "modeline", "extension", "structured"}
    BY Zenon DEF NoLabel
  <2> HIDE DEF given, candidates, result, G, others
  <2>6. /\ G # {} => /\ result.primary = signals[Cascade[Min(G)]]
                     /\ result.alternatives # <<>> <=> Cardinality(Labels) > 1
                     /\ {signals[s] : s \in ToSet(result.alternatives)} = Labels \ {result.primary}
        /\ G # {} => /\ result.evidence \in Range(Cascade)
                     /\ result.confidence = Confidence(result.evidence)
    <3> SUFFICES ASSUME G # {}
                 PROVE  /\ result.primary = signals[Cascade[Min(G)]]
                        /\ result.alternatives # <<>> <=> Cardinality(Labels) > 1
                        /\ {signals[s] : s \in ToSet(result.alternatives)} = Labels \ {result.primary}
                        /\ result.evidence \in Range(Cascade)
                        /\ result.confidence = Confidence(result.evidence)
      OBVIOUS
    <3>1. /\ given # <<>> /\ candidates = given /\ Head(given) = given[1]
          /\ given[1] \in Range(given)
      BY <2>1, <2>2 DEF Range
    <3>2. /\ result.primary = signals[given[1]] /\ result.evidence = given[1]
          /\ result.alternatives = others /\ result.confidence = Confidence(given[1])
      BY <2>3, <3>1
    <3>3. /\ \A x : x \in ToSet(others) <=> x \in Range(given) /\ signals[x] # signals[given[1]]
          /\ others = <<>> <=> ToSet(others) = {}
      BY <2>1, <3>1, AlternativesOf DEF others
    <3>4. \A l : l \in Labels <=> \E x \in Range(given) : l = signals[x]
      BY <2>1
    <3>5. result.primary \in Labels
      BY <3>1, <3>2, <3>4
    <3>6. IsFiniteSet(Labels)
      <4>1. IsFiniteSet(G)
        <5> DEFINE n == Len(Cascade)
        <5>1. G \subseteq 1 .. n /\ n \in Nat
          <6>1. Cascade \in Seq(Range(Cascade))
            BY CascadeNames
          <6> QED
            BY <6>1 DEF G, Given
        <5> HIDE DEF n
        <5>2. IsFiniteSet(1 .. n)
          BY <5>1, FS_Interval
        <5> QED
          BY <5>1, <5>2, FS_Subset
      <4> DEFINE f == [i \in G |-> signals[Cascade[i]]]
      <4>2. f \in Surjection(G, Labels)
        BY DEF Surjection
      <4> QED
        BY <4>1, <4>2, FS_Surjection
    <3> HIDE DEF Labels
    <3> DEFINE P == {signals[s] : s \in ToSet(result.alternatives)}
    <3>7. \A l : l \in P <=> l \in Labels /\ l # result.primary
      BY <3>2, <3>3, <3>4
    <3>8. P = {} <=> result.alternatives = <<>>
      BY <3>2, <3>3
    <3> HIDE DEF P
    <3>9. P = Labels \ {result.primary}
      BY <3>7
    <3>10. result.alternatives # <<>> <=> Cardinality(Labels) > 1
      BY <3>5, <3>6, <3>8, <3>9, MoreThanOne
    <3>11. given[1] \in Range(Cascade)
      BY <2>1, <3>1 DEF Range
    <3> QED
      BY <2>1, <3>1, <3>2, <3>9, <3>10, <3>11 DEF P
  <2>7. G = {} => /\ result.primary = signals.content /\ result.alternatives = <<>>
                  /\ \/ result.evidence = "content" /\ result.confidence = Confidence("content")
                     \/ result.evidence = NoLabel /\ result.confidence = NoLabel
    <3> SUFFICES ASSUME G = {}
                 PROVE  /\ result.primary = signals.content /\ result.alternatives = <<>>
                        /\ \/ result.evidence = "content" /\ result.confidence = Confidence("content")
                           \/ result.evidence = NoLabel /\ result.confidence = NoLabel
      OBVIOUS
    <3>1. CASE signals.content # NoLabel
      <4> DEFINE name == "content"
                 only == <<name>>
      <4>1. candidates = only
        BY <2>1, <2>2, <3>1
      <4> HIDE DEF name
      <4>2. Head(only) = name /\ Tail(only) = <<>> /\ only # <<>> /\ only \in Seq({name})
            /\ only[1] = name /\ Range(only) = {name}
        BY DEF Range
      <4> HIDE DEF only
      <4>3. /\ result.primary = signals[name] /\ result.evidence = name
            /\ result.alternatives = others /\ result.confidence = Confidence(name)
        BY <2>3, <4>1, <4>2
      <4>4. others = <<>>
        <5>1. /\ \A x : x \in ToSet(others) <=> x \in Range(only) /\ signals[x] # signals[only[1]]
              /\ others = <<>> <=> ToSet(others) = {}
          BY <4>1, <4>2, AlternativesOf DEF others
        <5> QED
          BY <4>2, <5>1
      <4> QED
        BY <4>3, <4>4 DEF name
    <3>2. CASE ~(signals.content # NoLabel)
      BY <2>1, <2>2, <2>4, <3>2
    <3> QED
      BY <3>1, <3>2
  <2>8. /\ result.confidence = "medium" <=> result.evidence \in {"modeline", "extension", "structured"}
        /\ result.evidence = "content" => result.confidence = "high"
        /\ result.confidence # "low"
    <3>1. CASE G # {}
      BY <2>6, <3>1, CascadeNames, Worth
    <3>2. CASE G = {}
      BY <2>5, <2>7, <3>2, Worth
    <3> QED
      BY <3>1, <3>2
  <2> QED
    BY <2>6, <2>7, <2>8, Zenon DEF ClassificationMeans, G, Given, result
<1> QED
  BY <1>1, PTL
-----------------------------------------------------------------------------
(* collect_git_file_status                                                  *)

\* What an entry is printed as.
Own(e) == [code |-> e.code, path |-> e.path]

PrintTurn(c, text, e) == text \o <<[code |-> e.code, path |-> e.path]>>
                              \o (IF e.from = NoPath THEN <<>> ELSE <<Split[e.from]>>)
Prints == INSTANCE Loops WITH Op <- PrintTurn

TokenTurn(c, read, token) == TakeToken(read, token)
Takes == INSTANCE Loops WITH Op <- TokenTurn

\* git prints its entries in a loop.
LEMMA TokensRun ==
  ASSUME NEW entries
  PROVE  Tokens(entries) = Prints!Run(0, <<>>, entries)
BY DEF Tokens, Prints!Run, PrintTurn, FoldLeft, MapThenFoldSet, Max, Prints!Max

\* file_statuses takes the tokens in a loop.
LEMMA TakesRun ==
  ASSUME NEW base, NEW tokens
  PROVE  FoldLeft(TakeToken, base, tokens) = Takes!Run(0, base, tokens)
BY DEF Takes!Run, TokenTurn, FoldLeft, MapThenFoldSet, Max, Takes!Max

Unread(tracked) ==
  [skip |-> FALSE, status |-> [p \in tracked |-> [porcelain |-> <<>>, flags |-> {"tracked"}]]]

\* What the loop has after the tokens of the first k entries.
Text(entries, k) == Prints!Run(0, <<>>, SubSeq(entries, 1, k))
Read(tracked, entries, k) == Takes!Run(0, Unread(tracked), Text(entries, k))

\* The loop takes an entry as a whole.
TakeEntry(read, e) ==
  IF e.from = NoPath THEN TakeToken(read, Own(e))
  ELSE TakeToken(TakeToken(read, Own(e)), Split[e.from])

\* What git prints of one entry more: its own token, then the path it comes from.
LEMMA TextGrows ==
  ASSUME NEW S, NEW entries \in Seq(S), NEW k \in 1 .. Len(entries), NEW R,
         Text(entries, k - 1) \in Seq(R)
  PROVE  LET e == entries[k]
             once == Append(Text(entries, k - 1), Own(e))
         IN Text(entries, k) = IF e.from = NoPath THEN once ELSE Append(once, Split[e.from])
<1> DEFINE e == entries[k]
           text == Text(entries, k - 1)
           once == Append(text, Own(e))
           source == Split[e.from]
<1>1. Text(entries, k) = text \o <<Own(e)>> \o (IF e.from = NoPath THEN <<>> ELSE <<source>>)
  <2>1. Text(entries, k) = PrintTurn(0, text, e)
    BY Prints!Turn DEF Text
  <2> HIDE DEF e
  <2> QED
    BY <2>1 DEF PrintTurn, Own
<1>2. text \in Seq(R)
  OBVIOUS
<1> HIDE DEF text, e, source
<1>3. text \o <<Own(e)>> = once
  <2> DEFINE own == Own(e)
  <2> HIDE DEF own
  <2>1. text \o <<own>> = Append(text, own)
    BY <1>2
  <2> QED
    BY <2>1 DEF own
<1>4. once \in Seq(R \cup {Own(e)})
  <2> DEFINE own == Own(e)
  <2> HIDE DEF own
  <2>1. Append(text, own) \in Seq(R \cup {own})
    BY <1>2
  <2> QED
    BY <2>1 DEF own
<1> HIDE DEF once
<1>5. once \o <<>> = once /\ once \o <<source>> = Append(once, source)
  BY <1>4
<1> QED
  BY <1>1, <1>3, <1>5 DEF text, e, source, once

Words(entries) == {Own(entries[i]) : i \in DOMAIN entries}
                  \cup {Split[entries[i].from] : i \in DOMAIN entries}

\* Every token that git prints is of one of the entries.
LEMMA TextIsWords ==
  ASSUME NEW S, NEW entries \in Seq(S)
  PROVE  \A k \in 0 .. Len(entries) : Text(entries, k) \in Seq(Words(entries))
<1> DEFINE n == Len(entries)
           W == Words(entries)
           T == {k \in 0 .. n : Text(entries, k) \in Seq(W)}
<1>1. n \in Nat /\ DOMAIN entries = 1 .. n
  OBVIOUS
<1>2. 0 \in T
  <2> DEFINE none == <<>>
  <2>1. Text(entries, 0) = none
    BY Prints!Start DEF Text
  <2> HIDE DEF W
  <2>2. none \in Seq(W)
    OBVIOUS
  <2> HIDE DEF none
  <2>3. Text(entries, 0) \in Seq(W)
    BY <2>1, <2>2
  <2> QED
    BY <1>1, <2>3 DEF W
<1>3. \A k \in 1 .. n : k - 1 \in T => k \in T
  <2> SUFFICES ASSUME NEW k \in 1 .. n, k - 1 \in T PROVE k \in T
    OBVIOUS
  <2> DEFINE e == entries[k]
             own == Own(e)
             source == Split[e.from]
             text == Text(entries, k - 1)
             once == Append(text, own)
  <2>1. own \in W /\ source \in W
    BY <1>1 DEF Words
  <2>2. text \in Seq(W)
    OBVIOUS
  <2>3. Text(entries, k) = IF e.from = NoPath THEN once ELSE Append(once, source)
    BY <2>2, TextGrows
  <2> HIDE DEF W, e, own, source, text
  <2>4. once \in Seq(W)
    BY <2>1, <2>2
  <2> HIDE DEF once
  <2>5. Append(once, source) \in Seq(W)
    BY <2>1, <2>4
  <2>6. Text(entries, k) \in Seq(W)
    <3> DEFINE twice == Append(once, source)
    <3> HIDE DEF twice
    <3>1. CASE e.from = NoPath
      <4>1. Text(entries, k) = once
        BY <2>3, <3>1, Zenon DEF twice
      <4> QED
        BY <2>4, <4>1
    <3>2. CASE e.from # NoPath
      <4>1. Text(entries, k) = twice
        BY <2>3, <3>2, Zenon DEF twice
      <4> QED
        BY <2>5, <4>1 DEF twice
    <3> QED
      BY <3>1, <3>2
  <2> QED
    BY <1>1, <2>6
<1> HIDE DEF T, n
<1>4. \A k \in 0 .. n : k \in T
  BY <1>1, <1>2, <1>3, Prints!UpTo
<1> QED
  BY <1>4 DEF T, n

\* The loop over the tokens goes from entry to entry.
LEMMA EntryTaken ==
  ASSUME NEW S, NEW entries \in Seq(S), NEW k \in 1 .. Len(entries), NEW tracked
  PROVE  Read(tracked, entries, k) = TakeEntry(Read(tracked, entries, k - 1), entries[k])
<1> DEFINE e == entries[k]
           own == Own(e)
           source == Split[e.from]
           text == Text(entries, k - 1)
           once == Append(text, own)
           start == Unread(tracked)
           W == Words(entries) \cup {own}
           R(s) == Takes!Run(0, start, s)
<1>1. text \in Seq(Words(entries))
  <2>1. k - 1 \in 0 .. Len(entries)
    OBVIOUS
  <2> QED
    BY <2>1, TextIsWords
<1>2. Text(entries, k) = IF e.from = NoPath THEN once ELSE Append(once, source)
  BY <1>1, TextGrows
<1> HIDE DEF e, own, source, text, start
<1>3. once \in Seq(W)
  <2> DEFINE V == Words(entries)
  <2> HIDE DEF V
  <2>1. once \in Seq(V \cup {own})
    BY <1>1 DEF V
  <2> QED
    BY <2>1 DEF V
<1>4. R(once) = TakeToken(R(text), own)
  <2>1. R(once) = TokenTurn(0, R(text), own)
    BY <1>1, Takes!Longer
  <2> QED
    BY <2>1 DEF TokenTurn
<1> HIDE DEF once
<1>5. R(Append(once, source)) = TakeToken(R(once), source)
  <2>1. R(Append(once, source)) = TokenTurn(0, R(once), source)
    BY <1>3, Takes!Longer
  <2> QED
    BY <2>1 DEF TokenTurn
<1> DEFINE twice == Append(once, source)
<1> HIDE DEF twice
<1>6. CASE e.from = NoPath
  <2>1. Text(entries, k) = once
    BY <1>2, <1>6, Zenon DEF twice
  <2>2. Read(tracked, entries, k) = R(once)
    BY <2>1 DEF Read, start
  <2> QED
    BY <1>4, <1>6, <2>2 DEF TakeEntry, Read, text, own, e, start
<1>7. CASE e.from # NoPath
  <2>1. Text(entries, k) = twice
    BY <1>2, <1>7, Zenon DEF twice
  <2>2. Read(tracked, entries, k) = R(twice)
    BY <2>1 DEF Read, start
  <2>3. R(twice) = TakeToken(R(once), source)
    BY <1>5 DEF twice
  <2> QED
    BY <1>4, <1>7, <2>2, <2>3 DEF TakeEntry, Read, text, own, e, start, source
<1> QED
  BY <1>6, <1>7

\* What the loop goes by: a mark and a record for each path.
ReadShape(read) == read = [skip |-> read.skip, status |-> read.status]

\* The record of a path is made or changed, and no other.
Makes(status, token, next) ==
  /\ DOMAIN next = DOMAIN status \cup {token.path}
  /\ next[token.path].porcelain = token.code
  /\ \A f : f \in next[token.path].flags <=>
              \/ token.path \in DOMAIN status /\ f \in status[token.path].flags
              \/ f = Flag(token.code)
  /\ \A p \in DOMAIN status : p # token.path => next[p] = status[p]

\* A note sets the status of one path and leaves the others alone.
LEMMA NoteMakes ==
  ASSUME NEW status, NEW token
  PROVE  Makes(status, token, Note(status, token))
<1> SUFFICES ASSUME NEW next, next = Note(status, token) PROVE Makes(status, token, next)
  OBVIOUS
<1> DEFINE path == token.path
           record == [porcelain |-> token.code, flags |-> Flags(status, path) \cup {Flag(token.code)}]
<1>1. next = [p \in DOMAIN status \cup {path} |-> IF p = path THEN record ELSE status[p]]
  BY DEF Note
<1>2. /\ record.porcelain = token.code
      /\ record.flags = Flags(status, path) \cup {Flag(token.code)}
  OBVIOUS
<1> HIDE DEF record, path
<1>3. /\ DOMAIN next = DOMAIN status \cup {path} /\ next[path] = record
      /\ \A p \in DOMAIN status : p # path => next[p] = status[p]
  BY <1>1
<1>4. \A f : f \in Flags(status, path) <=> path \in DOMAIN status /\ f \in status[path].flags
  BY DEF Flags
<1> QED
  BY <1>2, <1>3, <1>4 DEF path, Makes

\* A token is a source, too short, or the entry of a path.
LEMMA TokenTaken ==
  ASSUME NEW read, ReadShape(read), NEW token, NEW next, next = TakeToken(read, token)
  PROVE  /\ ReadShape(next)
         /\ read.skip => next.status = read.status /\ ~next.skip
         /\ ~read.skip /\ token.path = NoPath => next = read
         /\ ~read.skip /\ token.path # NoPath =>
              next.status = Note(read.status, token) /\ (next.skip <=> HasSource(token.code))
<1> DEFINE status == read.status
           skip == read.skip
           after == Note(status, token)
           source == HasSource(token.code)
<1>1. read = [skip |-> skip, status |-> status]
  BY DEF ReadShape
<1>2. CASE skip
  <2>1. next = [read EXCEPT !.skip = FALSE]
    BY <1>2 DEF TakeToken
  <2> HIDE DEF status, skip
  <2>2. next = [skip |-> FALSE, status |-> status]
    BY <1>1, <2>1
  <2>3. next = [skip |-> next.skip, status |-> next.status] /\ next.status = status /\ ~next.skip
    BY <2>2
  <2> QED
    BY <1>2, <2>3 DEF ReadShape, status, skip
<1>3. CASE ~skip /\ token.path = NoPath
  <2>1. next = read
    BY <1>3 DEF TakeToken
  <2> QED
    BY <1>3, <2>1
<1>4. CASE ~skip /\ token.path # NoPath
  <2>1. next = [skip |-> source, status |-> after]
    BY <1>4 DEF TakeToken
  <2> HIDE DEF after
  <2>2. /\ next = [skip |-> next.skip, status |-> next.status] /\ next.status = after
        /\ next.skip <=> source
    BY <2>1
  <2> QED
    BY <1>4, <2>2 DEF ReadShape, after
<1> QED
  BY <1>2, <1>3, <1>4

\* The tracked paths are marked, and only they.
Tracks(tracked, status) ==
  /\ tracked \subseteq DOMAIN status
  /\ \A p \in DOMAIN status : "tracked" \in status[p].flags <=> p \in tracked

\* What is there stays there, with its record unless that of `path` is changed.
Keeps(status, next, path) ==
  /\ DOMAIN status \subseteq DOMAIN next
  /\ \A p \in DOMAIN status : p # path => next[p] = status[p]

\* No status that a token gives is the one a tracked path starts with.
LEMMA FlagsApart ==
  ASSUME NEW code
  PROVE  Flag(code) # "tracked"
BY DEF Flag

\* A token leaves the tracked paths known, and all but its own path as it was.
LEMMA TokenKeeps ==
  ASSUME NEW read, ReadShape(read), NEW token, NEW tracked, Tracks(tracked, read.status),
         NEW next, next = TakeToken(read, token)
  PROVE  Tracks(tracked, next.status) /\ Keeps(read.status, next.status, token.path)
<1> DEFINE status == read.status
           after == next.status
<1>1. CASE after = status
  BY <1>1 DEF Keeps
<1>2. CASE after = Note(status, token)
  <2> HIDE DEF after, status
  <2>1. /\ DOMAIN after = DOMAIN status \cup {token.path}
        /\ \A f : f \in after[token.path].flags <=>
                    \/ token.path \in DOMAIN status /\ f \in status[token.path].flags
                    \/ f = Flag(token.code)
        /\ \A p \in DOMAIN status : p # token.path => after[p] = status[p]
    <3>1. Makes(status, token, after)
      BY <1>2, NoteMakes
    <3> QED
      BY <3>1 DEF Makes
  <2>2. Keeps(status, after, token.path)
    BY <2>1 DEF Keeps
  <2>3. Tracks(tracked, status) /\ Flag(token.code) # "tracked"
    BY FlagsApart DEF status
  <2>4. Tracks(tracked, after)
    BY <2>1, <2>3 DEF Tracks
  <2> QED
    BY <2>2, <2>4 DEF after, status
<1> QED
  BY <1>1, <1>2, TokenTaken

\* An entry and its source leave the records of other paths alone.
Spares(tracked, read, e, next) ==
  /\ ReadShape(next) /\ Tracks(tracked, next.status)
  /\ DOMAIN read.status \subseteq DOMAIN next.status
  /\ \A p \in DOMAIN read.status :
       p # e.path /\ (e.from = NoPath \/ p # Split[e.from].path) => next.status[p] = read.status[p]

\* So does an entry, but for its own path and the one it comes from.
LEMMA EntryKeeps ==
  ASSUME NEW read, ReadShape(read), NEW tracked, Tracks(tracked, read.status),
         NEW e, NEW next, next = TakeEntry(read, e)
  PROVE  Spares(tracked, read, e, next)
<1> DEFINE once == TakeToken(read, Own(e))
           twice == TakeToken(once, Split[e.from])
<1>1. ReadShape(once) /\ Tracks(tracked, once.status) /\ Keeps(read.status, once.status, Own(e).path)
  BY TokenTaken, TokenKeeps
<1>2. Own(e).path = e.path
  BY DEF Own
<1> HIDE DEF once
<1>3. /\ ReadShape(twice) /\ Tracks(tracked, twice.status)
      /\ Keeps(once.status, twice.status, Split[e.from].path)
  <2> DEFINE source == Split[e.from]
  <2> HIDE DEF source
  <2>1. ReadShape(twice)
    BY <1>1, TokenTaken DEF source
  <2>2. Tracks(tracked, twice.status) /\ Keeps(once.status, twice.status, source.path)
    BY <1>1, TokenKeeps DEF source
  <2> QED
    BY <2>1, <2>2 DEF source
<1> HIDE DEF twice
<1>4. CASE e.from = NoPath
  <2>1. next = once
    BY <1>4 DEF TakeEntry, once
  <2> QED
    BY <1>1, <1>2, <2>1, <1>4 DEF Keeps, Spares
<1>5. CASE e.from # NoPath
  <2>1. next = twice
    BY <1>5 DEF TakeEntry, once, twice
  <2> QED
    BY <1>1, <1>2, <1>3, <1>5, <2>1 DEF Keeps, Spares
<1> QED
  BY <1>4, <1>5

\* An entry that is not skipped has its record; and unless what it comes from is taken
\* for an entry, nothing else happens.
LEMMA EntryNoted ==
  ASSUME NEW read, ReadShape(read), ~read.skip,
         NEW e, e.path # NoPath, e.code[1] \in Moved => e.from # NoPath,
         NEW next, next = TakeEntry(read, e)
  PROVE  /\ e.path \in DOMAIN next.status
         /\ e.from = NoPath \/ e.code[1] \in Moved \/ Split[e.from].path # e.path =>
              next.status[e.path].porcelain = e.code
         /\ e.from = NoPath \/ e.code[1] \in Moved =>
              ~next.skip /\ Makes(read.status, Own(e), next.status)
         /\ e.from # NoPath /\ e.code[1] \notin Moved /\ Split[e.from].code[1] \notin Moved =>
              ~next.skip
<1> DEFINE own == Own(e)
           source == Split[e.from]
           once == TakeToken(read, own)
           twice == TakeToken(once, source)
<1>1. own.path = e.path /\ own.code = e.code /\ \A code : HasSource(code) <=> code[1] \in Moved
  BY DEF Own, HasSource
<1> HIDE DEF own
<1>2. /\ ReadShape(once) /\ once.status = Note(read.status, own)
      /\ once.skip <=> e.code[1] \in Moved
  BY <1>1, TokenTaken
<1>3. Makes(read.status, own, once.status)
  BY <1>2, NoteMakes
<1>4. /\ e.path \in DOMAIN once.status /\ once.status[e.path].porcelain = e.code
  BY <1>1, <1>3 DEF Makes
<1> HIDE DEF once
<1>5. /\ once.skip => twice.status = once.status /\ ~twice.skip
      /\ ~once.skip /\ source.path = NoPath => twice = once
      /\ ~once.skip /\ source.path # NoPath =>
           twice.status = Note(once.status, source) /\ (twice.skip <=> source.code[1] \in Moved)
  <2> HIDE DEF source
  <2>1. /\ once.skip => twice.status = once.status /\ ~twice.skip
        /\ ~once.skip /\ source.path = NoPath => twice = once
        /\ ~once.skip /\ source.path # NoPath =>
             twice.status = Note(once.status, source) /\ (twice.skip <=> HasSource(source.code))
    BY <1>2, TokenTaken
  <2>2. HasSource(source.code) <=> source.code[1] \in Moved
    BY DEF HasSource
  <2> QED
    BY <2>1, <2>2
<1> HIDE DEF twice
<1>6. CASE e.from = NoPath
  <2>1. next = once
    BY <1>6 DEF TakeEntry, once, own
  <2> QED
    BY <1>2, <1>3, <1>4, <1>6, <2>1 DEF own
<1>7. CASE e.from # NoPath /\ e.code[1] \in Moved
  <2>1. next = twice
    BY <1>7 DEF TakeEntry, once, twice, own
  <2> QED
    BY <1>2, <1>3, <1>4, <1>5, <1>7, <2>1 DEF own
<1>8. CASE e.from # NoPath /\ e.code[1] \notin Moved
  <2>1. next = twice
    BY <1>8 DEF TakeEntry, once, twice, own
  <2>2. CASE source.path = NoPath
    BY <1>2, <1>4, <1>5, <1>8, <2>1, <2>2
  <2>3. CASE source.path # NoPath
    <3>1. Makes(once.status, source, twice.status)
      BY <1>2, <1>5, <1>8, <2>3, NoteMakes
    <3>2. /\ DOMAIN twice.status = DOMAIN once.status \cup {source.path}
          /\ \A p \in DOMAIN once.status : p # source.path => twice.status[p] = once.status[p]
      BY <3>1 DEF Makes
    <3> QED
      BY <1>2, <1>4, <1>5, <1>8, <2>1, <2>3, <3>2
  <2> QED
    BY <2>2, <2>3
<1> QED
  BY <1>6, <1>7, <1>8

Strays(entries) == {i \in DOMAIN entries : entries[i].from # NoPath /\ entries[i].code[1] \notin Moved}
Derails(entries) == {i \in Strays(entries) : Split[entries[i].from].code[1] \in Moved}
IsCut(entries, path) == \E i \in DOMAIN entries : /\ entries[i].from # NoPath
                                                 /\ Split[entries[i].from].path = path
Sound(entries) == Strays(entries) = {}
OnTrack(entries, i) == \A j \in Derails(entries) : i <= j
Flagging == {"ignored", "untracked"}

\* What the status says of the first k entries.
Recorded(entries, status, k) ==
  \A i \in 1 .. k : OnTrack(entries, i) =>
    /\ entries[i].path \in DOMAIN status
    /\ Sound(entries) \/ ~IsCut(entries, entries[i].path) =>
         status[entries[i].path].porcelain = entries[i].code
NothingElse(tracked, entries, status, k) ==
  Sound(entries) => \A p \in DOMAIN status : p \in tracked \/ \E i \in 1 .. k : entries[i].path = p
FlagsSay(entries, status, k) ==
  Sound(entries) => \A p \in DOMAIN status, f \in Flagging :
    f \in status[p].flags <=> \E i \in 1 .. k : entries[i].path = p /\ Flag(entries[i].code) = f
StatusWell(tracked, entries, read, k) ==
  /\ ReadShape(read) /\ Tracks(tracked, read.status)
  /\ (\A j \in Derails(entries) : k < j) => ~read.skip
  /\ Recorded(entries, read.status, k)
  /\ NothingElse(tracked, entries, read.status, k)
  /\ FlagsSay(entries, read.status, k)

\* Entries as git prints them.
AsPrinted(entries) ==
  /\ entries \in Seq(ToSet(entries))
  /\ \A j, k \in DOMAIN entries : entries[j].path = entries[k].path => j = k
  /\ \A e \in ToSet(entries) : e.path # NoPath /\ (e.code[1] \in Moved => e.from # NoPath)

\* One entry more: what it sets is what git says, and what it spoils is within the
\* exception of StatusParsed.
LEMMA NextEntry ==
  ASSUME NEW entries, AsPrinted(entries), NEW k \in 1 .. Len(entries), NEW tracked,
         NEW read, StatusWell(tracked, entries, read, k - 1),
         NEW next, next = TakeEntry(read, entries[k])
  PROVE  StatusWell(tracked, entries, next, k)
<1> DEFINE e == entries[k]
           old == read.status
           new == next.status
           D == Derails(entries)
           path(i) == entries[i].path
           n == Len(entries)
<1>1. /\ n \in Nat /\ k \in Nat /\ k \in 1 .. n /\ DOMAIN entries = 1 .. n /\ k \in DOMAIN entries
      /\ D \subseteq Nat /\ Strays(entries) \subseteq 1 .. n /\ D \subseteq Strays(entries)
      /\ \A i : i \in 1 .. k <=> i \in 1 .. k - 1 \/ i = k
  <2>1. entries \in Seq(ToSet(entries))
    BY DEF AsPrinted
  <2>2. /\ n \in Nat /\ k \in Nat /\ k \in 1 .. n /\ DOMAIN entries = 1 .. n /\ k \in DOMAIN entries
        /\ \A i : i \in 1 .. k <=> i \in 1 .. k - 1 \/ i = k
    BY <2>1
  <2> QED
    BY <2>2 DEF Derails, Strays
<1>2. e.path # NoPath /\ (e.code[1] \in Moved => e.from # NoPath)
  BY <1>1 DEF AsPrinted, ToSet
<1>3. \A i \in 1 .. k - 1 : path(i) # e.path
  BY <1>1 DEF AsPrinted
<1>4. ReadShape(read) /\ Tracks(tracked, old)
  BY DEF StatusWell
<1>5. /\ ReadShape(next) /\ Tracks(tracked, new) /\ DOMAIN old \subseteq DOMAIN new
      /\ \A p \in DOMAIN old :
           p # e.path /\ (e.from = NoPath \/ p # Split[e.from].path) => new[p] = old[p]
  <2> HIDE DEF e
  <2>1. Spares(tracked, read, e, next)
    BY <1>4, EntryKeeps DEF e
  <2> QED
    BY <2>1 DEF Spares
<1>6. (\A j \in D : k <= j) => ~read.skip
  BY <1>1 DEF StatusWell
<1>7. ~read.skip =>
        /\ e.path \in DOMAIN new
        /\ e.from = NoPath \/ e.code[1] \in Moved \/ Split[e.from].path # e.path =>
             new[e.path].porcelain = e.code
        /\ e.from = NoPath \/ e.code[1] \in Moved =>
             ~next.skip /\ Makes(old, Own(e), new)
        /\ e.from # NoPath /\ e.code[1] \notin Moved /\ Split[e.from].code[1] \notin Moved =>
             ~next.skip
  <2> SUFFICES ASSUME ~read.skip
               PROVE  /\ e.path \in DOMAIN new
                      /\ e.from = NoPath \/ e.code[1] \in Moved \/ Split[e.from].path # e.path =>
                           new[e.path].porcelain = e.code
                      /\ e.from = NoPath \/ e.code[1] \in Moved =>
                           ~next.skip /\ Makes(old, Own(e), new)
                      /\ e.from # NoPath /\ e.code[1] \notin Moved /\ Split[e.from].code[1] \notin Moved =>
                           ~next.skip
    OBVIOUS
  <2> HIDE DEF e
  <2> QED
    BY <1>2, <1>4, EntryNoted DEF e
<1>8. /\ e.from # NoPath /\ e.code[1] \notin Moved <=> k \in Strays(entries)
      /\ k \in D <=> k \in Strays(entries) /\ Split[e.from].code[1] \in Moved
  BY <1>1 DEF Strays, Derails
<1>9. Sound(entries) => D = {} /\ (e.from = NoPath \/ e.code[1] \in Moved)
  BY <1>1, <1>8 DEF Sound
<1>10. e.from # NoPath => IsCut(entries, Split[e.from].path)
  BY <1>1 DEF IsCut
<1>11. Sound(entries) => Makes(old, Own(e), new)
  BY <1>6, <1>7, <1>9
<1> HIDE DEF D, old, new, e
<1>12. (\A j \in D : k < j) => ~next.skip
  BY <1>1, <1>6, <1>7, <1>8
<1>13. Recorded(entries, new, k)
  <2> SUFFICES ASSUME NEW i \in 1 .. k, OnTrack(entries, i)
               PROVE  /\ path(i) \in DOMAIN new
                      /\ Sound(entries) \/ ~IsCut(entries, path(i)) =>
                           new[path(i)].porcelain = entries[i].code
    BY DEF Recorded
  <2>1. CASE i = k
    <3>1. ~read.skip
      BY <1>6, <2>1 DEF OnTrack, D
    <3> QED
      BY <1>7, <1>9, <1>10, <2>1, <3>1 DEF e
  <2>2. CASE i \in 1 .. k - 1
    <3>1. /\ path(i) \in DOMAIN old
          /\ Sound(entries) \/ ~IsCut(entries, path(i)) => old[path(i)].porcelain = entries[i].code
      BY <2>2 DEF StatusWell, Recorded, old
    <3>2. Sound(entries) => new[path(i)] = old[path(i)]
      <4>1. Own(e).path = e.path
        BY DEF Own
      <4> QED
        BY <1>3, <1>11, <2>2, <3>1, <4>1 DEF Makes
    <3>3. ~IsCut(entries, path(i)) => new[path(i)] = old[path(i)]
      BY <1>3, <1>5, <1>10, <2>2, <3>1
    <3> QED
      BY <1>5, <3>1, <3>2, <3>3
  <2> QED
    BY <1>1, <2>1, <2>2
<1>14. NothingElse(tracked, entries, new, k)
  <2> SUFFICES ASSUME Sound(entries), NEW p \in DOMAIN new
               PROVE  p \in tracked \/ \E i \in 1 .. k : path(i) = p
    BY DEF NothingElse
  <2>1. p \in DOMAIN old \/ p = e.path
    BY <1>11 DEF Makes, Own
  <2>2. p \in DOMAIN old => p \in tracked \/ \E i \in 1 .. k - 1 : path(i) = p
    BY DEF StatusWell, NothingElse, old
  <2>3. p = e.path => \E i \in 1 .. k : path(i) = p
    BY <1>1 DEF e
  <2> QED
    BY <1>1, <2>1, <2>2, <2>3
<1>15. FlagsSay(entries, new, k)
  <2> SUFFICES ASSUME Sound(entries), NEW p \in DOMAIN new, NEW f \in Flagging
               PROVE  f \in new[p].flags <=>
                        \E i \in 1 .. k : path(i) = p /\ Flag(entries[i].code) = f
    BY DEF FlagsSay
  <2>1. p \in DOMAIN old => (f \in old[p].flags <=>
                               \E i \in 1 .. k - 1 : path(i) = p /\ Flag(entries[i].code) = f)
    BY DEF StatusWell, FlagsSay, old
  <2>2. Own(e).path = e.path /\ Own(e).code = e.code
    BY DEF Own
  <2>3. CASE p = e.path
    <3>1. \A i \in 1 .. k : path(i) = p => i = k
      BY <1>1, <1>3, <2>3
    <3>2. f \in new[p].flags <=> (p \in DOMAIN old /\ f \in old[p].flags) \/ f = Flag(e.code)
      BY <1>11, <2>2, <2>3 DEF Makes
    <3>3. ~(p \in DOMAIN old /\ f \in old[p].flags)
      BY <1>1, <1>3, <2>1, <2>3
    <3>4. (\E i \in 1 .. k : path(i) = p /\ Flag(entries[i].code) = f) <=> Flag(e.code) = f
      BY <1>1, <2>3, <3>1 DEF e
    <3> QED
      BY <3>2, <3>3, <3>4
  <2>4. CASE p # e.path
    <3>1. p \in DOMAIN old /\ new[p] = old[p]
      BY <1>11, <2>2, <2>4 DEF Makes
    <3>2. path(k) # p
      BY <2>4 DEF e
    <3> QED
      BY <1>1, <2>1, <3>1, <3>2
  <2> QED
    BY <2>3, <2>4
<1> QED
  BY <1>5, <1>12, <1>13, <1>14, <1>15 DEF StatusWell, new, D

\* All entries.
LEMMA StatusAlwaysWell ==
  ASSUME NEW entries, AsPrinted(entries), NEW tracked
  PROVE  StatusWell(tracked, entries, Read(tracked, entries, Len(entries)), Len(entries))
<1> DEFINE n == Len(entries)
           T == {k \in 0 .. n : StatusWell(tracked, entries, Read(tracked, entries, k), k)}
<1>1. n \in Nat /\ entries \in Seq(ToSet(entries))
  BY DEF AsPrinted
<1>2. 0 \in T
  <2> DEFINE base == Unread(tracked)
             record == [porcelain |-> <<>>, flags |-> {"tracked"}]
             first == [p \in tracked |-> record]
  <2>1. Read(tracked, entries, 0) = base
    <3> DEFINE none == <<>>
    <3>1. Text(entries, 0) = none
      BY <1>1, Prints!Start DEF Text
    <3>2. none \in Seq({}) /\ SubSeq(none, 1, 0) = none
      OBVIOUS
    <3> HIDE DEF none, base
    <3>3. Takes!Run(0, base, SubSeq(none, 1, 0)) = base
      BY <3>2, Takes!Start
    <3> QED
      BY <3>1, <3>2, <3>3 DEF Read, base
  <2>2. base = [skip |-> FALSE, status |-> first]
    BY DEF Unread
  <2> HIDE DEF first, base
  <2>3. base = [skip |-> base.skip, status |-> base.status] /\ ~base.skip /\ base.status = first
    BY <2>2
  <2>4. DOMAIN first = tracked /\ \A p \in tracked : first[p] = record
    BY DEF first
  <2>5. record.flags = {"tracked"}
    OBVIOUS
  <2>6. "tracked" \notin Flagging
    BY DEF Flagging
  <2> HIDE DEF record
  <2>7. Tracks(tracked, first)
    BY <2>4, <2>5 DEF Tracks
  <2>8. \A i \in 1 .. 0 : FALSE
    OBVIOUS
  <2>9. Recorded(entries, first, 0) /\ NothingElse(tracked, entries, first, 0)
    BY <2>4, <2>8 DEF Recorded, NothingElse
  <2>10. FlagsSay(entries, first, 0)
    BY <2>4, <2>5, <2>6, <2>8 DEF FlagsSay
  <2>11. StatusWell(tracked, entries, base, 0)
    BY <2>3, <2>7, <2>9, <2>10 DEF StatusWell, ReadShape
  <2> QED
    BY <1>1, <2>1, <2>11
<1>3. \A k \in 1 .. n : k - 1 \in T => k \in T
  <2> SUFFICES ASSUME NEW k \in 1 .. n, k - 1 \in T PROVE k \in T
    OBVIOUS
  <2>1. Read(tracked, entries, k) = TakeEntry(Read(tracked, entries, k - 1), entries[k])
    BY <1>1, EntryTaken
  <2>2. StatusWell(tracked, entries, Read(tracked, entries, k), k)
    BY <2>1, NextEntry
  <2> QED
    BY <1>1, <2>2
<1> HIDE DEF T
<1>4. n \in T
  <2> HIDE DEF n
  <2>1. \A k \in 0 .. n : k \in T
    BY <1>1, <1>2, <1>3, Takes!UpTo
  <2> QED
    BY <1>1, <2>1
<1> QED
  BY <1>4 DEF T

\* The status of the last entry is that of the file status.
LEMMA StatusRead ==
  ASSUME NEW entries, AsPrinted(entries), NEW tracked
  PROVE  FileStatus(tracked, entries) = Read(tracked, entries, Len(entries)).status
<1> DEFINE n == Len(entries)
           tokens == Tokens(entries)
           base == Unread(tracked)
<1>1. entries \in Seq(ToSet(entries))
  BY DEF AsPrinted
<1>2. Text(entries, n) = tokens
  BY <1>1, Prints!Finish, TokensRun DEF Text
<1>3. FileStatus(tracked, entries) = FoldLeft(TakeToken, base, tokens).status
  BY DEF FileStatus, Unread
<1> HIDE DEF tokens, base
<1>4. FoldLeft(TakeToken, base, tokens) = Takes!Run(0, base, tokens)
  BY TakesRun
<1>5. Read(tracked, entries, n) = Takes!Run(0, base, tokens)
  BY <1>2 DEF Read, base
<1> QED
  BY <1>3, <1>4, <1>5

\* The file status has what git printed, whatever the paths are, unless a path is cut
\* out of one that an entry comes from.
THEOREM StatusAlwaysParsed == Spec => []StatusParsed
<1>1. Picked => StatusParsed
  <2> SUFFICES ASSUME about = "status", input \in StatusInputs PROVE StatusParsed
    BY DEF Picked, StatusParsed
  <2> DEFINE entries == input.entries
             tracked == input.tracked
             status == FileStatus(tracked, entries)
             n == Len(entries)
  <2>1. AsPrinted(entries)
    BY StatusInputAssumption DEF AsPrinted
  <2>2. DOMAIN entries = 1 .. n
    <3>1. entries \in Seq(ToSet(entries))
      BY <2>1 DEF AsPrinted
    <3> QED
      BY <3>1
  <2>3. StatusWell(tracked, entries, Read(tracked, entries, n), n)
    BY <2>1, StatusAlwaysWell
  <2>4. status = Read(tracked, entries, n).status
    BY <2>1, StatusRead
  <2>5. /\ Tracks(tracked, status) /\ Recorded(entries, status, n)
        /\ NothingElse(tracked, entries, status, n) /\ FlagsSay(entries, status, n)
    BY <2>3, <2>4 DEF StatusWell
  <2> HIDE DEF entries, tracked, status, n
  <2> DEFINE Flagged(f) == {p \in DOMAIN status : f \in status[p].flags}
             Named == {entries[i].path : i \in DOMAIN entries}
  <2>6. \A i \in DOMAIN entries : OnTrack(entries, i) =>
          /\ entries[i].path \in DOMAIN status
          /\ Sound(entries) \/ ~IsCut(entries, entries[i].path) =>
               status[entries[i].path].porcelain = entries[i].code
    BY <2>2, <2>5 DEF Recorded
  <2>7. (DOMAIN status) \ (tracked \cup Named) # {} => ~Sound(entries)
    BY <2>2, <2>5 DEF NothingElse
  <2>8. Flagged("tracked") = tracked
    BY <2>5 DEF Tracks
  <2>9. ASSUME Sound(entries), NEW i \in DOMAIN entries, NEW f \in Flagging
        PROVE  Flag(entries[i].code) = f <=> entries[i].path \in Flagged(f)
    <3>1. OnTrack(entries, i)
      BY <2>9 DEF OnTrack, Sound, Derails
    <3>2. entries[i].path \in DOMAIN status
      BY <2>6, <3>1
    <3>3. \A j \in DOMAIN entries : entries[j].path = entries[i].path => j = i
      BY <2>1 DEF AsPrinted
    <3> QED
      BY <2>2, <2>5, <2>9, <3>2, <3>3 DEF FlagsSay
  <2>10. \A code : /\ Flag(code) = "ignored" <=> code = <<"!", "!">>
                   /\ Flag(code) = "untracked" <=> code = <<"?", "?">>
    BY DEF Flag
  <2>11. Sound(entries) => \A i \in DOMAIN entries :
           /\ entries[i].code = <<"!", "!">> <=> entries[i].path \in Flagged("ignored")
           /\ entries[i].code = <<"?", "?">> <=> entries[i].path \in Flagged("untracked")
    BY <2>9, <2>10 DEF Flagging
  <2> QED
    BY <2>6, <2>7, <2>8, <2>11 DEF StatusParsed, OnTrack, Sound, IsCut, Strays, Derails, Flagged,
                                   Named, entries, tracked, status
<1> QED
  BY <1>1, PickedFromInputs, PTL
-----------------------------------------------------------------------------
(* inventory.load_gitattributes and match_gitattributes                     *)

AttrTurn(c, attrs, t) ==
  IF t.sign = "none" THEN Updated(attrs, [key \in {t.key} |-> t.value]) ELSE attrs
AttrTokens == INSTANCE Loops WITH Op <- AttrTurn

RuleOf(f, l) == [base |-> f.base, hits |-> l.hits, attrs |-> Attrs(l)]
RuleTurn(f, found, l) == IF DOMAIN Attrs(l) = {} THEN found ELSE Append(found, RuleOf(f, l))
FileRules == INSTANCE Loops WITH Op <- RuleTurn

FilesTurn(c, rules, f) == RulesIn(rules, f)
AllRules == INSTANCE Loops WITH Op <- FilesTurn

MatchTurn(path, result, r) ==
  IF IsPrefix(r.base, path) /\ path \in r.hits THEN Updated(result, r.attrs) ELSE result
Matches == INSTANCE Loops WITH Op <- MatchTurn

\* load_gitattributes goes over the files, their lines and the tokens of these in
\* loops, match_gitattributes over the rules.
LEMMA AttributesRun ==
  /\ \A line : Attrs(line) = AttrTokens!Run(0, <<>>, line.tokens)
  /\ \A rules, f : RulesIn(rules, f) = FileRules!Run(f, rules, f.lines)
  /\ \A files : LoadGitattributes(files) = AllRules!Run(0, <<>>, InOrder(files, AttrOrder))
  /\ \A rules, path : MatchGitattributes(rules, path) = Matches!Run(path, <<>>, rules)
<1>1. \A line : Attrs(line) = AttrTokens!Run(0, <<>>, line.tokens)
  BY DEF Attrs, AttrTokens!Run, AttrTurn, FoldLeft, MapThenFoldSet, Max, AttrTokens!Max
<1>2. \A rules, f : RulesIn(rules, f) = FileRules!Run(f, rules, f.lines)
  BY DEF RulesIn, FileRules!Run, RuleTurn, RuleOf, FoldLeft, MapThenFoldSet, Max, FileRules!Max
<1>3. \A files : LoadGitattributes(files) = AllRules!Run(0, <<>>, InOrder(files, AttrOrder))
  BY DEF LoadGitattributes, AllRules!Run, FilesTurn, FoldLeft, MapThenFoldSet, Max, AllRules!Max
<1>4. \A rules, path : MatchGitattributes(rules, path) = Matches!Run(path, <<>>, rules)
  BY DEF MatchGitattributes, Matches!Run, MatchTurn, FoldLeft, MapThenFoldSet, Max, Matches!Max
<1> QED
  BY <1>1, <1>2, <1>3, <1>4

\* What an update changes and what it keeps.
LEMMA UpdatedHas ==
  ASSUME NEW result, NEW attrs, NEW key
  PROVE  /\ key \in DOMAIN Updated(result, attrs) <=> key \in DOMAIN result \/ key \in DOMAIN attrs
         /\ key \in DOMAIN attrs => Updated(result, attrs)[key] = attrs[key]
         /\ key \in DOMAIN result /\ key \notin DOMAIN attrs => Updated(result, attrs)[key] = result[key]
BY DEF Updated

\* What the first k tokens state: a key that one of them has, and the value of one.
TokensSay(tokens, attrs, k) ==
  \A key : /\ key \in DOMAIN attrs <=> \E i \in 1 .. k : tokens[i].key = key
           /\ key \in DOMAIN attrs => \E i \in 1 .. k : tokens[i].key = key /\ tokens[i].value = attrs[key]

\* One token more.
LEMMA TokenSays ==
  ASSUME NEW tokens, NEW k \in Nat \ {0}, NEW attrs, TokensSay(tokens, attrs, k - 1),
         tokens[k].sign = "none"
  PROVE  TokensSay(tokens, AttrTurn(0, attrs, tokens[k]), k)
<1> DEFINE t == tokens[k]
           it == [key \in {t.key} |-> t.value]
           next == Updated(attrs, it)
<1>1. AttrTurn(0, attrs, t) = next
  BY DEF AttrTurn
<1>2. DOMAIN it = {t.key} /\ it[t.key] = t.value
  OBVIOUS
<1>3. \A i \in 1 .. k : i \in 1 .. k - 1 \/ i = k
  OBVIOUS
<1>4. k \in 1 .. k /\ \A i \in 1 .. k - 1 : i \in 1 .. k
  OBVIOUS
<1> HIDE DEF it
<1>5. ASSUME NEW key
      PROVE  /\ key \in DOMAIN next <=> \E i \in 1 .. k : tokens[i].key = key
             /\ key \in DOMAIN next => \E i \in 1 .. k : tokens[i].key = key /\ tokens[i].value = next[key]
  <2>1. /\ key \in DOMAIN next <=> key \in DOMAIN attrs \/ key = t.key
        /\ key = t.key => next[key] = t.value
        /\ key \in DOMAIN attrs /\ key # t.key => next[key] = attrs[key]
    BY <1>2, UpdatedHas
  <2>2. /\ key \in DOMAIN attrs <=> \E i \in 1 .. k - 1 : tokens[i].key = key
        /\ key \in DOMAIN attrs => \E i \in 1 .. k - 1 : tokens[i].key = key /\ tokens[i].value = attrs[key]
    BY DEF TokensSay
  <2> HIDE DEF next
  <2> QED
    BY <1>3, <1>4, <2>1, <2>2
<1> HIDE DEF next
<1> QED
  BY <1>1, <1>5 DEF TokensSay

\* A line sets the keys that its tokens have, each to the value of one that has it.
LEMMA AttrsSay ==
  ASSUME NEW line, line.tokens \in Seq(ToSet(line.tokens)),
         \A t \in ToSet(line.tokens) : t.sign = "none", NEW key
  PROVE  /\ key \in DOMAIN Attrs(line) <=> \E t \in ToSet(line.tokens) : t.key = key
         /\ key \in DOMAIN Attrs(line) =>
              \E t \in ToSet(line.tokens) : t.key = key /\ t.value = Attrs(line)[key]
<1> DEFINE tokens == line.tokens
           S == ToSet(tokens)
           n == Len(tokens)
           base == <<>>
           After(k) == AttrTokens!Run(0, base, SubSeq(tokens, 1, k))
           T == {k \in 0 .. n : TokensSay(tokens, After(k), k)}
<1>1. tokens \in Seq(S) /\ n \in Nat
  OBVIOUS
<1>2. S = {tokens[i] : i \in 1 .. n}
  BY <1>1 DEF ToSet
<1>3. \A i \in 1 .. n : tokens[i].sign = "none"
  BY <1>2
<1>4. Attrs(line) = AttrTokens!Run(0, base, tokens)
  BY AttributesRun
<1>5. DOMAIN base = {}
  OBVIOUS
<1> HIDE DEF base, S, tokens
<1>6. After(0) = base /\ After(n) = Attrs(line)
  <2>1. AttrTokens!Run(0, base, SubSeq(tokens, 1, 0)) = base
    BY <1>1, AttrTokens!Start
  <2>2. AttrTokens!Run(0, base, SubSeq(tokens, 1, Len(tokens))) = AttrTokens!Run(0, base, tokens)
    BY <1>1, AttrTokens!Finish
  <2> QED
    BY <1>4, <2>1, <2>2
<1>7. \A k \in 1 .. n : After(k) = AttrTurn(0, After(k - 1), tokens[k])
  BY <1>1, AttrTokens!Turn
<1> HIDE DEF n, After
<1>8. 0 \in T
  BY <1>1, <1>5, <1>6 DEF TokensSay
<1>9. \A k \in 1 .. n : k - 1 \in T => k \in T
  <2> SUFFICES ASSUME NEW k \in 1 .. n, k - 1 \in T PROVE k \in T
    OBVIOUS
  <2>1. TokensSay(tokens, AttrTurn(0, After(k - 1), tokens[k]), k)
    BY <1>1, <1>3, TokenSays
  <2> QED
    BY <1>1, <1>7, <2>1
<1>10. TokensSay(tokens, Attrs(line), n)
  <2> HIDE DEF T
  <2>1. \A k \in 0 .. n : k \in T
    BY <1>1, <1>8, <1>9, AttrTokens!UpTo
  <2>2. n \in T
    BY <1>1, <2>1
  <2> QED
    BY <1>6, <2>2 DEF T
<1>11. /\ key \in DOMAIN Attrs(line) <=> \E i \in 1 .. n : tokens[i].key = key
       /\ key \in DOMAIN Attrs(line) => \E i \in 1 .. n : tokens[i].key = key /\ tokens[i].value = Attrs(line)[key]
  BY <1>10 DEF TokensSay
<1>12. S = ToSet(line.tokens)
  BY DEF S, tokens
<1> QED
  BY <1>2, <1>11, <1>12

\* A line that speaks of a key has the say, the others leave it as it is.
SaidBy(line, key, result) ==
  /\ key \in DOMAIN result
  /\ \E t \in ToSet(line.tokens) : t.key = key /\ t.value = result[key]
SameOf(key, before, now) ==
  /\ key \in DOMAIN now <=> key \in DOMAIN before
  /\ key \in DOMAIN before => now[key] = before[key]

\* A line that speaks of a key has the last word on it, any other leaves it as it was.
LEMMA LineHeard ==
  ASSUME NEW f, NEW l, NEW path, NEW key, NEW before, l.tokens \in Seq(ToSet(l.tokens)),
         IsPrefix(f.base, path) /\ path \in l.hits => \A t \in ToSet(l.tokens) : t.sign = "none",
         NEW now, now = IF DOMAIN Attrs(l) = {} THEN before ELSE MatchTurn(path, before, RuleOf(f, l))
  PROVE  /\ IsPrefix(f.base, path) /\ Speaks(l, path, key) => SaidBy(l, key, now)
         /\ ~(IsPrefix(f.base, path) /\ Speaks(l, path, key)) => SameOf(key, before, now)
<1> DEFINE A == Attrs(l)
           r == RuleOf(f, l)
<1>1. CASE ~(IsPrefix(f.base, path) /\ path \in l.hits)
  <2>1. ~(IsPrefix(r.base, path) /\ path \in r.hits)
    BY <1>1 DEF RuleOf
  <2>2. now = before
    BY <2>1 DEF MatchTurn
  <2>3. SameOf(key, before, now)
    BY <2>2 DEF SameOf
  <2>4. ~(IsPrefix(f.base, path) /\ Speaks(l, path, key))
    BY <1>1 DEF Speaks
  <2> QED
    BY <2>3, <2>4
<1>2. CASE IsPrefix(f.base, path) /\ path \in l.hits
  <2>1. /\ key \in DOMAIN A <=> \E t \in ToSet(l.tokens) : t.key = key
        /\ key \in DOMAIN A => \E t \in ToSet(l.tokens) : t.key = key /\ t.value = A[key]
    BY <1>2, AttrsSay
  <2>2. Speaks(l, path, key) <=> key \in DOMAIN A
    BY <1>2, <2>1 DEF Speaks
  <2>3. r.base = f.base /\ r.hits = l.hits /\ r.attrs = A
    BY DEF RuleOf
  <2> HIDE DEF A, r
  <2>4. DOMAIN A = {} => now = before
    BY DEF A
  <2>5. DOMAIN A # {} => now = Updated(before, A)
    BY <1>2, <2>3 DEF MatchTurn, A, r
  <2>6. key \in DOMAIN A => SaidBy(l, key, now)
    <3> SUFFICES ASSUME key \in DOMAIN A PROVE SaidBy(l, key, now)
      OBVIOUS
    <3>1. now = Updated(before, A)
      BY <2>5
    <3>2. key \in DOMAIN now /\ now[key] = A[key]
      BY <3>1, UpdatedHas
    <3> QED
      BY <2>1, <3>2 DEF SaidBy
  <2>7. key \notin DOMAIN A => SameOf(key, before, now)
    <3> SUFFICES ASSUME key \notin DOMAIN A PROVE SameOf(key, before, now)
      OBVIOUS
    <3>1. CASE DOMAIN A = {}
      BY <2>4, <3>1 DEF SameOf
    <3>2. CASE DOMAIN A # {}
      <4>1. now = Updated(before, A)
        BY <2>5, <3>2
      <4> QED
        BY <4>1, UpdatedHas DEF SameOf
    <3> QED
      BY <3>1, <3>2
  <2> QED
    BY <1>2, <2>2, <2>6, <2>7
<1> QED
  BY <1>1, <1>2

\* One rule more is matched after the others.
LEMMA MatchMore ==
  ASSUME NEW S, NEW rules \in Seq(S), NEW r, NEW path
  PROVE  MatchGitattributes(Append(rules, r), path) = MatchTurn(path, MatchGitattributes(rules, path), r)
<1> DEFINE base == <<>>
           more == Append(rules, r)
<1>1. MatchGitattributes(rules, path) = Matches!Run(path, base, rules)
  BY AttributesRun
<1>2. MatchGitattributes(more, path) = Matches!Run(path, base, more)
  BY AttributesRun
<1> HIDE DEF base
<1>3. Matches!Run(path, base, more) = MatchTurn(path, Matches!Run(path, base, rules), r)
  BY Matches!Longer
<1> QED
  BY <1>1, <1>2, <1>3

\* What the first m lines of a file make of a key: the last that speaks of it has the say.
LinesHeard(f, path, key, m, before, now) ==
  \/ /\ \A i \in 1 .. m : ~(IsPrefix(f.base, path) /\ Speaks(f.lines[i], path, key))
     /\ SameOf(key, before, now)
  \/ \E i \in 1 .. m : /\ IsPrefix(f.base, path) /\ Speaks(f.lines[i], path, key)
                       /\ \A j \in i + 1 .. m : ~Speaks(f.lines[j], path, key)
                       /\ SaidBy(f.lines[i], key, now)

\* The lines of a file, and what keeps them from being misread.
LinesWell(f, path) ==
  /\ f.lines \in Seq(ToSet(f.lines))
  /\ \A l \in ToSet(f.lines) :
       /\ l.tokens \in Seq(ToSet(l.tokens))
       /\ IsPrefix(f.base, path) /\ path \in l.hits => \A t \in ToSet(l.tokens) : t.sign = "none"

\* One line more.
LEMMA NextLineHeard ==
  ASSUME NEW f, NEW path, NEW key, NEW m \in Nat \ {0}, NEW before, NEW old, NEW now,
         LinesHeard(f, path, key, m - 1, before, old),
         /\ IsPrefix(f.base, path) /\ Speaks(f.lines[m], path, key) => SaidBy(f.lines[m], key, now)
         /\ ~(IsPrefix(f.base, path) /\ Speaks(f.lines[m], path, key)) => SameOf(key, old, now)
  PROVE  LinesHeard(f, path, key, m, before, now)
<1> DEFINE Says(i) == Speaks(f.lines[i], path, key)
           Nearer == IsPrefix(f.base, path)
<1>1. \A i \in 1 .. m : i \in 1 .. m - 1 \/ i = m
  OBVIOUS
<1>2. m \in 1 .. m /\ \A i \in 1 .. m - 1 : i \in 1 .. m
  OBVIOUS
<1>3. CASE Nearer /\ Says(m)
  <2>1. SaidBy(f.lines[m], key, now)
    BY <1>3
  <2>2. \A j \in m + 1 .. m : ~Says(j)
    OBVIOUS
  <2> QED
    BY <1>2, <1>3, <2>1, <2>2 DEF LinesHeard
<1>4. CASE ~(Nearer /\ Says(m))
  <2>1. SameOf(key, old, now)
    BY <1>4
  <2>2. CASE /\ \A i \in 1 .. m - 1 : ~(Nearer /\ Says(i))
             /\ SameOf(key, before, old)
    <3>1. SameOf(key, before, now)
      BY <2>1, <2>2 DEF SameOf
    <3>2. \A i \in 1 .. m : ~(Nearer /\ Says(i))
      BY <1>1, <1>4, <2>2
    <3> QED
      BY <3>1, <3>2 DEF LinesHeard
  <2>3. CASE \E i \in 1 .. m - 1 : /\ Nearer /\ Says(i)
                                   /\ \A j \in i + 1 .. m - 1 : ~Says(j)
                                   /\ SaidBy(f.lines[i], key, old)
    <3>1. PICK i \in 1 .. m - 1 : /\ Nearer /\ Says(i)
                                  /\ \A j \in i + 1 .. m - 1 : ~Says(j)
                                  /\ SaidBy(f.lines[i], key, old)
      BY <2>3
    <3>2. ~Says(m)
      BY <1>4, <3>1
    <3>3. \A j \in i + 1 .. m : j \in i + 1 .. m - 1 \/ j = m
      OBVIOUS
    <3>4. \A j \in i + 1 .. m : ~Says(j)
      BY <3>1, <3>2, <3>3
    <3>5. SaidBy(f.lines[i], key, now)
      BY <2>1, <3>1 DEF SaidBy, SameOf
    <3> QED
      BY <1>2, <3>1, <3>4, <3>5 DEF LinesHeard
  <2> QED
    BY <2>2, <2>3 DEF LinesHeard
<1> QED
  BY <1>3, <1>4

\* What a file makes of a key.
LEMMA FileHeard ==
  ASSUME NEW S, NEW f, NEW path, NEW key, LinesWell(f, path),
         \A l \in ToSet(f.lines) : RuleOf(f, l) \in S, NEW rules \in Seq(S)
  PROVE  /\ RulesIn(rules, f) \in Seq(S)
         /\ LinesHeard(f, path, key, Len(f.lines), MatchGitattributes(rules, path),
                       MatchGitattributes(RulesIn(rules, f), path))
<1> DEFINE lines == f.lines
           L == ToSet(lines)
           n == Len(lines)
           before == MatchGitattributes(rules, path)
           After(k) == FileRules!Run(f, rules, SubSeq(lines, 1, k))
           T == {k \in 0 .. n : /\ After(k) \in Seq(S)
                                /\ LinesHeard(f, path, key, k, before, MatchGitattributes(After(k), path))}
<1>1. lines \in Seq(L) /\ n \in Nat
  BY DEF LinesWell
<1>2. \A i \in 1 .. n : lines[i] \in L
  BY <1>1
<1>3. RulesIn(rules, f) = FileRules!Run(f, rules, lines)
  BY AttributesRun
<1>4. After(0) = rules /\ After(n) = RulesIn(rules, f)
  <2> HIDE DEF lines, L
  <2>1. FileRules!Run(f, rules, SubSeq(lines, 1, 0)) = rules
    BY <1>1, FileRules!Start
  <2>2. FileRules!Run(f, rules, SubSeq(lines, 1, Len(lines))) = FileRules!Run(f, rules, lines)
    BY <1>1, FileRules!Finish
  <2> QED
    BY <1>3, <2>1, <2>2
<1>5. \A k \in 1 .. n : After(k) = RuleTurn(f, After(k - 1), lines[k])
  <2> HIDE DEF lines, L
  <2> QED
    BY <1>1, FileRules!Turn
<1> HIDE DEF After, n
<1>6. 0 \in T
  <2>1. SameOf(key, before, before)
    BY DEF SameOf
  <2>2. LinesHeard(f, path, key, 0, before, before)
    BY <2>1 DEF LinesHeard
  <2> QED
    BY <1>1, <1>4, <2>2
<1>7. \A k \in 1 .. n : k - 1 \in T => k \in T
  <2> SUFFICES ASSUME NEW k \in 1 .. n, k - 1 \in T PROVE k \in T
    OBVIOUS
  <2> DEFINE l == lines[k]
             then == After(k - 1)
             next == After(k)
             old == MatchGitattributes(then, path)
             now == MatchGitattributes(next, path)
  <2>1. k \in Nat \ {0} /\ k \in 0 .. n /\ l \in L
    BY <1>1, <1>2
  <2>2. then \in Seq(S) /\ LinesHeard(f, path, key, k - 1, before, old)
    OBVIOUS
  <2>3. next = RuleTurn(f, then, l)
    BY <1>5
  <2>4. RuleOf(f, l) \in S
    BY <2>1
  <2>5. /\ l.tokens \in Seq(ToSet(l.tokens))
        /\ IsPrefix(f.base, path) /\ path \in l.hits => \A t \in ToSet(l.tokens) : t.sign = "none"
    BY <2>1 DEF LinesWell
  <2> HIDE DEF T, L, before, then, next, old, now
  <2>6. next = IF DOMAIN Attrs(l) = {} THEN then ELSE Append(then, RuleOf(f, l))
    BY <2>3 DEF RuleTurn
  <2>7. next \in Seq(S)
    <3> DEFINE rule == RuleOf(f, l)
    <3>1. rule \in S
      BY <2>4
    <3> HIDE DEF rule
    <3>2. Append(then, rule) \in Seq(S)
      BY <2>2, <3>1
    <3> QED
      BY <2>2, <2>6, <3>2 DEF rule
  <2>8. MatchGitattributes(Append(then, RuleOf(f, l)), path) = MatchTurn(path, old, RuleOf(f, l))
    BY <2>2, MatchMore DEF old
  <2>9. now = IF DOMAIN Attrs(l) = {} THEN old ELSE MatchTurn(path, old, RuleOf(f, l))
    BY <2>6, <2>8 DEF now, old
  <2>10. /\ IsPrefix(f.base, path) /\ Speaks(l, path, key) => SaidBy(l, key, now)
         /\ ~(IsPrefix(f.base, path) /\ Speaks(l, path, key)) => SameOf(key, old, now)
    <3> HIDE DEF l
    <3> QED
      BY <2>5, <2>9, LineHeard
  <2>11. LinesHeard(f, path, key, k, before, now)
    BY <2>1, <2>2, <2>10, NextLineHeard
  <2> QED
    BY <2>1, <2>7, <2>11 DEF T, next, now
<1>8. n \in T
  <2> HIDE DEF T
  <2>1. \A k \in 0 .. n : k \in T
    BY <1>1, <1>6, <1>7, FileRules!UpTo
  <2> QED
    BY <1>1, <2>1
<1> QED
  BY <1>4, <1>8 DEF n

\* A file speaks of a key if a line that matches does; its last such line has the say.
Voices(f, path, key) == IsPrefix(f.base, path) /\ \E i \in DOMAIN f.lines : Speaks(f.lines[i], path, key)
SaidLast(f, path, key, result) ==
  \E i \in DOMAIN f.lines : /\ Speaks(f.lines[i], path, key)
                            /\ \A j \in DOMAIN f.lines : Speaks(f.lines[j], path, key) => j <= i
                            /\ SaidBy(f.lines[i], key, result)

\* So what a file makes of a key is what it says of it, or nothing.
LEMMA FileSays ==
  ASSUME NEW f, NEW path, NEW key, LinesWell(f, path), NEW before, NEW now,
         LinesHeard(f, path, key, Len(f.lines), before, now)
  PROVE  /\ Voices(f, path, key) => SaidLast(f, path, key, now)
         /\ ~Voices(f, path, key) => SameOf(key, before, now)
<1> DEFINE n == Len(f.lines)
           Says(i) == Speaks(f.lines[i], path, key)
<1>1. DOMAIN f.lines = 1 .. n /\ n \in Nat
  BY DEF LinesWell
<1>2. CASE /\ \A i \in 1 .. n : ~(IsPrefix(f.base, path) /\ Says(i))
           /\ SameOf(key, before, now)
  BY <1>1, <1>2 DEF Voices
<1>3. CASE \E i \in 1 .. n : /\ IsPrefix(f.base, path) /\ Says(i)
                             /\ \A j \in i + 1 .. n : ~Says(j)
                             /\ SaidBy(f.lines[i], key, now)
  <2>1. PICK i \in 1 .. n : /\ IsPrefix(f.base, path) /\ Says(i)
                            /\ \A j \in i + 1 .. n : ~Says(j)
                            /\ SaidBy(f.lines[i], key, now)
    BY <1>3
  <2>2. \A j \in 1 .. n : Says(j) => j <= i
    <3> TAKE j \in 1 .. n
    <3>1. j <= i \/ j \in i + 1 .. n
      BY <1>1
    <3> QED
      BY <2>1, <3>1
  <2>3. Voices(f, path, key) /\ SaidLast(f, path, key, now)
    BY <1>1, <2>1, <2>2 DEF Voices, SaidLast
  <2> QED
    BY <2>3
<1> QED
  BY <1>2, <1>3 DEF LinesHeard

\* What the first k files make of a key: the last that speaks of it has the say.
FilesHeard(o, path, key, k, result) ==
  \/ /\ \A j \in 1 .. k : ~Voices(o[j], path, key)
     /\ key \notin DOMAIN result
  \/ \E j \in 1 .. k : /\ Voices(o[j], path, key)
                       /\ \A l \in 1 .. k : Voices(o[l], path, key) => l <= j
                       /\ SaidLast(o[j], path, key, result)

\* One file more.
LEMMA NextFileHeard ==
  ASSUME NEW o, NEW path, NEW key, NEW k \in Nat \ {0}, NEW old, NEW now,
         FilesHeard(o, path, key, k - 1, old),
         Voices(o[k], path, key) => SaidLast(o[k], path, key, now),
         ~Voices(o[k], path, key) => SameOf(key, old, now)
  PROVE  FilesHeard(o, path, key, k, now)
<1> DEFINE Says(j) == Voices(o[j], path, key)
<1>1. \A j \in 1 .. k : j \in 1 .. k - 1 \/ j = k
  OBVIOUS
<1>2. k \in 1 .. k /\ \A j \in 1 .. k - 1 : j \in 1 .. k
  OBVIOUS
<1>3. CASE Says(k)
  <2>1. SaidLast(o[k], path, key, now) /\ \A l \in 1 .. k : l <= k
    BY <1>3
  <2> QED
    BY <1>2, <1>3, <2>1 DEF FilesHeard
<1>4. CASE ~Says(k)
  <2>1. SameOf(key, old, now)
    BY <1>4
  <2>2. CASE (\A j \in 1 .. k - 1 : ~Says(j)) /\ key \notin DOMAIN old
    BY <1>1, <1>4, <2>1, <2>2 DEF FilesHeard, SameOf
  <2>3. CASE \E j \in 1 .. k - 1 : /\ Says(j) /\ \A l \in 1 .. k - 1 : Says(l) => l <= j
                                   /\ SaidLast(o[j], path, key, old)
    <3>1. PICK j \in 1 .. k - 1 : /\ Says(j) /\ \A l \in 1 .. k - 1 : Says(l) => l <= j
                                  /\ SaidLast(o[j], path, key, old)
      BY <2>3
    <3>2. SaidLast(o[j], path, key, now)
      BY <2>1, <3>1 DEF SaidLast, SaidBy, SameOf
    <3>3. \A l \in 1 .. k : Says(l) => l <= j
      BY <1>1, <1>4, <3>1
    <3> QED
      BY <1>2, <3>1, <3>2, <3>3 DEF FilesHeard
  <2> QED
    BY <2>2, <2>3 DEF FilesHeard
<1> QED
  BY <1>3, <1>4

\* What all files make of a key.
LEMMA AllFilesHeard ==
  ASSUME NEW S, NEW files, NEW path, NEW key, NEW o, o = InOrder(files, AttrOrder),
         o \in Seq(files),
         \A f \in files : LinesWell(f, path) /\ \A l \in ToSet(f.lines) : RuleOf(f, l) \in S
  PROVE  FilesHeard(o, path, key, Len(o), MatchGitattributes(LoadGitattributes(files), path))
<1> DEFINE n == Len(o)
           base == <<>>
           After(k) == AllRules!Run(0, base, SubSeq(o, 1, k))
           T == {k \in 0 .. n : /\ After(k) \in Seq(S)
                                /\ FilesHeard(o, path, key, k, MatchGitattributes(After(k), path))}
<1>1. n \in Nat /\ \A k \in 1 .. n : o[k] \in files
  OBVIOUS
<1>2. LoadGitattributes(files) = AllRules!Run(0, base, o)
  BY AttributesRun
<1>3. base \in Seq(S) /\ key \notin DOMAIN MatchGitattributes(base, path)
  <2>1. MatchGitattributes(base, path) = Matches!Run(path, base, base)
    BY AttributesRun
  <2>2. base \in Seq({}) /\ Len(base) = 0 /\ DOMAIN base = {} /\ base \in Seq(S)
    OBVIOUS
  <2> DEFINE found == base
  <2> HIDE DEF base
  <2>3. Matches!Run(path, found, SubSeq(base, 1, 0)) = found
    <3> HIDE DEF found
    <3>1. base \in Seq({})
      BY <2>2
    <3> QED
      BY <3>1, Matches!Start
  <2>4. Matches!Run(path, found, SubSeq(base, 1, Len(base))) = Matches!Run(path, found, base)
    <3> HIDE DEF found
    <3>1. base \in Seq({})
      BY <2>2
    <3> QED
      BY <3>1, Matches!Finish
  <2>5. MatchGitattributes(base, path) = base
    BY <2>1, <2>2, <2>3, <2>4
  <2> QED
    BY <2>2, <2>5
<1> HIDE DEF base
<1>4. After(0) = base /\ After(n) = LoadGitattributes(files)
  <2>1. AllRules!Run(0, base, SubSeq(o, 1, 0)) = base
    BY AllRules!Start
  <2>2. AllRules!Run(0, base, SubSeq(o, 1, Len(o))) = AllRules!Run(0, base, o)
    BY AllRules!Finish
  <2> QED
    BY <1>2, <2>1, <2>2
<1>5. \A k \in 1 .. n : After(k) = RulesIn(After(k - 1), o[k])
  <2>1. \A k \in 1 .. n : After(k) = FilesTurn(0, After(k - 1), o[k])
    BY AllRules!Turn
  <2> HIDE DEF After
  <2> QED
    BY <2>1 DEF FilesTurn
<1> HIDE DEF After, n
<1>6. 0 \in T
  BY <1>1, <1>3, <1>4 DEF FilesHeard
<1>7. \A k \in 1 .. n : k - 1 \in T => k \in T
  <2> SUFFICES ASSUME NEW k \in 1 .. n, k - 1 \in T PROVE k \in T
    OBVIOUS
  <2> DEFINE f == o[k]
             then == After(k - 1)
             next == After(k)
             old == MatchGitattributes(then, path)
             now == MatchGitattributes(next, path)
  <2>1. k \in Nat \ {0} /\ k \in 0 .. n /\ f \in files
    BY <1>1
  <2>2. then \in Seq(S) /\ FilesHeard(o, path, key, k - 1, old)
    OBVIOUS
  <2>3. next = RulesIn(then, f)
    BY <1>5
  <2>4. LinesWell(f, path) /\ \A l \in ToSet(f.lines) : RuleOf(f, l) \in S
    BY <2>1
  <2> HIDE DEF T, f, then, next
  <2>5. next \in Seq(S) /\ LinesHeard(f, path, key, Len(f.lines), old, now)
    BY <2>2, <2>3, <2>4, FileHeard
  <2> HIDE DEF old, now
  <2>6. /\ Voices(f, path, key) => SaidLast(f, path, key, now)
        /\ ~Voices(f, path, key) => SameOf(key, old, now)
    BY <2>4, <2>5, FileSays
  <2>7. FilesHeard(o, path, key, k, now)
    BY <2>1, <2>2, <2>6, NextFileHeard DEF f
  <2> QED
    BY <2>1, <2>5, <2>7 DEF T, next, now
<1>8. n \in T
  <2> HIDE DEF T
  <2>1. \A k \in 0 .. n : k \in T
    BY <1>1, <1>6, <1>7, AllRules!UpTo
  <2> QED
    BY <1>1, <2>1
<1> QED
  BY <1>4, <1>8 DEF n
-----------------------------------------------------------------------------
\* Of two paths in one directory the first is that with the first name.
LEMMA NamesOrder ==
  ASSUME NEW b \in Seq(EntryNames), NEW x \in EntryNames, NEW y \in EntryNames, Before(<<x>>, <<y>>)
  PROVE  Before(Append(b, x), Append(b, y))
<1> DEFINE p == Append(b, x)
           q == Append(b, y)
           n == Len(b) + 1
           lead == Lead(p, n)
           A == Bytes(p)
           B == Bytes(q)
<1>1. /\ p \in Seq(EntryNames) /\ Len(p) = n /\ p[n] = x /\ n \in Nat \ {0}
      /\ q \in Seq(EntryNames) /\ Len(q) = n /\ q[n] = y
  OBVIOUS
<1>2. p \in BytePaths /\ q \in BytePaths
  <2> HIDE DEF p, q, n
  <2>1. p # <<>> /\ q # <<>>
    BY <1>1
  <2> QED
    BY <1>1, <2>1 DEF BytePaths
<1>3. SubSeq(p, 1, n - 1) = b /\ SubSeq(q, 1, n - 1) = b
  <2>1. n - 1 = Len(b) /\ Len(b) \in Nat
    OBVIOUS
  <2> DEFINE s == SubSeq(p, 1, Len(b))
             t == SubSeq(q, 1, Len(b))
  <2>2. s \in Seq(EntryNames) /\ Len(s) = Len(b) /\ \A i \in 1 .. Len(s) : s[i] = b[i]
    OBVIOUS
  <2>3. t \in Seq(EntryNames) /\ Len(t) = Len(b) /\ \A i \in 1 .. Len(t) : t[i] = b[i]
    OBVIOUS
  <2> HIDE DEF s, t, n, p, q
  <2>4. s = b
    BY <2>2, SameSeq
  <2>5. t = b
    BY <2>3, SameSeq
  <2> QED
    BY <2>1, <2>4, <2>5 DEF s, t
<1> HIDE DEF p, q, n
<1>4. Lead(q, n) = lead
  BY <1>3 DEF Lead, Upto
<1>5. /\ lead \in Seq(Nat) /\ x \in Seq(Nat) /\ y \in Seq(Nat)
      /\ Upto(p, n) = lead \o x /\ Upto(q, n) = lead \o y
  <2>1. n \in 1 .. Len(p) /\ n \in 1 .. Len(q)
    BY <1>1
  <2>2. lead \in Seq(Nat) /\ p[n] \in Seq(Nat) /\ Upto(p, n) = lead \o p[n]
    BY <1>2, <2>1, LeadOf
  <2>3. q[n] \in Seq(Nat) /\ Upto(q, n) = Lead(q, n) \o q[n]
    BY <1>2, <2>1, LeadOf
  <2> QED
    BY <1>1, <1>4, <2>2, <2>3
<1>6. A = lead \o x /\ B = lead \o y
  <2>1. SubSeq(p, 1, n) = p /\ SubSeq(q, 1, n) = q
    BY <1>1
  <2> QED
    BY <1>5, <2>1 DEF Upto
<1>7. Bytes(<<x>>) = x /\ Bytes(<<y>>) = y /\ <<x>> \in BytePaths /\ <<y>> \in BytePaths
  <2> SUFFICES ASSUME NEW z \in EntryNames PROVE Bytes(<<z>>) = z /\ <<z>> \in BytePaths
    OBVIOUS
  <2> DEFINE one == <<z>>
  <2>1. one \in Seq(EntryNames) /\ Len(one) = 1 /\ one[1] = z
    OBVIOUS
  <2> HIDE DEF one
  <2>2. SubSeq(one, 1, 1) = one
    BY <2>1
  <2>3. one \in BytePaths
    BY <2>1 DEF BytePaths
  <2>4. Upto(one, 1) = z
    BY <2>1, <2>3, UptoMore
  <2> QED
    BY <2>2, <2>3, <2>4 DEF Upto, one
<1>8. PICK m \in Nat : PartsAt(x, y, m)
  <2>1. \E m \in Nat : PartsAt(Bytes(<<x>>), Bytes(<<y>>), m)
    BY <1>7, BeforeAt
  <2> QED
    BY <1>7, <2>1
<1> HIDE DEF A, B, lead
<1> DEFINE h == Len(lead)
<1>9. /\ h \in Nat /\ Len(x) \in Nat /\ Len(y) \in Nat
      /\ Len(A) = h + Len(x) /\ Len(B) = h + Len(y)
      /\ A \in Seq(Nat) /\ B \in Seq(Nat)
  BY <1>5, <1>6
<1>10. /\ \A i \in 1 .. h : A[i] = lead[i]
       /\ \A i \in 1 .. Len(x) : A[h + i] = x[i]
  BY <1>5, <1>6
<1>11. /\ \A i \in 1 .. h : B[i] = lead[i]
       /\ \A i \in 1 .. Len(y) : B[h + i] = y[i]
  BY <1>5, <1>6
<1> HIDE DEF h
<1>12. /\ m <= Len(x) /\ m < Len(y) /\ \A i \in 1 .. m : x[i] = y[i]
       /\ m < Len(x) => x[m + 1] < y[m + 1]
  BY <1>8 DEF PartsAt
<1>13. ASSUME NEW i \in 1 .. h + m PROVE A[i] = B[i]
  <2>1. CASE i \in 1 .. h
    BY <1>10, <1>11, <2>1
  <2>2. CASE i \notin 1 .. h
    <3> DEFINE j == i - h
    <3>1. j \in 1 .. m /\ j \in 1 .. Len(x) /\ j \in 1 .. Len(y) /\ i = h + j
      BY <1>9, <1>12, <2>2
    <3> HIDE DEF j
    <3> QED
      BY <1>10, <1>11, <1>12, <3>1
  <2> QED
    BY <2>1, <2>2
<1>14. ASSUME h + m < Len(A) PROVE A[h + m + 1] < B[h + m + 1]
  <2>1. m < Len(x) /\ h + (m + 1) = h + m + 1
    BY <1>9, <1>14
  <2>2. m + 1 \in 1 .. Len(x) /\ m + 1 \in 1 .. Len(y)
    <3>1. m < Len(y)
      BY <1>12
    <3> QED
      BY <1>9, <2>1, <3>1
  <2>3. x[m + 1] < y[m + 1]
    BY <1>12, <2>1
  <2> QED
    BY <1>10, <1>11, <2>1, <2>2, <2>3
<1>15. h + m \in Nat /\ h + m <= Len(A) /\ h + m < Len(B)
  BY <1>9, <1>12
<1>16. PartsAt(A, B, h + m)
  BY <1>13, <1>14, <1>15 DEF PartsAt
<1>17. Before(p, q)
  BY <1>2, <1>15, <1>16, BeforeAt DEF A, B
<1> QED
  BY <1>17 DEF p, q

\* The files of a repository, one in a directory.
FilesApart(files) ==
  /\ IsFiniteSet(files)
  /\ \A f, g \in files : f.base = g.base => f = g
  /\ \A f \in files : f.base \in Seq(EntryNames)

\* A file has a path, and no two have the same.
LEMMA AttrPaths ==
  ASSUME NEW files, FilesApart(files)
  PROVE  /\ \A f \in files : AttrPath(f) \in BytePaths
         /\ \A f, g \in files : AttrPath(f) = AttrPath(g) => f = g
<1>1. AttributesName \in EntryNames
  BY AttributesAssumption DEF EntryNames
<1>2. \A f \in files : AttrPath(f) \in BytePaths
  <2> TAKE f \in files
  <2> DEFINE b == f.base
             p == Append(b, AttributesName)
  <2>1. b \in Seq(EntryNames)
    BY DEF FilesApart
  <2> HIDE DEF b
  <2>2. p \in Seq(EntryNames) /\ Len(p) = Len(b) + 1 /\ Len(b) \in Nat
    BY <1>1, <2>1
  <2> HIDE DEF p
  <2>3. p # <<>>
    BY <2>2
  <2> QED
    BY <2>2, <2>3 DEF BytePaths, AttrPath, p, b
<1>3. \A f, g \in files : AttrPath(f) = AttrPath(g) => f = g
  <2> SUFFICES ASSUME NEW f \in files, NEW g \in files, AttrPath(f) = AttrPath(g) PROVE f.base = g.base
    BY DEF FilesApart
  <2> DEFINE b == f.base
             c == g.base
  <2>1. b \in Seq(EntryNames) /\ c \in Seq(EntryNames) /\ Append(b, AttributesName) = Append(c, AttributesName)
    BY DEF FilesApart, AttrPath
  <2> HIDE DEF b, c
  <2>2. Len(b) = Len(c)
    <3>1. Len(Append(b, AttributesName)) = Len(b) + 1 /\ Len(Append(c, AttributesName)) = Len(c) + 1
      BY <2>1
    <3>2. Len(b) \in Nat /\ Len(c) \in Nat
      BY <2>1
    <3> QED
      BY <2>1, <3>1, <3>2
  <2>3. \A i \in 1 .. Len(b) : b[i] = c[i]
    <3> TAKE i \in 1 .. Len(b)
    <3>1. Append(b, AttributesName)[i] = b[i]
      BY <2>1
    <3>2. Append(c, AttributesName)[i] = c[i]
      BY <2>1, <2>2
    <3> QED
      BY <2>1, <3>1, <3>2
  <2>4. b = c
    BY <2>1, <2>2, <2>3, SameSeq
  <2> QED
    BY <2>4 DEF b, c
<1> QED
  BY <1>2, <1>3

\* load_gitattributes takes each file once, in the order of the paths.
LEMMA FilesSorted ==
  ASSUME NEW files, FilesApart(files)
  PROVE  LET o == InOrder(files, AttrOrder)
             n == Cardinality(files)
         IN /\ n \in Nat /\ o \in Seq(files) /\ Len(o) = n
            /\ \A f \in files : \E i \in 1 .. n : o[i] = f
            /\ \A i, j \in 1 .. n : i < j <=> AttrOrder(o[i], o[j])
<1> DEFINE o == InOrder(files, AttrOrder)
           n == Cardinality(files)
           R == {pair \in files \X files : AttrOrder(pair[1], pair[2])}
           At(i) == CHOOSE x \in files : Cardinality({y \in files : AttrOrder(y, x)}) = i - 1
<1>1. \A x, y \in files : <<x, y>> \in R <=> AttrOrder(x, y)
  OBVIOUS
<1>2. o = [i \in 1 .. n |-> At(i)]
  BY DEF InOrder
<1>3. IsFiniteSet(files)
  BY DEF FilesApart
<1> HIDE DEF R, o, At
<1>4. Orders(files, R)
  <2>1. \A x \in files : AttrPath(x) \in BytePaths
    BY AttrPaths
  <2>2. \A x, y \in files : AttrPath(x) = AttrPath(y) => x = y
    BY AttrPaths
  <2>3. \A x \in files : ~AttrOrder(x, x)
    BY <2>1, PathsOrdered DEF AttrOrder
  <2>4. \A x, y, z \in files : AttrOrder(x, y) /\ AttrOrder(y, z) => AttrOrder(x, z)
    BY <2>1, PathsOrdered DEF AttrOrder
  <2>5. \A x, y \in files : x = y \/ AttrOrder(x, y) \/ AttrOrder(y, x)
    BY <2>1, <2>2, PathsOrdered DEF AttrOrder
  <2> QED
    BY <1>1, <2>3, <2>4, <2>5 DEF Orders
<1>5. \A x \in files : Lower(files, R, x) = {y \in files : AttrOrder(y, x)}
  BY <1>1 DEF Lower
<1>6. /\ n \in Nat
      /\ \A i \in 1 .. n : \E x \in files : Cardinality(Lower(files, R, x)) = i - 1
  BY <1>3, <1>4, Ranks
<1>7. ASSUME NEW i \in 1 .. n PROVE o[i] \in files /\ Cardinality(Lower(files, R, o[i])) = i - 1
  <2>1. o[i] = CHOOSE x \in files : Cardinality({y \in files : AttrOrder(y, x)}) = i - 1
    BY <1>2 DEF At
  <2>2. \E x \in files : Cardinality({y \in files : AttrOrder(y, x)}) = i - 1
    BY <1>5, <1>6
  <2>3. o[i] \in files /\ Cardinality({y \in files : AttrOrder(y, o[i])}) = i - 1
    BY <2>1, <2>2
  <2> QED
    BY <1>5, <2>3
<1>8. o = [i \in 1 .. n |-> o[i]]
  BY <1>2
<1>9. Sorted(files, R, o)
  <2>1. Ranked(files, R, o)
    BY <1>7, <1>8 DEF Ranked
  <2> QED
    BY <1>3, <1>4, <2>1, RankedIsSorted
<1>10. /\ o \in [1 .. n -> files]
       /\ \A x \in files : \E i \in 1 .. n : o[i] = x
       /\ \A i, j \in 1 .. n : i < j <=> <<o[i], o[j]>> \in R
  BY <1>9 DEF Sorted
<1>11. o \in Seq(files) /\ Len(o) = n
  <2> HIDE DEF n
  <2> QED
    BY <1>6, <1>10
<1>12. \A i, j \in 1 .. n : i < j <=> AttrOrder(o[i], o[j])
  BY <1>1, <1>7, <1>10
<1> QED
  BY <1>6, <1>10, <1>11, <1>12 DEF o

\* Of two files above a path the deeper one comes later, unless a directory above it
\* sorts before ".gitattributes".
LEMMA DeeperLater ==
  ASSUME NEW path \in Seq(EntryNames), NEW f, NEW g, f.base \in Seq(EntryNames), g.base \in Seq(EntryNames),
         IsPrefix(f.base, path), IsPrefix(g.base, path), Len(f.base) < Len(g.base),
         \A i \in DOMAIN g.base : ~Before(<<g.base[i]>>, <<AttributesName>>)
  PROVE  AttrOrder(f, g)
<1> DEFINE b == f.base
           c == g.base
           d == Len(b) + 1
           next == c[d]
           p == Append(b, AttributesName)
           q == Append(c, AttributesName)
           mid == Append(b, next)
<1>1. /\ b \in Seq(EntryNames) /\ c \in Seq(EntryNames) /\ Len(b) \in Nat /\ Len(c) \in Nat
      /\ Len(b) < Len(c) /\ AttributesName \in EntryNames
  BY AttributesAssumption DEF EntryNames
<1>2. Len(path) \in Nat /\ Len(b) <= Len(path) /\ Len(c) <= Len(path)
  BY DEF IsPrefix
<1>3. SubSeq(b, 1, Len(b)) = SubSeq(path, 1, Len(b)) /\ SubSeq(c, 1, Len(c)) = SubSeq(path, 1, Len(c))
  BY DEF IsPrefix
<1>0. \A i \in DOMAIN c : ~Before(<<c[i]>>, <<AttributesName>>)
  OBVIOUS
<1> HIDE DEF b, c
<1>4. \A i \in 1 .. Len(b) : b[i] = path[i]
  <2>1. \A i \in 1 .. Len(b) : SubSeq(b, 1, Len(b))[i] = b[i]
    BY <1>1
  <2>2. \A i \in 1 .. Len(b) : SubSeq(path, 1, Len(b))[i] = path[i]
    BY <1>1, <1>2
  <2> QED
    BY <1>3, <2>1, <2>2
<1>5. \A i \in 1 .. Len(c) : c[i] = path[i]
  <2>1. \A i \in 1 .. Len(c) : SubSeq(c, 1, Len(c))[i] = c[i]
    BY <1>1
  <2>2. \A i \in 1 .. Len(c) : SubSeq(path, 1, Len(c))[i] = path[i]
    BY <1>1, <1>2
  <2> QED
    BY <1>3, <2>1, <2>2
<1>6. d \in 1 .. Len(c) /\ next \in EntryNames /\ d \in DOMAIN c
  BY <1>1
<1>7. \A i \in 1 .. Len(b) : b[i] = c[i]
  <2>1. \A i \in 1 .. Len(b) : i \in 1 .. Len(c)
    BY <1>1
  <2> QED
    BY <1>4, <1>5, <2>1
<1>8. q \in Seq(EntryNames) /\ Len(q) = Len(c) + 1 /\ \A i \in 1 .. Len(c) : q[i] = c[i]
  BY <1>1
<1> HIDE DEF next
<1>9. mid \in Seq(EntryNames) /\ Len(mid) = d /\ mid[d] = next /\ \A i \in 1 .. Len(b) : mid[i] = b[i]
  BY <1>1, <1>6
<1>10. p \in Seq(EntryNames) /\ Len(p) = d
  BY <1>1
<1>11. <<AttributesName>> \in BytePaths /\ <<next>> \in BytePaths
  <2> SUFFICES ASSUME NEW z \in EntryNames PROVE <<z>> \in BytePaths
    BY <1>1, <1>6
  <2> DEFINE one == <<z>>
  <2>1. one \in Seq(EntryNames) /\ one # <<>>
    OBVIOUS
  <2> HIDE DEF one
  <2> QED
    BY <2>1 DEF BytePaths, one
<1> HIDE DEF mid, p, q
<1>12. mid = SubSeq(q, 1, d)
  <2> DEFINE s == SubSeq(q, 1, d)
  <2>0. d \in Nat /\ d <= Len(q)
    BY <1>1, <1>8
  <2>1. s \in Seq(EntryNames) /\ Len(s) = d /\ \A i \in 1 .. d : s[i] = q[i]
    <3> HIDE DEF d
    <3> QED
      BY <1>8, <2>0
  <2>2. \A i \in 1 .. d : i \in 1 .. Len(c) /\ (i = d \/ i \in 1 .. Len(b))
    BY <1>1, <1>6
  <2>3. \A i \in 1 .. d : mid[i] = s[i]
    <3> TAKE i \in 1 .. d
    <3>1. s[i] = c[i]
      BY <1>8, <2>1, <2>2
    <3>2. CASE i = d
      BY <1>9, <3>1, <3>2 DEF next
    <3>3. CASE i \in 1 .. Len(b)
      BY <1>7, <1>9, <3>1, <3>3
    <3> QED
      BY <2>2, <3>2, <3>3
  <2> HIDE DEF s, d
  <2>4. mid = s
    BY <1>9, <2>1, <2>3, SameSeq
  <2> QED
    BY <2>4 DEF s
<1>13. p \in BytePaths /\ q \in BytePaths
  <2>1. p # <<>> /\ q # <<>>
    BY <1>1, <1>8, <1>10
  <2> QED
    BY <1>8, <1>10, <2>1 DEF BytePaths
<1>14. mid \in BytePaths /\ Before(mid, q)
  <2>1. d \in 1 .. Len(q) - 1
    BY <1>1, <1>6, <1>8
  <2> HIDE DEF d
  <2> QED
    BY <1>12, <1>13, <2>1, HolderFirst
<1>15. p = mid \/ Before(p, mid)
  <2>1. ~Before(<<next>>, <<AttributesName>>)
    BY <1>0, <1>6 DEF next
  <2>2. <<next>> = <<AttributesName>> \/ Before(<<AttributesName>>, <<next>>)
    BY <1>11, <2>1, PathsOrdered
  <2>3. CASE Before(<<AttributesName>>, <<next>>)
    BY <1>1, <1>6, <2>3, NamesOrder DEF p, mid
  <2>4. CASE <<next>> = <<AttributesName>>
    <3>1. next = AttributesName
      BY <2>4
    <3> QED
      BY <3>1 DEF p, mid
  <2> QED
    BY <2>2, <2>3, <2>4
<1>16. Before(p, q)
  BY <1>13, <1>14, <1>15, PathsOrdered
<1> QED
  BY <1>16 DEF AttrOrder, AttrPath, p, q, b, c

\* The greatest of some numbers.
LEMMA GreatestOf ==
  ASSUME NEW T \in SUBSET Nat, NEW i \in T, \A j \in T : j <= i
  PROVE  Max(T) = i
<1>1. \A x \in T : (\A y \in T : x >= y) => x = i
  OBVIOUS
<1>2. \A y \in T : i >= y
  OBVIOUS
<1> QED
  BY <1>1, <1>2 DEF Max

\* A file, the deepest of those that speak of a key, and its last line that does.
Decider(files, path, key, f, i) ==
  /\ \A g, h \in files : g.base = h.base => g = h
  /\ \A g \in files : g.base \in Seq(EntryNames) /\ g.lines \in Seq(ToSet(g.lines))
  /\ path \in Seq(EntryNames) /\ f \in files /\ i \in DOMAIN f.lines
  /\ Voices(f, path, key)
  /\ \A g \in files : Voices(g, path, key) => Len(g.base) <= Len(f.base)
  /\ Speaks(f.lines[i], path, key)
  /\ \A j \in DOMAIN f.lines : Speaks(f.lines[j], path, key) => j <= i

\* The line that decides is the last in the deepest file that speaks of a key.
LEMMA DecidingIs ==
  ASSUME NEW files, NEW path, NEW key, NEW f, NEW i, Decider(files, path, key, f, i)
  PROVE  Deciding(files, path, key) = f.lines[i]
<1>0. /\ \A g, h \in files : g.base = h.base => g = h
      /\ \A g \in files : g.base \in Seq(EntryNames) /\ g.lines \in Seq(ToSet(g.lines))
      /\ path \in Seq(EntryNames) /\ f \in files /\ i \in DOMAIN f.lines
      /\ Voices(f, path, key)
      /\ \A g \in files : Voices(g, path, key) => Len(g.base) <= Len(f.base)
      /\ Speaks(f.lines[i], path, key)
      /\ \A j \in DOMAIN f.lines : Speaks(f.lines[j], path, key) => j <= i
  BY DEF Decider
<1> DEFINE Speaking(g) == {j \in DOMAIN g.lines : Speaks(g.lines[j], path, key)}
           Fits(h) == /\ IsPrefix(h.base, path) /\ Speaking(h) # {}
                      /\ \A g \in files : IsPrefix(g.base, path) /\ Speaking(g) # {}
                                            => Len(g.base) <= Len(h.base)
           deepest == CHOOSE h \in files : Fits(h)
<1>1. Deciding(files, path, key) = deepest.lines[Max(Speaking(deepest))]
  BY DEF Deciding
<1>2. \A g : Voices(g, path, key) <=> IsPrefix(g.base, path) /\ Speaking(g) # {}
  BY DEF Voices
<1>3. Fits(f)
  <2> HIDE DEF Speaking
  <2> QED
    BY <1>0, <1>2
<1>4. \A h \in files : Fits(h) => h = f
  <2> SUFFICES ASSUME NEW h \in files, Fits(h) PROVE h = f
    OBVIOUS
  <2> DEFINE b == f.base
             c == h.base
  <2>1. /\ IsPrefix(b, path) /\ IsPrefix(c, path) /\ Len(b) <= Len(c) /\ Len(c) <= Len(b)
        /\ b \in Seq(EntryNames) /\ c \in Seq(EntryNames)
    BY <1>0, <1>3
  <2> HIDE DEF b, c, Fits, Speaking
  <2>2. Len(b) = Len(c) /\ SubSeq(b, 1, Len(b)) = SubSeq(path, 1, Len(b))
        /\ SubSeq(c, 1, Len(c)) = SubSeq(path, 1, Len(c))
    <3>1. Len(b) \in Nat /\ Len(c) \in Nat
      BY <2>1
    <3> QED
      BY <2>1, <3>1 DEF IsPrefix
  <2>3. SubSeq(b, 1, Len(b)) = b /\ SubSeq(c, 1, Len(c)) = c
    BY <2>1
  <2>4. b = c
    BY <2>2, <2>3
  <2> QED
    BY <1>0, <2>4 DEF b, c
<1>5. deepest = f
  <2> HIDE DEF Fits
  <2> QED
    BY <1>0, <1>3, <1>4
<1>6. Max(Speaking(f)) = i
  <2> DEFINE T == Speaking(f)
  <2>1. DOMAIN f.lines \in SUBSET Nat
    <3>1. f.lines \in Seq(ToSet(f.lines))
      BY <1>0
    <3> DEFINE lines == f.lines
               S == ToSet(lines)
    <3>2. lines \in Seq(S)
      BY <3>1
    <3> HIDE DEF lines, S
    <3>3. DOMAIN lines = 1 .. Len(lines)
      BY <3>2
    <3> QED
      BY <3>3 DEF lines
  <2>2. T \in SUBSET Nat /\ i \in T /\ \A j \in T : j <= i
    BY <1>0, <2>1
  <2> HIDE DEF T
  <2>3. Max(T) = i
    BY <2>2, GreatestOf
  <2> QED
    BY <2>3 DEF T
<1> HIDE DEF deepest, Speaking
<1> QED
  BY <1>1, <1>5, <1>6

\* What is found for a path in the files is what they mean.
FoundRight(files) ==
  LET rules == LoadGitattributes(files)
      Matching(path) == {f \in files : /\ IsPrefix(f.base, path)
                                       /\ \E l \in ToSet(f.lines) : path \in l.hits}
  IN \A path \in UNION {l.hits : l \in UNION {ToSet(f.lines) : f \in files}} :
       LET found == MatchGitattributes(rules, path)
           Plain == \A f \in Matching(path) :
                      /\ \A l \in ToSet(f.lines) : \A t \in ToSet(l.tokens) : t.sign = "none"
                      /\ \A i \in DOMAIN f.base : ~Before(<<f.base[i]>>, <<AttributesName>>)
           Keys == {t.key : t \in UNION {ToSet(l.tokens) :
                                           l \in UNION {ToSet(f.lines) : f \in Matching(path)}}}
       IN Plain => \A key \in Keys :
            LET Spoken == \E f \in Matching(path) : \E l \in ToSet(f.lines) : Speaks(l, path, key)
            IN /\ key \in DOMAIN found <=> Spoken
               /\ Spoken => \E t \in ToSet(Deciding(files, path, key).tokens) :
                              t.key = key /\ t.value = found[key]

\* It always is.
LEMMA AlwaysFoundRight ==
  ASSUME NEW files \in AttributeInputs
  PROVE  FoundRight(files)
<1> DEFINE Matching(path) == {f \in files : /\ IsPrefix(f.base, path)
                                            /\ \E l \in ToSet(f.lines) : path \in l.hits}
           Plain(path) == \A f \in Matching(path) :
                            /\ \A l \in ToSet(f.lines) : \A t \in ToSet(l.tokens) : t.sign = "none"
                            /\ \A i \in DOMAIN f.base : ~Before(<<f.base[i]>>, <<AttributesName>>)
           Spoken(path, key) == \E f \in Matching(path) : \E l \in ToSet(f.lines) : Speaks(l, path, key)
           Found(path) == MatchGitattributes(LoadGitattributes(files), path)
           Decides(path, key) == \E t \in ToSet(Deciding(files, path, key).tokens) :
                                   t.key = key /\ t.value = Found(path)[key]
           o == InOrder(files, AttrOrder)
           n == Cardinality(files)
           S == UNION {{RuleOf(f, l) : l \in ToSet(f.lines)} : f \in files}
<1>1. /\ IsFiniteSet(files)
      /\ \A f, g \in files : f.base = g.base => f = g
      /\ \A f \in files :
           /\ f.base \in Seq(EntryNames) /\ f.lines \in Seq(ToSet(f.lines))
           /\ \A l \in ToSet(f.lines) : l.hits \subseteq Seq(EntryNames) /\ l.tokens \in Seq(ToSet(l.tokens))
  BY AttributeInputAssumption DEF EntryNames
<1>2. FilesApart(files)
  BY <1>1 DEF FilesApart
<1>3. /\ n \in Nat /\ o \in Seq(files) /\ Len(o) = n
      /\ \A f \in files : \E i \in 1 .. n : o[i] = f
      /\ \A i, j \in 1 .. n : i < j <=> AttrOrder(o[i], o[j])
  BY <1>2, FilesSorted
<1>4. \A i \in 1 .. n : o[i] \in files
  <2> HIDE DEF o, n
  <2> QED
    BY <1>3
<1>5. ASSUME NEW path \in UNION {l.hits : l \in UNION {ToSet(f.lines) : f \in files}},
             Plain(path), NEW key
      PROVE  (key \in DOMAIN Found(path) <=> Spoken(path, key)) /\ (Spoken(path, key) => Decides(path, key))
  <2>1. path \in Seq(EntryNames)
    BY <1>1
  <2>2. \A f \in files : LinesWell(f, path) /\ \A l \in ToSet(f.lines) : RuleOf(f, l) \in S
    <3> TAKE f \in files
    <3>1. \A l \in ToSet(f.lines) : IsPrefix(f.base, path) /\ path \in l.hits => f \in Matching(path)
      OBVIOUS
    <3>2. f \in Matching(path) => \A l \in ToSet(f.lines) : \A t \in ToSet(l.tokens) : t.sign = "none"
      BY <1>5
    <3> HIDE DEF Matching
    <3>3. LinesWell(f, path)
      BY <1>1, <3>1, <3>2 DEF LinesWell
    <3> QED
      BY <3>3
  <2>3. FilesHeard(o, path, key, n, Found(path))
    <3> DEFINE q == o
    <3>1. q = InOrder(files, AttrOrder) /\ q \in Seq(files) /\ Len(q) = n
      BY <1>3
    <3> HIDE DEF q, S
    <3>2. FilesHeard(q, path, key, Len(q), MatchGitattributes(LoadGitattributes(files), path))
      BY <2>2, <3>1, AllFilesHeard
    <3> QED
      BY <3>1, <3>2
  <2>4. Spoken(path, key) <=> \E f \in files : Voices(f, path, key)
    <3>1. ASSUME NEW f \in files
          PROVE  (\E l \in ToSet(f.lines) : Speaks(l, path, key))
                   <=> \E i \in DOMAIN f.lines : Speaks(f.lines[i], path, key)
      BY DEF ToSet
    <3>2. \A l : Speaks(l, path, key) => path \in l.hits
      BY DEF Speaks
    <3> QED
      BY <3>1, <3>2 DEF Voices
  <2>5. ASSUME NEW f \in files, Voices(f, path, key)
        PROVE  /\ IsPrefix(f.base, path)
               /\ \A i \in DOMAIN f.base : ~Before(<<f.base[i]>>, <<AttributesName>>)
    <3>1. f \in Matching(path)
      BY <2>5 DEF Voices, Speaks, ToSet
    <3> QED
      BY <1>5, <3>1
  <2> HIDE DEF Found, Spoken, Plain, Matching, o, n, S
  <2>6. CASE (\A j \in 1 .. n : ~Voices(o[j], path, key)) /\ key \notin DOMAIN Found(path)
    <3>1. ~Spoken(path, key)
      BY <1>3, <2>4, <2>6
    <3> QED
      BY <2>6, <3>1
  <2>7. CASE \E j \in 1 .. n : /\ Voices(o[j], path, key)
                               /\ \A l \in 1 .. n : Voices(o[l], path, key) => l <= j
                               /\ SaidLast(o[j], path, key, Found(path))
    <3>1. PICK j \in 1 .. n : /\ Voices(o[j], path, key)
                              /\ \A l \in 1 .. n : Voices(o[l], path, key) => l <= j
                              /\ SaidLast(o[j], path, key, Found(path))
      BY <2>7
    <3> DEFINE f == o[j]
    <3>2. PICK i \in DOMAIN f.lines : /\ Speaks(f.lines[i], path, key)
                                      /\ \A k \in DOMAIN f.lines : Speaks(f.lines[k], path, key) => k <= i
                                      /\ SaidBy(f.lines[i], key, Found(path))
      BY <3>1 DEF SaidLast
    <3>3. f \in files
      BY <1>4
    <3>4. ASSUME NEW g \in files, Voices(g, path, key) PROVE Len(g.base) <= Len(f.base)
      <4> SUFFICES ASSUME Len(f.base) < Len(g.base) PROVE FALSE
        <5>1. f.base \in Seq(EntryNames) /\ g.base \in Seq(EntryNames)
          BY <1>1, <3>3
        <5>2. Len(f.base) \in Nat /\ Len(g.base) \in Nat
          BY <5>1
        <5> QED
          BY <5>2
      <4>1. f.base \in Seq(EntryNames) /\ g.base \in Seq(EntryNames)
        BY <1>1, <3>3
      <4>2. IsPrefix(f.base, path) /\ IsPrefix(g.base, path)
        BY <2>5, <3>1, <3>3, <3>4
      <4>3. \A k \in DOMAIN g.base : ~Before(<<g.base[k]>>, <<AttributesName>>)
        BY <2>5, <3>4
      <4> HIDE DEF f
      <4>4. AttrOrder(f, g)
        BY <2>1, <4>1, <4>2, <4>3, DeeperLater
      <4>5. PICK l \in 1 .. n : o[l] = g
        BY <1>3
      <4>6. j < l
        BY <1>3, <4>4, <4>5 DEF f
      <4>7. l <= j
        BY <3>1, <3>4, <4>5
      <4> QED
        BY <1>3, <4>6, <4>7
    <3>5. Deciding(files, path, key) = f.lines[i]
      <4> HIDE DEF f
      <4>1. Voices(f, path, key)
        BY <3>1 DEF f
      <4>2. f \in files
        BY <3>3
      <4>3. i \in DOMAIN f.lines /\ Speaks(f.lines[i], path, key)
        BY <3>2
      <4>4. \A k \in DOMAIN f.lines : Speaks(f.lines[k], path, key) => k <= i
        BY <3>2
      <4>5. \A g \in files : Voices(g, path, key) => Len(g.base) <= Len(f.base)
        BY <3>4
      <4>6. \A g, h \in files : g.base = h.base => g = h
        BY <1>1
      <4>7. \A g \in files : g.base \in Seq(EntryNames) /\ g.lines \in Seq(ToSet(g.lines))
        BY <1>1
      <4>8. path \in Seq(EntryNames)
        BY <2>1
      <4>9. Decider(files, path, key, f, i)
        BY <4>1, <4>2, <4>3, <4>4, <4>5, <4>6, <4>7, <4>8 DEF Decider
      <4> QED
        BY <4>9, DecidingIs
    <3>6. Spoken(path, key)
      BY <2>4, <3>1, <3>3
    <3> HIDE DEF f
    <3>7. key \in DOMAIN Found(path) /\ Decides(path, key)
      BY <3>2, <3>5 DEF SaidBy
    <3> QED
      BY <3>6, <3>7
  <2> QED
    BY <2>3, <2>6, <2>7 DEF FilesHeard
<1>6. FoundRight(files)
  BY <1>5 DEF FoundRight
<1> QED
  BY <1>6

\* The attributes of a path are those of the last line in the deepest file that speaks
\* of them, unless a sign or a name that sorts first comes in between.
THEOREM AttributesAlwaysMean == Spec => []AttributesMean
<1>1. AttributesMean <=> (about = "attributes" => FoundRight(input))
  BY Zenon DEF AttributesMean, FoundRight
<1>2. Picked => (about = "attributes" => input \in AttributeInputs)
  BY DEF Picked
<1>3. Picked => AttributesMean
  BY <1>1, <1>2, AlwaysFoundRight
<1> QED
  BY <1>3, PickedFromInputs, PTL
=============================================================================
