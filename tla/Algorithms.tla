----------------------------- MODULE Algorithms -----------------------------
\* The pure algorithms of the modules it extends against reference definitions: a
\* step picks one input, and the invariants speak of the output.
EXTENDS Scans, ArchiveTable, ReadmeLint, DocPath, TextSniff, GitStatus, Attributes,
        Classification, Rendering, LineCounts

CONSTANTS
  TodoInputs,      \* sequences of rows for scan_todos
  SecretInputs,    \* sequences of rows for scan_secrets
  ArchiveInputs,   \* archives for inspect
  LinkInputs,      \* pairs of a member name and a link target
  ReadmeInputs,    \* documents for lint
  PathInputs,      \* repository paths for safe_doc_path
  TreeInputs,      \* pairs of directories and files for render_tree
  TextInputs,      \* sequences of pieces, each a sequence of bytes, for sniff_text
  StatusInputs,    \* entries of git status, and the tracked paths
  AttributeInputs, \* sets of .gitattributes files
  SignalInputs,    \* labels for the classification
  OriginInputs,    \* files for the role and origin hints
  RenderInputs,    \* arguments of cmd_render
  CountInputs      \* sets of counts of a tracer

\* A line of a todo scan is a set of places in MARKER_RULES.
ASSUME TodoInputAssumption ==
  \A rows \in TodoInputs :
    /\ rows \in Seq(ToSet(rows))
    /\ \A r \in ToSet(rows) : /\ r.status \in {"other", "large", "unreadable", "open"}
                             /\ r.lines \in Seq(SUBSET Nat)

\* files.jsonl has a row for each path.
ASSUME SecretInputAssumption ==
  \A rows \in SecretInputs :
    /\ rows \in Seq(ToSet(rows))
    /\ \A i, j \in DOMAIN rows : rows[i].path = rows[j].path => i = j
    /\ \A r \in ToSet(rows) : r.lines \in Seq(ToSet(r.lines))

\* git prints a path once, and the path that one comes from if its code says so.
ASSUME StatusInputAssumption ==
  \A i \in StatusInputs :
    /\ i.entries \in Seq(ToSet(i.entries))
    /\ \A j, k \in DOMAIN i.entries : i.entries[j].path = i.entries[k].path => j = k
    /\ \A e \in ToSet(i.entries) : e.path # NoPath /\ (e.code[1] \in Moved => e.from # NoPath)

\* The metadata of an archive: sizes are unsigned fields, an error is one of the
\* outcomes other than success, raised at a member or where the table ends.
ASSUME ArchiveInputAssumption ==
  \A f \in ArchiveInputs :
    /\ f.members \in Seq(ToSet(f.members)) /\ \A m \in ToSet(f.members) : m.size \in Nat
    /\ f.broken \in 0 .. Len(f.members) + 1 /\ f.error \notin {"reading", "inspected"}

\* An entry is a path of names; the directories that it is below are there, too.
ASSUME TreeInputAssumption ==
  \A i \in TreeInputs : LET entries == i.dirs \cup i.files IN
    /\ IsFiniteSet(entries)
    /\ \A e \in entries : /\ e \in Seq(Seq(Nat \ {Slash})) \ {<<>>}
                          /\ \A n \in 1 .. Len(e) - 1 : SubSeq(e, 1, n) \in i.dirs

\* A directory has one file of attributes; what a pattern matches are paths.
ASSUME AttributeInputAssumption ==
  \A files \in AttributeInputs :
    /\ IsFiniteSet(files)
    /\ \A f, g \in files : f.base = g.base => f = g
    /\ \A f \in files :
         /\ f.base \in Seq(Seq(Nat \ {Slash})) /\ f.lines \in Seq(ToSet(f.lines))
         /\ \A l \in ToSet(f.lines) : /\ l.hits \subseteq Seq(Seq(Nat \ {Slash}))
                                     /\ l.tokens \in Seq(ToSet(l.tokens))

\* The characters of a text in UTF-8; a pair that ends a line counts as one.
Characters ==
  {<<byte>> : byte \in Single} \cup {<<"CR", "LF">>}
  \cup UNION {{<<byte>> \o rest : rest \in [1 .. Wait(byte) -> Follows]} : byte \in Leads}

\* A file is cut into characters, and into bytes where it is not UTF-8.
ASSUME TextInputAssumption ==
  \A text \in TextInputs :
    /\ text \in Seq(Characters \cup {<<byte>> : byte \in Single \cup Leads \cup Follows \cup Invalid})
    /\ \A i \in 1 .. Len(text) - 1 : text[i] # <<"CR">> \/ text[i + 1] # <<"LF">>

\* A tracer counts some lines, and a file has some.
ASSUME CountInputAssumption ==
  /\ \A counts \in CountInputs : IsFiniteSet(counts)
  /\ \A f \in Measured : IsFiniteSet(Executable[f])

\* The sources are files of one directory; before a run no output is of it.
ASSUME RenderInputAssumption ==
  \A i \in RenderInputs :
    /\ i.version \in {"fails", "silent", "prints"}
    /\ i.sources \in Seq(ToSet(i.sources))
    /\ \A j, k \in DOMAIN i.sources : i.sources[j] = i.sources[k] => j = k
    /\ i.rendered = [outputs |-> i.rendered.outputs, report |-> i.rendered.report]
    /\ i.rendered.outputs \in [ToSet(i.sources) -> {"none", "earlier"}]
    /\ i.rendered.report.by = "earlier"
    /\ \A s \in ToSet(i.sources) : i.conduct[s].writes \in BOOLEAN

\* The marker of a fence is not what stands for no block.
ASSUME ReadmeInputAssumption ==
  \A doc \in ReadmeInputs :
    /\ doc.lines \in Seq(ToSet(doc.lines))
    /\ \A line \in ToSet(doc.lines) : line.kind = "fence" => line.of # "none"

\* A name that is split at "/" has a part.
ASSUME LinkInputAssumption ==
  LinkInputs \subseteq (Seq(STRING) \ {<<>>}) \X (Seq(STRING) \ {<<>>})

ASSUME PathAssumption == PathInputs \subseteq Seq(Seq(STRING)) \ {<<>>}

\* The roles that a path alone can give; the tables of file names and extensions
\* (SPECIAL_NAMES and the end of role_hints) give others.
PathRoles == {"vendored", "cache-or-build-artifact", "unknown", "first-party-source"}
ASSUME OriginAssumption ==
  \A i \in OriginInputs :
    /\ i.file.named \in Seq(ToSet(i.file.named))
    /\ ({i.file.special} \cup ToSet(i.file.named)) \cap PathRoles = {}

VARIABLES about, input

Init == about = "none" /\ input = None
Pick(topic, inputs) == about = "none" /\ about' = topic /\ input' \in inputs

PickTodos == Pick("todos", TodoInputs)
PickSecrets == Pick("secrets", SecretInputs)
PickArchive == Pick("archive", ArchiveInputs)
PickLink == Pick("link", LinkInputs)
PickReadme == Pick("readme", ReadmeInputs)
PickPath == Pick("path", PathInputs)
PickTree == Pick("tree", TreeInputs)
PickText == Pick("text", TextInputs)
PickStatus == Pick("status", StatusInputs)
PickAttributes == Pick("attributes", AttributeInputs)
PickSignals == Pick("signals", SignalInputs)
PickOrigin == Pick("origin", OriginInputs)
PickRender == Pick("render", RenderInputs)
PickCounts == Pick("counts", CountInputs)

Next ==
  \/ PickTodos \/ PickSecrets \/ PickArchive \/ PickLink \/ PickReadme
  \/ PickPath \/ PickTree \/ PickText \/ PickStatus \/ PickAttributes
  \/ PickSignals \/ PickOrigin \/ PickRender \/ PickCounts
Spec == Init /\ [][Next]_<<about, input>>
-----------------------------------------------------------------------------
\* scan_todos loses nothing in silence: every marked line of a text file is a
\* finding, under its first marker, or the file is among the skipped; and it
\* invents nothing.
TodosTold ==
  about = "todos" =>
    LET result == ScanTodos(input)
    IN /\ \A r \in Range(input) : r.status # "other" => \A i \in DOMAIN r.lines :
            r.lines[i] # {} =>
              \/ r.path \in result.skipped
              \/ \E f \in Range(result.findings) : f.path = r.path /\ f.line = i
       /\ \A f \in Range(result.findings) : \E r \in Range(input) :
            /\ f.path = r.path /\ r.status = "open" /\ f.line \in DOMAIN r.lines
            /\ f.marker \in r.lines[f.line]
            /\ \A m \in r.lines[f.line] : f.marker <= m

\* scan_secrets takes of each file it reads the first lines with a candidate, as
\* many as the cap allows, and of each line one candidate.
SecretsFirst ==
  about = "secrets" =>
    LET found == ScanSecrets(input).findings
        Secret(r) == {i \in DOMAIN r.lines : SecretOf(r.lines[i]).rule # None}
    IN \A r \in Range(input) :
         LET Reported == {k \in DOMAIN found : found[k].path = r.path}
         IN /\ {found[k].line : k \in Reported} =
                 IF r.status # "open" THEN {}
                 ELSE {i \in Secret(r) : Cardinality({j \in Secret(r) : j < i}) < MaxMatches}
            /\ \A j, k \in Reported : j < k => found[j].line < found[k].line

\* A finding of scan_secrets is marked as a duplicate exactly if an earlier one,
\* in any file, has its rule and fingerprint, and the number of different ones
\* is the number of findings without the mark.
DuplicatesTold ==
  about = "secrets" =>
    LET result == ScanSecrets(input)
    IN /\ \A k \in DOMAIN result.findings :
            result.findings[k].duplicate <=>
              \E j \in 1 .. k - 1 : result.findings[j].secret = result.findings[k].secret
       /\ result.distinct = Cardinality({k \in DOMAIN result.findings :
                                           ~result.findings[k].duplicate})

\* The counts of inspect cover every member of the archive, unless the report
\* has a cap or an error in it; each is about the members that were read.
CountsTold ==
  about = "archive" =>
    LET report == Inspect(input)
        read   == SubSeq(input.members, 1, report.members)
    IN /\ report.members <= Len(input.members)
       /\ report.members < Len(input.members) =>
            report.cap # "none" \/ report.status # "inspected"
       /\ report.status # "inspected" => input.broken # 0 \/ input.gone
       /\ input.broken # 0 /\ report.cap = "none" => report.status # "inspected"
       /\ report.traversing = Cardinality(Traversing(read))
       /\ report.escaping = Cardinality(Escaping(input.kind, read))
       /\ IsPrefix(report.listed, read)
       /\ ~report.truncated <=> report.listed = read

\* A cap in the report is never a false alarm: the count cap was met by a member
\* too many, the size cap was passed by the last member read and by no earlier.
CapsExact ==
  about = "archive" =>
    LET report   == Inspect(input)
        Total(n) == FoldLeft(LAMBDA t, m : t + m.size, 0, SubSeq(input.members, 1, n))
    IN /\ report.cap = "count" => report.members = MaxMembers /\ Len(input.members) > MaxMembers
       /\ report.cap = "size" <=> Total(report.members) > MaxTotal
       /\ \A n \in 0 .. report.members - 1 : Total(n) <= MaxTotal
       /\ report.members <= MaxMembers

\* The two tests for an escape agree: a relative target leaves the root exactly
\* if the name that it makes, seen from the directory of a relative member, does;
\* a target that is absolute always does.
EscapeAgrees ==
  about = "link" =>
    LET member == input[1]
        target == input[2]
    IN IF Absolute(target) THEN LinkEscapes(member, target)
       ELSE (~Absolute(member) /\ target # <<Empty>>) =>
              (LinkEscapes(member, target) <=> IsTraversing(Front(member) \o target))

\* The fences that open a block, without a machine: a fence opens one if every
\* block that was opened before has been closed, by a fence with its marker.
Openers(lines) ==
  LET Fences == {i \in DOMAIN lines : lines[i].kind = "fence"}
  IN CHOOSE S \in SUBSET Fences : \A i \in Fences :
       i \in S <=> \A s \in S : s < i =>
                     \E c \in Fences : s < c /\ c < i /\ lines[c].of = lines[s].of

Fenced(lines, i) ==
  \E s \in Openers(lines) :
    s < i /\ \A c \in s + 1 .. i - 1 : lines[c].kind = "fence" => lines[c].of # lines[s].of

\* A README passes exactly if it keeps the rules as they are meant: no dash, no
\* forbidden character, only plain headings outside of code blocks, every link
\* to one of them or to a numbered anchor, every section there, and The Rundown
\* among the first four; except that a forbidden character passes in a line that
\* begins with a marker, also within a block, where the rule is meant to hold too.
LintMeans ==
  about = "readme" =>
    LET lines    == input.lines
        Titles   == {i \in DOMAIN lines : lines[i].kind = "heading" /\ ~Fenced(lines, i)}
        Names(s) == {i \in Titles : s \in Sections[lines[i].of]}
    IN Lint(input).status = "PASS" <=>
         /\ ~input.dash
         /\ \A i \in DOMAIN lines : lines[i].forbidden => lines[i].kind = "fence"
         /\ \A i \in Titles : lines[i].of \notin BadTitles
         /\ \A i \in DOMAIN lines :
              lines[i].links \subseteq Numbered \cup {Anchor[lines[t].of] : t \in Titles}
         /\ input.sections => /\ \A s \in Required : Names(s) # {}
                              /\ \E i \in Names(Rundown) :
                                   Cardinality({t \in Titles : t < i}) < 4
-----------------------------------------------------------------------------
\* safe_doc_path gives different files different documents; and no document is
\* where another needs a directory, except for that of a file beside a directory
\* with its name and ".md": the documents of that directory cannot be written.
DocsApart ==
  about = "path" => \A other \in PathInputs : other # input =>
    LET doc == SafeDocPath(input)
        its == SafeDocPath(other)
    IN /\ doc # its
       /\ InTheWay(doc, its) =>
            /\ ~Remapped(input) /\ Len(input) < Len(other)
            /\ Safe(other[Len(input)]) = Last(input) \o <<".", "md">>

\* What a reader takes the path of a line for: its name, below the last line
\* before it that is one less deep.
ReadLine(lines, i) ==
  LET above == {j \in 1 .. i - 1 : lines[j].depth < lines[i].depth}
      AboveAt(d) == {j \in above : lines[j].depth = d /\ \A k \in j + 1 .. i - 1 :
                                                             lines[k].depth > d}
  IN [d \in 1 .. lines[i].depth |->
        IF d = lines[i].depth THEN lines[i].name
        ELSE IF AboveAt(d) = {} THEN <<>> ELSE lines[CHOOSE j \in AboveAt(d) : TRUE].name]

\* An entry is beside a directory if its name is that of the directory and then a
\* character before "/", as "a-b" or "a.c" beside "a".  Paths are parted from a
\* directory by what is beside it: it comes between the directory and what that holds.
Beside(dir, e) == /\ Len(e) = Len(dir) /\ Front(e) = Front(dir)
                  /\ IsStrictPrefix(Last(dir), Last(e))
                  /\ Last(e)[Len(Last(dir)) + 1] < Slash
Parted(entries, path) ==
  \E n \in 1 .. Len(path) - 1 : \E e \in entries : Beside(SubSeq(path, 1, n), e)

\* The tree lists every entry that the limit leaves room for, once, and says
\* whether one is missing.  A line reads as the path that it stands for exactly if
\* nothing parts that path from one of its directories.
TreeReads ==
  about = "tree" =>
    LET entries  == input.dirs \cup input.files
        combined == Combined(input.dirs, input.files)
        tree     == RenderTree(input.dirs, input.files)
    IN /\ ToSet(combined) = entries /\ Len(combined) = Cardinality(entries)
       /\ Len(tree.lines) = Min({TreeLimit, Cardinality(entries)})
       /\ tree.truncated <=> Len(tree.lines) < Cardinality(entries)
       /\ \A i \in DOMAIN tree.lines :
            ReadLine(tree.lines, i) = combined[i] <=> ~Parted(entries, combined[i])

\* The line end that a character is.
LineEnd(char) ==
  CASE char = <<"LF">>       -> {"LF"}
    [] char = <<"CR", "LF">> -> {"CRLF"}
    [] char = <<"CR">>       -> {"CR"}
    [] OTHER                 -> {}

\* The bytes of a text.
FileOf(text) == FoldLeft(LAMBDA file, piece : file \o piece, <<>>, text)

\* A file of UTF-8 text without control bytes is not told for what it is only if the
\* sample ends within a character, and so does the sample without its last four
\* bytes; and what is told to be UTF-8 has no byte in its sample, the last four aside,
\* that no UTF-8 has.  A byte order mark prevails, the longest that is there.  The
\* line ends are those in the sample, where half of a pair at its end counts as one.
TextTold ==
  about = "text" =>
    LET file  == FileOf(input)
        head  == HeadOf(file)
        said  == SniffText(head).encoding
        End(n) == Len(FileOf(SubSeq(input, 1, n)))
        Ends  == {End(n) : n \in 0 .. Len(input)}
        Whole == {i \in DOMAIN input : End(i) <= Len(head)}
        Marked == {m \in ToSet(ByteOrderMarks) : IsPrefix(m.bytes, head)}
    IN IF Marked # {}
       THEN \E m \in Marked : m.encoding = said /\ \A n \in Marked : Len(n.bytes) <= Len(m.bytes)
       ELSE /\ said # "utf-8" /\ head # <<>> =>
                 \/ \E i \in DOMAIN input : input[i] \notin Characters
                 \/ Contains(file, "nul") \/ Contains(file, "ctl")
                 \/ Len(head) \notin Ends /\ Len(head) - 4 \notin Ends
            /\ said = "utf-8" => \A i \in 1 .. Len(head) - 4 : head[i] \notin Invalid
            /\ DetectEol(head) =
                 (UNION {LineEnd(input[i]) : i \in Whole})
                 \cup (IF Len(head) < Len(file) /\ head # <<>> /\ Last(head) = "CR"
                          /\ Len(head) \notin Ends THEN {"CR"} ELSE {})

\* Every entry that git printed is in the status of its path, with its code, and
\* no path is there that git did not name.  Only an entry that is renamed or copied
\* in the worktree alone may add a path, cut out of the one it comes from, or give
\* that path a code; and if that begins with "R" or "C", what follows may be lost.
StatusParsed ==
  about = "status" =>
    LET entries  == input.entries
        status   == FileStatus(input.tracked, entries)
        Named    == {entries[i].path : i \in DOMAIN entries}
        Astray   == {i \in DOMAIN entries : entries[i].from # NoPath /\ entries[i].code[1] \notin Moved}
        Derailed == {i \in Astray : Split[entries[i].from].code[1] \in Moved}
        Cut(path) == \E i \in DOMAIN entries : /\ entries[i].from # NoPath
                                               /\ Split[entries[i].from].path = path
        Flagged(f) == {p \in DOMAIN status : f \in status[p].flags}
    IN /\ \A i \in DOMAIN entries : (\A j \in Derailed : i <= j) =>
            /\ entries[i].path \in DOMAIN status
            /\ Astray = {} \/ ~Cut(entries[i].path) =>
                 status[entries[i].path].porcelain = entries[i].code
       /\ (DOMAIN status) \ (input.tracked \cup Named) # {} => Astray # {}
       /\ Flagged("tracked") = input.tracked
       /\ Astray = {} => \A i \in DOMAIN entries : LET e == entries[i] IN
            /\ e.code = <<"!", "!">> <=> e.path \in Flagged("ignored")
            /\ e.code = <<"?", "?">> <=> e.path \in Flagged("untracked")

\* The attributes of a path as gitattributes(5) defines them: of the lines that
\* match it and speak of a key, the last one in the deepest directory decides.
Speaks(line, path, key) == path \in line.hits /\ \E t \in ToSet(line.tokens) : t.key = key
Deciding(files, path, key) ==
  LET Speaking(f) == {i \in DOMAIN f.lines : Speaks(f.lines[i], path, key)}
      deepest == CHOOSE f \in files : /\ IsPrefix(f.base, path) /\ Speaking(f) # {}
                                      /\ \A g \in files : IsPrefix(g.base, path) /\ Speaking(g) # {}
                                                            => Len(g.base) <= Len(f.base)
  IN deepest.lines[Max(Speaking(deepest))]

\* The attributes found for a path are those that git has for it, if no line that
\* matches it unsets a key and no directory above it with a file of its own sorts
\* before ".gitattributes": such a file is overruled by those above it.
AttributesMean ==
  about = "attributes" =>
    LET rules == LoadGitattributes(input)
        Matching(path) == {f \in input : /\ IsPrefix(f.base, path)
                                         /\ \E l \in ToSet(f.lines) : path \in l.hits}
    IN \A path \in UNION {l.hits : l \in UNION {ToSet(f.lines) : f \in input}} :
         LET found == MatchGitattributes(rules, path)
             Plain == \A f \in Matching(path) :
                        /\ \A l \in ToSet(f.lines) : \A t \in ToSet(l.tokens) : t.sign = "none"
                        /\ \A i \in DOMAIN f.base : ~Before(<<f.base[i]>>, <<AttributesName>>)
             Keys == {t.key : t \in UNION {ToSet(l.tokens) :
                                             l \in UNION {ToSet(f.lines) : f \in Matching(path)}}}
         IN Plain => \A key \in Keys :
              LET Spoken == \E f \in Matching(path) : \E l \in ToSet(f.lines) : Speaks(l, path, key)
              IN /\ key \in DOMAIN found <=> Spoken
                 /\ Spoken => \E t \in ToSet(Deciding(input, path, key).tokens) :
                                t.key = key /\ t.value = found[key]

\* The label of a file is that of the strongest signal there is, in the order of
\* evidence.md, and a conflict is another label.  No confidence is low: a guess from
\* the content, the weakest rule, has a high one, for its name starts like E1.
ClassificationMeans ==
  about = "signals" =>
    LET result == Classify(input)
        Given  == {i \in DOMAIN Cascade : input[Cascade[i]] # NoLabel}
        Labels == {input[Cascade[i]] : i \in Given}
    IN /\ Given # {} => /\ result.primary = input[Cascade[Min(Given)]]
                        /\ result.alternatives # <<>> <=> Cardinality(Labels) > 1
                        /\ {input[s] : s \in ToSet(result.alternatives)} = Labels \ {result.primary}
       /\ Given = {} => result.primary = input.content /\ result.alternatives = <<>>
       /\ result.confidence = "medium" <=> result.evidence \in {"modeline", "extension", "structured"}
       /\ result.evidence = "content" => result.confidence = "high"
       /\ result.confidence # "low"

\* Role and origin of a record do not contradict each other: git's own files have
\* both; what is vendored by its path is so in both, whatever else it may be; the
\* project's own source by role has another origin only for an attribute, a mark
\* or a pattern for generated paths; and an origin of its own goes with no path of
\* dependencies or builds, though it may be of another version control system.
HintsAgree ==
  about = "origin" =>
    LET roles  == Roles(input.file, input.label)
        origin == Origin(input.file)
        Overruled == "set" \in {input.file.vendored, input.file.linguistGenerated}
        Has(role) == role \in ToSet(roles)
    IN /\ ~Overruled => /\ origin = "vcs-metadata" => Head(roles) = "vcs-metadata"
                        /\ origin = "vendored" => Has("vendored")
                        /\ Has("vendored") => origin \in {"vendored", "vcs-metadata"}
       /\ Head(roles) = "first-party-source" /\ origin # "first-party" =>
            Overruled \/ (origin = "generated" /\ (input.file.generated \/ input.file.marked))
       /\ origin = "first-party" => ~Has("vendored") /\ ~Has("cache-or-build-artifact")

\* A report of cmd_render speaks of each diagram once; what it calls rendered has
\* an output, and this run has made it unless the renderer ended well and wrote
\* nothing over an earlier one.  It is the report of this run unless the renderer
\* told no version.
RenderTells ==
  about = "render" =>
    LET after  == CmdRender(input.rendered, input.version, input.sources, input.conduct)
        report == after.report
        ok     == ToSet(report.ok)
        failed == ToSet(report.failed)
    IN /\ report.by # "this" <=> input.version = "silent"
       /\ input.version = "prints" =>
            /\ ok \cup failed = ToSet(input.sources) /\ ok \cap failed = {}
            /\ report.status = "rendered" <=> failed = {}
            /\ \A s \in ok : \/ after.outputs[s] = "this"
                             \/ after.outputs[s] = "earlier" /\ ~input.conduct[s].writes
            /\ \A s \in failed : input.conduct[s].code # 0 \/ after.outputs[s] = "none"
       /\ input.version # "prints" => after.outputs = input.rendered.outputs

\* What is measured is what was run: a file has one row, whatever names it was seen
\* under, its covered lines are the executable ones that some name ran, the totals
\* are those of the rows, and an artifact is shared only by files that sys.path
\* gives the same module name.
CountsMean ==
  about = "counts" =>
    LET rows == Rows(input)
        Ran(f) == {l \in Executable[f] : \E c \in input : Resolved[c.name] = f /\ c.line = l}
        Seen == {f \in Measured : \E c \in input : Resolved[c.name] = f}
        all == Measure(input)
    IN /\ {r.file : r \in rows} = Seen /\ Cardinality(rows) = Cardinality(Seen)
       /\ \A r \in rows : r.covered = Cardinality(Ran(r.file)) /\ r.covered <= r.total
       /\ all.covered = Cardinality(UNION {{f} \X Ran(f) : f \in Seen})
       /\ all.measured <=> \E f \in Seen : Executable[f] # {}
       /\ Cardinality(all.artifacts) < Cardinality(rows) =>
            \E f, g \in Seen : f # g /\ FullName[f] = FullName[g]
=============================================================================
