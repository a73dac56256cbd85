--------------------------- MODULE Classification ---------------------------
\* The conclusions of inventory.build_record: language, role and origin of a file,
\* each the first of a list of rules that applies.
EXTENDS Integers, Sequences, FiniteSets, SequencesExt

CONSTANT SourceLabels   \* the labels for which is_source_language holds

NoLabel == ""

\* A rule is named by the digits of its number: "E10" starts with "E1".
Rule == [language |-> <<"1">>, special |-> <<"2">>, modeline |-> <<"3">>, shebang |-> <<"4">>,
         extension |-> <<"5">>, magic |-> <<"6">>, structured |-> <<"7">>, content |-> <<"1", "0">>]
Cascade == <<"language", "special", "modeline", "shebang", "extension", "magic", "structured">>
StartsWith(rule, numbers) == \E n \in numbers : IsPrefix(<<n>>, rule)

\* What a loop has gathered that appends the elements of a set.
Chosen(seq, kept) ==
  FoldLeft(LAMBDA found, x : IF x \in kept THEN Append(found, x) ELSE found, <<>>, seq)

\* The candidates, strongest first; the content is asked only if there is none.
\* signals[s] is the label the signal s gives.
Candidates(signals) ==
  LET given == Chosen(Cascade, {s \in ToSet(Cascade) : signals[s] # NoLabel})
  IN IF given = <<>> /\ signals.content # NoLabel THEN <<"content">> ELSE given

\* Mutant: every candidate after the first is an alternative.
AlternativesAll(signals, candidates) == Tail(candidates)

\* The candidates that give another label than the first.
Alternatives(signals, candidates) ==
  Chosen(Tail(candidates), {s \in ToSet(candidates) : signals[s] # signals[Head(candidates)]})

\* The classification of build_record.
Classify(signals) ==
  LET candidates == Candidates(signals)
      rule       == Rule[Head(candidates)]
  IN IF candidates = <<>>
     THEN [primary |-> NoLabel, evidence |-> NoLabel, alternatives |-> <<>>, confidence |-> NoLabel]
     ELSE [primary |-> signals[Head(candidates)], evidence |-> Head(candidates),
           alternatives |-> Alternatives(signals, candidates),
           confidence |-> CASE StartsWith(rule, {"1", "2", "4", "6"}) -> "high"
                            [] StartsWith(rule, {"3", "5", "7"})      -> "medium"
                            [] OTHER                                 -> "low"]
-----------------------------------------------------------------------------
\* A path is described by the kinds of its directories, from the top: "git" is
\* ".git", "vcs" the directory of another system, "vendor", "build" and "both" are
\* in VENDOR_DIRS, in BUILD_ARTIFACT_DIRS or in both, "plain" and "test" in
\* neither; only directories count.  `generated` says that a pattern for generated paths matches it.
Vendors == {"vendor", "both"}
Builds == {"build", "both"}
Under(segs, kinds) == \E i \in DOMAIN segs : segs[i] \in kinds

\* role_hints: a role for each list that a directory is in, "test" for all the lists
\* that nothing else depends on; that of a `special` file name comes before them,
\* those that name and extension tell, `named`, after.
RoleHints(file) ==
  LET When(applies, role) == IF applies THEN <<role>> ELSE <<>>
      In(kinds) == Under(file.segs, kinds)
      hints == When(file.segs # <<>> /\ Head(file.segs) = "git", "vcs-metadata")
               \o When(In({"vcs"}), "vcs-metadata")
               \o When(file.special # "", file.special)
               \o When(In(Vendors), "vendored") \o When(In(Builds), "cache-or-build-artifact")
               \o When(In({"test"}), "test") \o file.named
  IN IF hints = <<>> THEN <<"unknown">> ELSE hints

\* The roles in a record: a source file with no role but "unknown" is taken for the
\* project's own.
Roles(file, label) ==
  LET hints == RoleHints(file)
  IN IF Head(hints) = "unknown" /\ label \in SourceLabels
     THEN <<"first-party-source">> \o hints ELSE hints

\* Mutant: build directories come first.
OriginHintsBuildFirst(file) ==
  CASE file.segs # <<>> /\ Head(file.segs) = "git" -> "vcs-metadata"
    [] Under(file.segs, Builds)                    -> "generated"
    [] Under(file.segs, Vendors)                   -> "vendored"
    [] file.generated \/ file.marked               -> "generated"
    [] OTHER                                       -> "first-party"

\* origin_hints; `marked` says that the text has a mark of a generator.
OriginHints(file) ==
  IF file.segs # <<>> /\ Head(file.segs) = "git" THEN "vcs-metadata"
  ELSE IF Under(file.segs, Vendors) THEN "vendored"
  ELSE IF file.generated \/ file.marked \/ Under(file.segs, Builds) THEN "generated"
  ELSE "first-party"

\* The origin in a record: the attributes of the path come first, if they are set
\* and not if they have a value.
Origin(file) ==
  IF file.vendored = "set" THEN "vendored"
  ELSE IF file.linguistGenerated = "set" THEN "generated"
  ELSE OriginHints(file)
=============================================================================
