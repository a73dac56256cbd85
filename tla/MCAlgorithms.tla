---------------------------- MODULE MCAlgorithms ----------------------------
\* Small inputs for Algorithms.
EXTENDS Algorithms

Lines(S, n) == UNION {[1 .. k -> S] : k \in 0 .. n}
Row(p, s, ls) == [path |-> p, status |-> s, lines |-> ls]

\* Two files: the first may pass the cap of two, the second comes after it.
MCTodoInputs ==
  LET Marks == SUBSET {1, 2}
  IN {<<Row("f", "open", first), Row("g", status, second)>> :
        first \in Lines(Marks, 4), second \in Lines(Marks, 1),
        status \in {"open", "large", "unreadable", "other"}}

MCRules == <<"github-token", "generic-assignment">>
Line(named, assigned, tokens) == [named |-> <<named, assigned>>, tokens |-> tokens]
MCSecretLines ==
  {Line(None, None, <<>>),                              \* nothing
   Line("b1", None, <<"b1">>), Line("b2", None, <<>>),  \* a named token
   Line(None, "c1", <<>>), Line(None, "p1", <<>>),      \* an assignment, a placeholder
   Line(None, "p1", <<"b1">>),                          \* refused, with a token behind it
   Line("b1", "c1", <<>>),                              \* both rules
   Line(None, None, <<"c1", "b1">>), Line(None, None, <<"b2", "b1">>)}
MCSecretInputs ==
  {<<Row("f", "open", first), Row("g", status, second)>> :
     first \in Lines(MCSecretLines, 3), second \in Lines(MCSecretLines, 1),
     status \in {"open", "large"}}

Member(name, size, link) == [name |-> name, size |-> size, link |-> link]
MCMembers == {Member(<<"a">>, 1, <<"">>), Member(<<"..", "a">>, 1, <<"">>),
              Member(<<"d", "l">>, 0, <<"..", "..", "x">>), Member(<<"b">>, 3, <<"">>)}
MCArchiveInputs ==
  UNION {[kind : {"zip"}, error : {"malformed", "not-an-archive"}, broken : {0, 1},
          gone : {FALSE}, members : [1 .. n -> MCMembers]]
         \cup [kind : {"tar"}, error : {"malformed", "parser-error"}, broken : 0 .. n + 1,
               gone : BOOLEAN, members : [1 .. n -> MCMembers]] : n \in 0 .. 4}

MCNames(n) == UNION {[1 .. k -> {"", ".", "..", "a", "C:"}] : k \in 1 .. n}
MCLinkInputs == MCNames(3) \X MCNames(3)

MCSections == [rundown |-> {"The Rundown"}, rest |-> {"Components"}, intro |-> {}, smile |-> {}]
MCAnchor == [rundown |-> "the-rundown", rest |-> "components", intro |-> "intro", smile |-> "intro"]
Is(kind, of) == [kind |-> kind, of |-> of, forbidden |-> FALSE, links |-> {}]
Plain == Is("plain", None)
WithArrow(line) == [line EXCEPT !.forbidden = TRUE]
WithLinks(line, targets) == [line EXCEPT !.links = targets]
MCReadmeLines ==
  {Plain, WithArrow(Plain), Is("fence", "backticks"), Is("fence", "tildes"),
   WithArrow(Is("fence", "backticks")), WithLinks(Is("fence", "tildes"), {"components"}),
   Is("heading", "rundown"), Is("heading", "rest"), Is("heading", "intro"),
   WithArrow(WithLinks(Is("heading", "smile"), {"intro"})),
   WithLinks(Plain, {"components", "intro-1"})}
MCFences == {Is("fence", "backticks"), WithArrow(Is("fence", "tildes")), Is("heading", "rest"),
             Is("heading", "smile"), WithLinks(Plain, {"components"})}
MCHeadings == {Is("heading", "rundown"), Is("heading", "rest"), Is("fence", "backticks")}
Document(ls, dash, sections) == [lines |-> ls, dash |-> dash, sections |-> sections]
MCReadmeInputs ==
  {Document(ls, dash, sections) : ls \in Lines(MCReadmeLines, 3),
     dash \in BOOLEAN, sections \in BOOLEAN}
  \cup {Document(ls, FALSE, FALSE) : ls \in Lines(MCFences, 6)}
  \cup {Document(ls, FALSE, TRUE) : ls \in Lines(MCHeadings, 6)}

\* Components of a path: one character for what escaping tells apart.
MCEscape == (":" :> "%3A")
MCParts(n) ==
  {part \in Lines({"a", ":", ".", " ", "con", "_", "%3A", "md"}, n) :
     part # <<>> /\ part \notin {<<".">>, <<".", ".">>}}
MCPathInputs ==
  {<<part>> : part \in MCParts(3)}
  \cup {<<dir, part>> : dir \in {<<"a">>, <<"a", ".">>, <<"a", ".", "md">>, <<"con", ".", "md">>,
                                 <<"_", "con", ".", "md">>, <<"a", ":">>},
                        part \in MCParts(1)}

\* Names of "a", "b" (97, 98) with "-" or "." (45, 46), which come before "/", or not.
MCTreeInputs ==
  {[dirs |-> {<<d>> : d \in dirs}, files |-> {<<f>> : f \in files} \cup held] :
     dirs \in {{<<97>>}, {<<97>>, <<97, 45, 98>>}, {<<97>>, <<97, 98>>}},
     files \in SUBSET {<<97, 46, 98>>, <<97, 98, 97>>},
     held \in SUBSET {<<<<97>>, <<97>>>>, <<<<97>>, <<98>>>>}}
  \cup {[dirs |-> {<<<<97>>>>, <<<<98>>>>, <<<<98>>, <<97>>>>, <<<<98>>, <<97, 45>>>>},
         files |-> files] :
          files \in SUBSET {<<<<97>>, <<97>>>>, <<<<98>>, <<97>>, <<97>>>>,
                            <<<<98>>, <<97, 45>>, <<98>>>>, <<<<98>>, <<97>>, <<98>>>>}}
  \cup {[dirs |-> {<<<<97>>>>, <<<<97, 45>>>>, <<<<97, 45>>, <<98>>>>, <<<<97>>, <<98>>>>},
         files |-> files \cup {<<<<97>>, <<98>>, <<97>>>>}] :   \* "a/b/a" reads as "a-/b/a"
          files \in SUBSET {<<<<97, 45>>, <<98, 45>>>>, <<<<97, 45>>, <<98>>, <<97>>>>}}

MCChars == {<<"1">>, <<"2", "c">>, <<"2", "u">>, <<"3", "c", "c">>, <<"4", "c", "c", "c">>,
            <<"bad">>, <<"c">>, <<"LF">>, <<"CR", "LF">>, <<"CR">>}
MCMarked == {<<"EF", "BB", "BF">>, <<"FF", "FE">>, <<"FF", "FE", "nul", "nul">>,
             <<"nul", "nul", "FE", "FF">>, <<"FE", "FF">>}
MCTextInputs ==
  {text \in Lines(MCChars, 4) \cup [1 .. 5 -> {<<"1">>, <<"2", "u">>, <<"3", "c", "c">>, <<"bad">>}] :
     \A i \in 1 .. Len(text) - 1 : text[i] # <<"CR">> \/ text[i + 1] # <<"LF">>}
  \cup {[i \in DOMAIN mark |-> <<mark[i]>>] \o text :
          mark \in MCMarked \cup {<<>>}, text \in Lines({<<"1">>, <<"nul">>, <<"ctl">>}, 2)}

\* "README" and "CHANGES" begin with a letter that is a code, "abc" is too short.
MCSplit == [README |-> [code |-> <<"R", "E">>, path |-> "DME"],
            CHANGES |-> [code |-> <<"C", "H">>, path |-> "NGES"],
            library |-> [code |-> <<"l", "i">>, path |-> "rary"],
            abc |-> [code |-> <<"a", "b">>, path |-> NoPath]]
Entry(x, y, path, from) == [code |-> <<x, y>>, path |-> path, from |-> from]
MCEntries ==
  {Entry(" ", "M", "m1", NoPath), Entry("?", "?", "u1", NoPath), Entry("!", "!", "i1", NoPath),
   Entry("?", "?", "rary", NoPath)}   \* which "library" gives, too
  \cup {Entry(x, " ", "r1", from) : x \in {"R", "C"}, from \in DOMAIN MCSplit}
  \cup {Entry(" ", x, "r2", from) : x \in {"R", "C"}, from \in DOMAIN MCSplit}
MCStatusInputs ==
  {[entries |-> es, tracked |-> tracked] :
     es \in {s \in Lines(MCEntries, 3) : IsInjective([i \in DOMAIN s |-> s[i].path])},
     tracked \in {{"m1", "r1"}, {"README", "m1"}}}

MCAttributesName == <<46, 103>>
Set(key, value) == [sign |-> "none", key |-> key, value |-> value]
MCTokens == {Set("language", "C"), Set("language", "D"), Set("vendored", "set"),
             [sign |-> "-", key |-> "vendored", value |-> "set"],
             [sign |-> "!", key |-> "language", value |-> "set"]}
MCFiles == {<<<<45>>, <<97>>, <<98>>>>, <<<<97>>, <<45>>, <<98>>>>}   \* "-/a/b", "a/-/b"
MCAttributeInputs ==
  UNION {{{[base |-> SubSeq(file, 1, at[1]), lines |-> <<[hits |-> {file}, tokens |-> <<s>>],
                                                     [hits |-> {file}, tokens |-> <<t>>]>>],
           [base |-> SubSeq(file, 1, at[2]), lines |-> <<[hits |-> hits, tokens |-> <<u, v>>]>>]} :
            at \in {<<0, 1>>, <<0, 2>>, <<1, 2>>}, s, t, u, v \in MCTokens,
            hits \in {{}, {file}}} : file \in MCFiles}

MCSignalInputs ==
  {s \in [DOMAIN Rule -> {NoLabel, "C", "D"}] :
     s.structured # "D" /\ s.magic # "D" /\ s.special # "C" /\ s.content # "D"}

MCOriginInputs ==
  [label : {NoLabel, "C"},
   file : [segs : Lines({"git", "vcs", "vendor", "build", "both", "test"}, 2),
           special : {"", "build-manifest"}, named : {<<>>, <<"documentation">>},
           generated : BOOLEAN, marked : BOOLEAN,
           vendored : {"none", "set", "valued"}, linguistGenerated : {"none", "set"}]]

MCRenderInputs ==
  {[version |-> version, sources |-> <<"d1", "d2">>, conduct |-> conduct,
    rendered |-> [outputs |-> outputs,
                  report |-> [status |-> "partial", by |-> "earlier", ok |-> <<>>, failed |-> <<>>]]] :
     version \in {"fails", "silent", "prints"},
     conduct \in [{"d1", "d2"} -> [code : {0, 1, 124}, writes : BOOLEAN]],
     outputs \in [{"d1", "d2"} -> {"none", "earlier"}]}

\* Two names for one file, two files with one module name, one file outside.
MCResolved == [n1 |-> "f", n2 |-> "f", n3 |-> "g", n4 |-> "h", out |-> "x"]
MCExecutable == [f |-> {1, 2}, g |-> {1}, h |-> {}]
MCFullName == [f |-> "m", g |-> "m", h |-> "h"]
MCCountInputs ==
  {counts \in SUBSET [name : DOMAIN MCResolved, line : 1 .. 3] :
     Cardinality(counts) <= 4}
=============================================================================
