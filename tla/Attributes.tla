----------------------------- MODULE Attributes -----------------------------
\* inventory.load_gitattributes and match_gitattributes: the linguist attributes
\* of a path, out of every .gitattributes file of the repository.
EXTENDS Integers, Sequences, FiniteSets, TreeListing

CONSTANT AttributesName   \* the bytes of ".gitattributes"

ASSUME AttributesAssumption == AttributesName \in Seq(Nat \ {Slash})

\* A file is the directory `base` it is in and its lines; a line has the paths its
\* pattern matches and its tokens, each a sign ("none", "-" or "!"), a key and a
\* value, "set" if the token states none.

\* dict.update: what attrs has prevails.
Updated(result, attrs) ==
  [key \in DOMAIN result \cup DOMAIN attrs |-> IF key \in DOMAIN attrs THEN attrs[key] ELSE result[key]]

\* The attributes a line sets.  A token is only looked at if it starts with
\* "linguist-", so that the branch for one that starts with "-" is never taken.
Attrs(line) ==
  FoldLeft(LAMBDA attrs, t : IF t.sign = "none" THEN Updated(attrs, [key \in {t.key} |-> t.value])
                             ELSE attrs,
           <<>>, line.tokens)

\* The files in the order of their paths.
AttrPath(f) == Append(f.base, AttributesName)
AttrOrder(f, g) == Before(AttrPath(f), AttrPath(g))

\* load_gitattributes: the rules of all files, the lines that set something.
RulesIn(rules, f) ==
  FoldLeft(LAMBDA found, l : IF DOMAIN Attrs(l) = {} THEN found
                             ELSE Append(found, [base |-> f.base, hits |-> l.hits, attrs |-> Attrs(l)]),
           rules, f.lines)
LoadGitattributes(files) == FoldLeft(RulesIn, <<>>, InOrder(files, AttrOrder))

\* Mutant: the first rule that matches prevails.
MatchGitattributesFirst(rules, path) ==
  FoldLeft(LAMBDA result, r :
             IF IsPrefix(r.base, path) /\ path \in r.hits THEN Updated(r.attrs, result) ELSE result,
           <<>>, rules)

\* match_gitattributes: of the rules that match a path, a later one prevails.
MatchGitattributes(rules, path) ==
  FoldLeft(LAMBDA result, r :
             IF IsPrefix(r.base, path) /\ path \in r.hits THEN Updated(result, r.attrs) ELSE result,
           <<>>, rules)
=============================================================================
