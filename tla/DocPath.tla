------------------------------ MODULE DocPath ------------------------------
\* common.safe_doc_path: the document that belongs to a repository path.
EXTENDS Integers, Sequences, FiniteSets, SequencesExt

CONSTANTS
  Reserved,     \* WINDOWS_RESERVED, in any case
  Escape        \* what a forbidden or control character is written as

\* A path is the sequence of its components, a component a sequence of
\* characters; a word and an escape count as one character each.
Blank == {".", " "}

\* Both loops over the characters of a component.
Escaped(part) == [i \in DOMAIN part |-> IF part[i] \in DOMAIN Escape THEN Escape[part[i]] ELSE part[i]]

\* A device name is not to be the part before the first dot.
Prefixed(part) ==
  IF part # <<>> /\ Head(part) \in Reserved /\ (Len(part) > 1 => part[2] = ".")
  THEN <<"_">> \o part ELSE part

\* Nor is the last character to be a dot or a space.
Trimmed(part) ==
  IF part # <<>> /\ Last(part) \in Blank
  THEN SubSeq(part, 1, SelectLastInSeq(part, LAMBDA c : c \notin Blank)) \o <<"_">> ELSE part

Safe(part) == Trimmed(Prefixed(Escaped(part)))
Remapped(path) == \E i \in DOMAIN path : Safe(path[i]) # path[i]

\* The document has the name of the path with ".md" after it; if a component was
\* changed, the digest of a path stands before the ".md".
DocName(path) ==
  [i \in 1 .. Len(path) |->
     IF i = Len(path) THEN Safe(path[i]) \o <<".", "md">> ELSE Safe(path[i])]

\* Mutant: the digest is of the path after escaping.
SafeDocPathLate(path) ==
  [name |-> DocName(path),
   digest |-> IF Remapped(path) THEN [i \in DOMAIN path |-> Safe(path[i])] ELSE <<>>]

\* safe_doc_path.  The digest is that of the path as it was; it stands here for
\* the path, and no component of a path is spelled with a digest of another.
SafeDocPath(path) ==
  [name |-> DocName(path), digest |-> IF Remapped(path) THEN path ELSE <<>>]

\* The document at `doc` is where a directory of the other one has to be.
InTheWay(doc, other) == doc.digest = <<>> /\ IsStrictPrefix(doc.name, other.name)
=============================================================================
