------------------------------- MODULE Scans -------------------------------
\* The two line scans of scan.py, `todos` and `secrets`: which lines of which
\* inventoried files become findings, what is said of the rest, and what is
\* marked as a duplicate.  A pattern is what it matches: a line carries the
\* rules that match it and the values they capture, and the classification of
\* a finding is left out.
EXTENDS Naturals, Sequences, FiniteSets, SequencesExt

CONSTANTS
  MaxMatches,   \* MAX_MATCHES_PER_FILE
  Rules,        \* SECRET_RULES, the identifiers in declaration order
  Assignments,  \* the rules whose values are looked at again
  Credible,     \* the values that are no placeholders and have entropy 2.6
  Blob          \* those of 32 characters and entropy 4.2

ASSUME ScansAssumption ==
  /\ MaxMatches \in Nat \ {0}
  /\ Assignments \subseteq Range(Rules)
  /\ Blob \subseteq Credible

None == "none"

\* A row of files.jsonl is its path, its lines, and a status: "other" is no
\* regular file or no text, "large" and "unreadable" are not scanned, "open" is.

\* What the loop over a file has: the findings, and whether it met the cap.
Started == [found |-> <<>>, capped |-> FALSE]
-----------------------------------------------------------------------------
\* A line of a todo scan is the set of the places in MARKER_RULES of the
\* markers on it; the first in declaration order is reported.
FirstMarker(line) == CHOOSE m \in line : \A o \in line : m <= o

\* The cap is looked at before a line is, so that it is met only if there is
\* a line after the last finding.
TodoLine(path, file, i, line) ==
  CASE file.capped -> file
    [] ~file.capped /\ Len(file.found) >= MaxMatches -> [file EXCEPT !.capped = TRUE]
    [] ~file.capped /\ Len(file.found) < MaxMatches /\ line = {} -> file
    [] OTHER -> [file EXCEPT !.found =
                   Append(@, [path |-> path, line |-> i, marker |-> FirstMarker(line)])]

TodoFile(row) ==
  FoldLeftDomain(LAMBDA file, i : TodoLine(row.path, file, i, row.lines[i]), Started, row.lines)

\* Mutant: the cap ends the file without a note.
TodoRowSilent(result, row) ==
  CASE row.status = "other" -> result
    [] row.status \in {"large", "unreadable"} -> [result EXCEPT !.skipped = @ \cup {row.path}]
    [] row.status = "open" -> [result EXCEPT !.findings = @ \o TodoFile(row).found]

TodoRow(result, row) ==
  CASE row.status = "other" -> result
    [] row.status \in {"large", "unreadable"} -> [result EXCEPT !.skipped = @ \cup {row.path}]
    [] row.status = "open" ->
         [findings |-> result.findings \o TodoFile(row).found,
          skipped |-> result.skipped \cup IF TodoFile(row).capped THEN {row.path} ELSE {}]

ScanTodos(rows) ==
  FoldLeft(LAMBDA result, row : TodoRow(result, row), [findings |-> <<>>, skipped |-> {}], rows)
-----------------------------------------------------------------------------
\* A line of a secret scan: the value that each rule captures, or None, and
\* the long tokens on it.  A digest stands for the value it is taken from; no
\* rule captures an empty value.
Captures(line, k) ==
  line.named[k] # None /\ (Rules[k] \in Assignments => line.named[k] \in Credible)

\* The first rule whose value is accepted; if there is none, also if one has
\* matched and its value was refused, the first token that is a blob.
SecretOf(line) ==
  LET named  == {k \in DOMAIN Rules : Captures(line, k)}
      tokens == {k \in DOMAIN line.tokens : line.tokens[k] \in Blob}
      First(places) == CHOOSE k \in places : \A o \in places : k <= o
  IN CASE named # {} -> [rule |-> Rules[First(named)], value |-> line.named[First(named)]]
       [] named = {} /\ tokens # {} ->
            [rule |-> "high-entropy-string", value |-> line.tokens[First(tokens)]]
       [] OTHER -> [rule |-> None, value |-> None]

\* Mutant: one match too many is taken.
SecretLineLate(path, scan, i, line) ==
  LET secret == SecretOf(line)
  IN IF scan.matches > MaxMatches \/ secret.rule = None THEN scan
     ELSE [matches |-> scan.matches + 1,
           seen |-> scan.seen \cup {secret},
           findings |-> Append(scan.findings,
             [path |-> path, line |-> i, secret |-> secret, duplicate |-> secret \in scan.seen])]

\* `seen` lives as long as the scan, the count of matches as long as the file.
SecretLine(path, scan, i, line) ==
  LET secret == SecretOf(line)
  IN IF scan.matches >= MaxMatches \/ secret.rule = None THEN scan
     ELSE [matches |-> scan.matches + 1,
           seen |-> scan.seen \cup {secret},
           findings |-> Append(scan.findings,
             [path |-> path, line |-> i, secret |-> secret, duplicate |-> secret \in scan.seen])]

\* Mutant: what was seen is forgotten with the file.
SecretRowForgets(scan, row) ==
  IF row.status # "open" THEN scan
  ELSE FoldLeftDomain(LAMBDA s, i : SecretLine(row.path, s, i, row.lines[i]),
                      [scan EXCEPT !.matches = 0, !.seen = {}], row.lines)

SecretRow(scan, row) ==
  IF row.status # "open" THEN scan
  ELSE FoldLeftDomain(LAMBDA s, i : SecretLine(row.path, s, i, row.lines[i]),
                      [scan EXCEPT !.matches = 0], row.lines)

\* distinct_fingerprints counts `seen`.
ScanSecrets(rows) ==
  LET scan == FoldLeft(LAMBDA s, row : SecretRow(s, row),
                       [matches |-> 0, seen |-> {}, findings |-> <<>>], rows)
  IN [findings |-> scan.findings, distinct |-> Cardinality(scan.seen)]
=============================================================================
