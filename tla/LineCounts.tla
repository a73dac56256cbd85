----------------------------- MODULE LineCounts -----------------------------
\* coverage._child_main and measure: the rows and totals that are made of the
\* counts of a tracer.
EXTENDS Integers, Sequences, FiniteSets, SequencesExt

CONSTANTS
  Resolved,    \* the file each name the tracer has seen stands for
  Measured,    \* the files: in the worktree, Python, and still there
  Executable,  \* the executable lines of each of them; {} if it does not parse
  FullName     \* the module name of each of them, seen from sys.path

\* A count is a name, a line and how often it ran.
\* Mutant: a row for each name.
PerFileByName(counts) ==
  {[file |-> Resolved[n], lines |-> {c.line : c \in {d \in counts : d.name = n}}] :
     n \in {c.name : c \in {d \in counts : Resolved[d.name] \in Measured}}}

\* per_file: the lines of a file under all its names.
PerFile(counts) ==
  {[file |-> f, lines |-> {c.line : c \in {d \in counts : Resolved[d.name] = f}}] :
     f \in Measured \cap {Resolved[c.name] : c \in counts}}

\* The row of a file, and the artifact that is written for it.
FileRow(entry) ==
  [file |-> entry.file,
   covered |-> Cardinality({l \in Executable[entry.file] : l \in entry.lines}),
   total |-> Cardinality(Executable[entry.file]),
   artifact |-> FullName[entry.file]]
Rows(counts) == {FileRow(e) : e \in PerFile(counts)}

\* measure: the sums, and whether anything was measured.
Measure(counts) ==
  LET covered == MapThenSumSet(LAMBDA r : r.covered, Rows(counts))
      total   == MapThenSumSet(LAMBDA r : r.total, Rows(counts))
  IN [measured |-> total > 0, covered |-> covered, total |-> total,
      artifacts |-> {r.artifact : r \in Rows(counts)}]
=============================================================================
