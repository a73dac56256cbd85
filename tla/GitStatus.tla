----------------------------- MODULE GitStatus -----------------------------
\* inventory.collect_git_file_status: what `git status --porcelain=v1 -z` prints,
\* taken apart again.
EXTENDS Integers, Sequences, FiniteSets, SequencesExt

CONSTANT Split   \* what a path gives when it is taken for an entry: a code and a path

NoPath == ""
Moved == {"R", "C"}
-----------------------------------------------------------------------------
\* git prints an entry as its code and its path; of an entry that was renamed or
\* copied, in the index or in the worktree, the path it comes `from` is the next
\* token, without a code.
Tokens(entries) ==
  FoldLeft(LAMBDA text, e : text \o <<[code |-> e.code, path |-> e.path]>>
                                 \o (IF e.from = NoPath THEN <<>> ELSE <<Split[e.from]>>),
           <<>>, entries)

Flag(code) ==
  CASE code = <<"!", "!">> -> "ignored"
    [] code = <<"?", "?">> -> "untracked"
    [] OTHER -> "modified_or_staged"

Flags(status, path) == IF path \in DOMAIN status THEN status[path].flags ELSE {}

\* The record of a path is made or changed.
Note(status, token) ==
  [p \in DOMAIN status \cup {token.path} |->
     IF p = token.path
     THEN [porcelain |-> token.code, flags |-> Flags(status, p) \cup {Flag(token.code)}]
     ELSE status[p]]

\* Mutant: only renames are looked for.
HasSourceRenamed(code) == code[1] = "R"

\* The code says that the path it comes from follows.
HasSource(code) == code[1] \in Moved

\* One turn of the loop over the tokens; `skip` is set when the next is a source.
\* A token of fewer than four characters has no path.
TakeToken(read, token) ==
  IF read.skip THEN [read EXCEPT !.skip = FALSE]
  ELSE IF token.path = NoPath THEN read
  ELSE [skip |-> HasSource(token.code), status |-> Note(read.status, token)]

\* collect_git_file_status, without submodules: the tracked paths first.
FileStatus(tracked, entries) ==
  FoldLeft(TakeToken,
           [skip |-> FALSE, status |-> [p \in tracked |-> [porcelain |-> <<>>, flags |-> {"tracked"}]]],
           Tokens(entries)).status
=============================================================================
