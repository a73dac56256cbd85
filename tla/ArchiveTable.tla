---------------------------- MODULE ArchiveTable ----------------------------
\* archives.inspect: the member table of an archive, read from its metadata up
\* to a cap, and what is said of member names and link targets that would
\* leave the directory they are extracted to.
EXTENDS Integers, Sequences, FiniteSets, SequencesExt

CONSTANTS
  MaxMembers,   \* MAX_MEMBERS
  MaxTotal,     \* MAX_TOTAL_UNCOMPRESSED
  MaxListed     \* MAX_LISTED_MEMBERS

ASSUME ArchiveAssumption == MaxMembers \in Nat /\ MaxTotal \in Nat /\ MaxListed \in Nat
-----------------------------------------------------------------------------
\* A name is the sequence of its parts: "/a" is <<Empty, "a">>, "" is <<Empty>>; the
\* part "C:" stands for a drive.
Empty == ""
Absolute(name) == (Len(name) > 1 /\ name[1] = Empty) \/ name[1] = "C:"

Deeper(depth, part) ==
  CASE part \in {Empty, "."} -> depth [] part = ".." -> depth - 1 [] OTHER -> depth + 1

\* Mutant: only the depth at the end is looked at.
IsTraversingAtEnd(name) == Absolute(name) \/ FoldLeft(Deeper, 0, name) < 0

\* _is_traversing: the depth falls below zero on the way.
IsTraversing(name) ==
  Absolute(name) \/ \E n \in 1 .. Len(name) : FoldLeft(Deeper, 0, SubSeq(name, 1, n)) < 0

\* One part of posixpath.normpath, of an absolute path or not.
Normal(rooted, path, part) ==
  CASE part \in {Empty, "."} -> path
    [] part = ".." /\ path # <<>> /\ Last(path) # ".." -> Front(path)
    [] part = ".." /\ path = <<>> /\ rooted -> path
    [] OTHER -> Append(path, part)

\* _link_escapes: the target, joined to the directory of the member, resolves
\* to a path that starts with "..".
LinkEscapes(member, target) ==
  LET joined   == Front(member) \o target
      resolved == FoldLeft(LAMBDA path, part : Normal(Head(joined) = Empty, path, part), <<>>, joined)
  IN /\ target # <<Empty>>
     /\ Absolute(target) \/ (resolved # <<>> /\ Head(resolved) = "..")
-----------------------------------------------------------------------------
\* A member has a name, a size and, in a tar file, a link target or <<Empty>>.
Traversing(members) == {i \in DOMAIN members : IsTraversing(members[i].name)}
Escaping(kind, members) ==
  {i \in DOMAIN members : kind = "tar" /\ LinkEscapes(members[i].name, members[i].link)}

\* Mutant: the table is cut to the listing before it is counted.
FinaliseCut(read, kind) ==
  LET listed == SubSeq(read.members, 1, IF Len(read.members) < MaxListed
                                        THEN Len(read.members) ELSE MaxListed)
  IN [status |-> read.status, cap |-> read.cap,
      members |-> Len(read.members),
      traversing |-> Cardinality(Traversing(listed)),
      escaping |-> Cardinality(Escaping(kind, listed)),
      listed |-> listed,
      truncated |-> Len(read.members) > MaxListed]

\* _finalise: counts of all that was read, a listing of the first.
Finalise(read, kind) ==
  [status |-> read.status, cap |-> read.cap,
   members |-> Len(read.members),
   traversing |-> Cardinality(Traversing(read.members)),
   escaping |-> Cardinality(Escaping(kind, read.members)),
   listed |-> SubSeq(read.members, 1, IF Len(read.members) < MaxListed
                                      THEN Len(read.members) ELSE MaxListed),
   truncated |-> Len(read.members) > MaxListed]

\* What the loop over the members has; it reads on while status is "reading".
Reading == [status |-> "reading", cap |-> "none", members |-> <<>>, total |-> 0]
Stop(read, status, cap) == [read EXCEPT !.status = status, !.cap = cap]

\* A member is counted and then tested for the size cap.
Take(read, member) ==
  LET more == [read EXCEPT !.members = Append(@, member), !.total = @ + member.size]
  IN IF more.total > MaxTotal THEN Stop(more, "inspected", "size") ELSE more

\* Mutant: the count cap is met by a table that is exactly full.
NextMemberEarly(file, read, i) ==
  IF read.status # "reading" THEN read
  ELSE CASE i = file.broken -> Stop(read, file.error, "none")
         [] i # file.broken /\ i > Len(file.members) ->
              Stop(read, "inspected", IF Len(read.members) >= MaxMembers THEN "count" ELSE "none")
         [] i # file.broken /\ i <= Len(file.members) /\ Len(read.members) >= MaxMembers ->
              Stop(read, "inspected", "count")
         [] OTHER -> Take(read, file.members[i])

\* The iterator yields the next member, raises, or ends; a member that it
\* yields is first tested for the count cap.
NextMember(file, read, i) ==
  IF read.status # "reading" THEN read
  ELSE CASE i = file.broken -> Stop(read, file.error, "none")
         [] i # file.broken /\ i > Len(file.members) ->
              Stop(read, "inspected", "none")
         [] i # file.broken /\ i <= Len(file.members) /\ Len(read.members) >= MaxMembers ->
              Stop(read, "inspected", "count")
         [] OTHER -> Take(read, file.members[i])

\* inspect.  `broken` is the member at which the parser raises `error`, 0 if it
\* does not; zipfile reads the whole table before it yields the first.  Of a tar
\* file that has been read the size is taken, and fails if the file is `gone`.
Inspect(file) ==
  LET places == [i \in 1 .. Len(file.members) + 1 |-> i]
      read   == FoldLeft(LAMBDA r, i : NextMember(file, r, i), Reading, places)
  IN Finalise(IF file.kind = "tar" /\ read.status = "inspected" /\ file.gone
              THEN [read EXCEPT !.status = "parser-error"] ELSE read, file.kind)
=============================================================================
