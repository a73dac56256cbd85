----------------------------- MODULE TextSniff -----------------------------
\* inventory.sniff_text and detect_eol: what the first bytes of a file say of
\* its encoding and its line ends.
EXTENDS Integers, Sequences, FiniteSets, SequencesExt

CONSTANT HeadBytes   \* HEAD_BYTES

ASSUME HeadAssumption == HeadBytes \in Nat \ {0}

\* A byte is named by what it is in UTF-8: "1" is a character of one byte, "2"
\* to "4" the first of that many, "c" and "u" follow one, of which "u" is not a
\* character of cp1252, "bad" is in no UTF-8 text; "nul", "ctl", "LF" and "CR" are
\* characters, too.  "EF", "BB", "BF" make the byte order mark of UTF-8, "FE" and "FF"
\* those of the others.
Single == {"1", "nul", "ctl", "LF", "CR"}
Leads == {"2", "3", "4", "EF"}
Follows == {"c", "u", "BB", "BF"}
Invalid == {"bad", "FE", "FF"}
Undefined == {"u"}
Wait(byte) == CASE byte = "2" -> 1 [] byte \in {"3", "EF"} -> 2 [] byte = "4" -> 3

\* The bytes a decoder still waits for after one more, -1 once it has failed.
Await(waiting, byte) ==
  CASE waiting = 0 /\ byte \in Single -> 0
    [] waiting = 0 /\ byte \in Leads  -> Wait(byte)
    [] waiting > 0 /\ byte \in Follows -> waiting - 1
    [] OTHER -> -1
Decodes(bytes) == FoldLeft(Await, 0, bytes) = 0

Count(bytes, byte) == Cardinality({i \in DOMAIN bytes : bytes[i] = byte})
Sniffed(kind, encoding) == [kind |-> kind, encoding |-> encoding]

\* The byte order marks, in the order in which they are looked for.
ByteOrderMarks == <<[bytes |-> <<"EF", "BB", "BF">>,           encoding |-> "utf-8-sig"],
           [bytes |-> <<"FF", "FE", "nul", "nul">>,   encoding |-> "utf-32-le"],
           [bytes |-> <<"nul", "nul", "FE", "FF">>,   encoding |-> "utf-32-be"],
           [bytes |-> <<"FF", "FE">>,                 encoding |-> "utf-16-le"],
           [bytes |-> <<"FE", "FF">>,                 encoding |-> "utf-16-be"]>>
MarkOf(head) == SelectInSeq(ByteOrderMarks, LAMBDA m : IsPrefix(m.bytes, head))

\* Mutant: a sample that does not decode is not tried again without its end.
WithoutTailKept(head) == head

\* head[:-4].
WithoutTail(head) == SubSeq(head, 1, Len(head) - 4)

\* sniff_text.
SniffText(head) ==
  CASE head = <<>> -> Sniffed("empty", "none")
    [] MarkOf(head) # 0 -> Sniffed("text", ByteOrderMarks[MarkOf(head)].encoding)
    [] OTHER ->
       IF Contains(head, "nul") \/ 50 * Count(head, "ctl") > Len(head) THEN Sniffed("binary", "none")
       ELSE IF Decodes(head) \/ Decodes(WithoutTail(head)) THEN Sniffed("text", "utf-8")
       ELSE IF \A i \in DOMAIN head : head[i] \notin Undefined THEN Sniffed("text", "unknown-8bit")
       ELSE Sniffed("unknown", "none")

\* detect_eol: the kinds of line ends that are left when pairs are counted first.
DetectEol(head) ==
  LET crlf == Cardinality({i \in 1 .. Len(head) - 1 : head[i] = "CR" /\ head[i + 1] = "LF"})
  IN (IF Count(head, "LF") > crlf THEN {"LF"} ELSE {})
     \cup (IF crlf > 0 THEN {"CRLF"} ELSE {})
     \cup (IF Count(head, "CR") > crlf THEN {"CR"} ELSE {})

\* What build_record takes of a file: the start of it.
HeadOf(file) == SubSeq(file, 1, Min({Len(file), HeadBytes}))
=============================================================================
