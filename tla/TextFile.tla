------------------------------ MODULE TextFile ------------------------------
(***************************************************************************)
(* The contents of a file as FileOperate reads and writes it: a sequence   *)
(* of characters of which only the newline is told from the others.        *)
(* Absent is a file that does not exist.                                   *)
(***************************************************************************)
EXTENDS Integers, SequencesExt

CONSTANTS
    NL,       \* the newline
    Absent    \* no such file

Base(c) == IF c = Absent THEN <<>> ELSE c

\* write(2) at the start of a file that another descriptor may have filled
\* since it was truncated: what is longer than the text stays.
Overlay(c, text) == text \o SubSeq(c, Len(text) + 1, Len(c))

-----------------------------------------------------------------------------
(* getline *)

\* What the getline calls have made of the first i characters: the lines that
\* ended there, and what was read since.
Scan(c) ==
    LET scan[i \in 0 .. Len(c)] ==
            IF i = 0 THEN [whole |-> <<>>, rest |-> <<>>]
            ELSE IF c[i] = NL
            THEN [whole |-> Append(scan[i - 1].whole, scan[i - 1].rest), rest |-> <<>>]
            ELSE [scan[i - 1] EXCEPT !.rest = Append(@, c[i])]
    IN  scan

\* What the loop of getline calls reads.  The characters after the last
\* newline are a line of their own, if there are any.
Lines(c) ==
    LET read == Scan(Base(c))[Len(Base(c))]
    IN  IF read.rest = <<>> THEN read.whole ELSE Append(read.whole, read.rest)

\* The string after one getline too many: cleared, unless the last line had no
\* newline, after which the stream is not read any more.
Beyond(c) == IF c = <<>> \/ Last(c) = NL THEN <<>> ELSE Last(Lines(c))

Refused == [ok |-> FALSE, text |-> <<>>]

\* Mutant: reads one line further.
ReadLineNext(c, id, garbage) ==
    IF c = Absent \/ id <= 0 \/ id > garbage + Len(Lines(c)) THEN Refused
    ELSE [ok |-> TRUE, text |-> IF id < Len(Lines(c)) THEN Lines(c)[id + 1] ELSE Beyond(c)]

\* syncReadLineFromFile.  line_num is not initialised, and countLineOfFile
\* adds to what it finds there: garbage.
ReadLine(c, id, garbage) ==
    IF c = Absent \/ id <= 0 \/ id > garbage + Len(Lines(c)) THEN Refused
    ELSE [ok |-> TRUE, text |-> IF id <= Len(Lines(c)) THEN Lines(c)[id] ELSE Beyond(c)]

\* syncWriteLineIntoFile rewrites every line it read, each with a newline.
WithLine(c, id, text) ==
    FlattenSeq([i \in DOMAIN Lines(c) |->
                   Append(IF i = id THEN text ELSE Lines(c)[i], NL)])
=============================================================================
