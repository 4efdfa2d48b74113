---------------------------- MODULE AtomicFiles ----------------------------
(***************************************************************************)
(* What the asynchronous calls of FileOperate promise, with no lock and no *)
(* thread in sight: between a call and its callback there is one moment at *)
(* which the whole text is read, written or appended.                      *)
(*                                                                         *)
(* A shared file, which several objects rewrite, is an exception: it is    *)
(* empty from that moment on, and later it starts with the text of one of  *)
(* those who write it.                                                     *)
(***************************************************************************)
EXTENDS Naturals, SequencesExt

CONSTANTS
    Calls,        \* what may be called: operations op on objects obj
    Objects,      \* FileOperate objects
    FileOf,       \* the file of each object
    TextOf,       \* the text of each object
    InitText,     \* the text in each file at the start
    Unwritable,   \* files that cannot be opened for writing
    Shared        \* files that are rewritten by several objects

VARIABLES
    called,     \* the calls so far
    contents,   \* the text in each file
    seen,       \* what each call that has taken effect read, if it reads
    answered    \* calls on files whose callbacks have returned

vars == <<called, contents, seen, answered>>

Init ==
    /\ called = <<>>
    /\ contents = InitText
    /\ seen = [n \in {} |-> <<>>]
    /\ answered = {}

Call ==
    /\ \E c \in Calls : called' = Append(called, c)
    /\ UNCHANGED <<contents, seen, answered>>

\* Call n takes effect, now and only now.
Performs(n, op) ==
    /\ called[n].op = op
    /\ n \notin DOMAIN seen
    /\ UNCHANGED <<called, answered>>

Sees(n, text) ==
    seen' = [m \in DOMAIN seen \cup {n} |-> IF m = n THEN text ELSE seen[m]]

Becomes(f, text) ==
    contents' = IF f \in Unwritable THEN contents ELSE [contents EXCEPT ![f] = text]

Read(n) ==
    /\ Performs(n, "readAll")
    /\ Sees(n, contents[FileOf[called[n].obj]])
    /\ UNCHANGED contents

Rewrite(n) ==
    /\ Performs(n, "writeAll")
    /\ LET o == called[n].obj  f == FileOf[o] IN
           Becomes(f, IF f \in Shared THEN <<>> ELSE TextOf[o])
    /\ Sees(n, <<>>)

AppendTo(n) ==
    /\ Performs(n, "append")
    /\ LET o == called[n].obj  f == FileOf[o] IN Becomes(f, contents[f] \o TextOf[o])
    /\ Sees(n, <<>>)

\* A text is put over the start of a shared file.
Overwrite(o) ==
    /\ FileOf[o] \in Shared \ Unwritable
    /\ IsPrefix(TextOf[o], contents'[FileOf[o]])
    /\ contents' = [contents EXCEPT ![FileOf[o]] = contents'[FileOf[o]]]
    /\ UNCHANGED <<called, seen, answered>>

Answer(n) ==
    /\ n \in DOMAIN seen \ answered
    /\ answered' = answered \cup {n}
    /\ UNCHANGED <<called, contents, seen>>

Next ==
    \/ Call
    \/ \E n \in DOMAIN called : Read(n) \/ Rewrite(n) \/ AppendTo(n) \/ Answer(n)
    \/ \E o \in Objects : Overwrite(o)

Spec == Init /\ [][Next]_vars
=============================================================================
