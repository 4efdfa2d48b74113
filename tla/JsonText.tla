------------------------------ MODULE JsonText ------------------------------
(***************************************************************************)
(* JSON as the program uses it: what OurReader, with the settings of       *)
(* CharReaderBuilder, makes of a text that is cut off or starts anywhere,  *)
(* how Value's operators then read it, and how StreamWriterBuilder writes  *)
(* an object.  Operators only.                                             *)
(*                                                                         *)
(* A text is a sequence of characters.  The white space between tokens     *)
(* changes nothing and is left out; so are escapes, comments, arrays and   *)
(* literals, none of which the program's messages hold: a character stands *)
(* for a letter, a digit or a mark.  The members of an object have         *)
(* different names.                                                        *)
(***************************************************************************)
EXTENDS Integers, Sequences, FiniteSetsExt

Digits == {"0", "1"}
Open   == "{"
Close  == "}"
Colon  == ":"
Comma  == ","
Marks  == {Open, Close, Colon, Comma}
Quote  == "\""

Null        == [type |-> "null"]
Throws      == [type |-> "throws"]    \* the exception of a failed assertion
String(s)   == [type |-> "string", text |-> s]
Object(ms)  == [type |-> "object", members |-> ms]

-----------------------------------------------------------------------------
(* The reader                                                              *)

\* The first place after i that is not in the run, or the place after the text.
EndOf(text, i, run) == Min((i + 1 .. Len(text) + 1) \ run)

\* readToken: the token at place i and the place after it.
ReadToken(text, i) ==
    IF i > Len(text) THEN [type |-> "end", next |-> i]
    ELSE IF text[i] \in Marks THEN [type |-> text[i], next |-> i + 1]
    ELSE IF text[i] = Quote
    THEN LET j == EndOf(text, i, {k \in DOMAIN text : text[k] # Quote})
         IN  IF j > Len(text) THEN [type |-> "error", next |-> j]
             ELSE [type |-> "string", text |-> SubSeq(text, i + 1, j - 1), next |-> j + 1]
    ELSE IF text[i] \in Digits
    THEN LET j == EndOf(text, i, {k \in DOMAIN text : text[k] \in Digits})
         IN  [type |-> "number", text |-> SubSeq(text, i, j - 1), next |-> j]
    ELSE [type |-> "error", next |-> i + 1]

\* readValue at place i, where objects[j] is what readObject makes of the text
\* from place j on: whether it succeeded, the value, and the place after it.
\* What recoverFromError skips after an error is never looked at again.
ReadValue(text, i, objects) ==
    LET t == ReadToken(text, i)
    IN  CASE t.type = Open -> objects[t.next]
          [] t.type \in {"string", "number"} ->
                 [ok |-> TRUE, value |-> [type |-> t.type, text |-> t.text], next |-> t.next]
          [] OTHER -> [ok |-> FALSE, value |-> Null, next |-> t.next]

\* readObject from a member at place i on: the members before an error stay,
\* and the one in which it is stays as far as it was read.
WithMember(members, name, value) ==
    [n \in {name} \cup DOMAIN members |-> IF n \in DOMAIN members THEN members[n] ELSE value]

ReadMembers(text, i, objects) ==
    LET name  == ReadToken(text, i)
        colon == ReadToken(text, name.next)
        v     == ReadValue(text, colon.next, objects)
        after == ReadToken(text, v.next)
        rest  == objects[after.next]
        End(ok, ms, next) == [ok |-> ok, value |-> Object(ms), next |-> next]
        First(ms) == WithMember(ms, name.text, v.value)
    IN  IF name.type = Close THEN End(TRUE, <<>>, name.next)
        ELSE IF name.type # "string" \/ colon.type # Colon THEN End(FALSE, <<>>, i)
        ELSE IF ~v.ok \/ after.type \notin {Close, Comma} THEN End(FALSE, First(<<>>), i)
        ELSE IF after.type = Close THEN End(TRUE, First(<<>>), after.next)
        ELSE End(rest.ok, First(rest.value.members), rest.next)

ReadObjects(text) ==
    LET objects[i \in 1 .. Len(text) + 1] == ReadMembers(text, i, objects)
    IN  objects

\* parseJsonFromStr: the root, whose reading may have failed.
Parse(text) == ReadValue(text, 1, ReadObjects(text)).value

-----------------------------------------------------------------------------
(* Value                                                                   *)

\* operator[] with a name: null counts as an empty object.
Member(v, name) ==
    CASE v.type = "null" -> Null
      [] v.type = "object" -> IF name \in DOMAIN v.members THEN v.members[name] ELSE Null
      [] OTHER -> Throws

\* asString: a string, or Throws.
AsString(v) ==
    CASE v.type = "null" -> String(<<>>)
      [] v.type \in {"string", "number"} -> String(v.text)
      [] OTHER -> Throws

-----------------------------------------------------------------------------
(* The writer                                                              *)

Quoted(s) == <<Quote>> \o s \o <<Quote>>

\* An object with one member, and with two, in the order of their names.
Format1(name, text) == <<Open>> \o Quoted(name) \o <<Colon>> \o text \o <<Close>>
Format2(name, text, name2, text2) ==
    <<Open>> \o Quoted(name) \o <<Colon>> \o text \o <<Comma>>
            \o Quoted(name2) \o <<Colon>> \o text2 \o <<Close>>
=============================================================================
