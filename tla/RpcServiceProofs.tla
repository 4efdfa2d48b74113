-------------------------- MODULE RpcServiceProofs --------------------------
(***************************************************************************)
(* Proofs about RpcService: for any clients, any names and any way of      *)
(* cutting their texts, whatever runs together on the stream, a greeting   *)
(* that is answered or logged was asked for, in the order of the requests. *)
(* What the reader makes of each run of segments is worked out from the    *)
(* tokens of its text.                                                     *)
(***************************************************************************)
EXTENDS RpcService, EventSocketsProofs, SequenceLemmas

(***************************************************************************)
(* The inductive invariant, beside that of the connections.  The server    *)
(* closes no connection, so a client has at most one.  Each result sent to *)
(* it was made of a run of its segments, and the runs follow each other.   *)
(***************************************************************************)
CallTypes ==
    /\ segments \in Cuts
    /\ answers \in [Conns -> Seq(Results)]
    /\ shown \in [Conns -> Seq(Results)]
    /\ seen \in [Conns -> Nat]

Staying ==
    \A c \in Conns :
        IF peer[c] = "idle" THEN answers[c] = <<>> /\ shown[c] = <<>>
        ELSE segments[c] # <<>> /\ (c \in Waiting \/ fd[c] # NoFd)

\* The segments of c's text that the server has read, and those of them it
\* has dealt with.
Read(c) == sent[c] - inbox[c]
Dealt(c) == IF pc = "handle" /\ current = c THEN Read(c) - taken ELSE Read(c)

\* Only the end of the stream is read as no segment.
Taking ==
    pc = "handle" => /\ taken <= Read(current)
                     /\ taken = 0 => peer[current] # "open"

\* What sayHello makes of consecutive segments.
Run(pieces, i, j) == Result(FlattenSeq(SubSeq(pieces, i, j)))

Follow(c, first) ==
    \A k \in DOMAIN answers[c] : answers[c][k] \notin Bare =>
        /\ first[k] \in 1 .. Dealt(c)
        /\ \E j \in first[k] .. Dealt(c) : Run(segments[c], first[k], j) = String(answers[c][k])
        /\ \A l \in 1 .. k - 1 : answers[c][l] \notin Bare => first[l] < first[k]

FromRuns ==
    \A c \in Conns : \E first \in [DOMAIN answers[c] -> 0 .. Segments[c]] : Follow(c, first)

\* What a client has logged are results it has read, in their order.
Picked(c, place) ==
    \A k \in DOMAIN shown[c] :
        /\ place[k] \in 1 .. seen[c]
        /\ shown[c][k] = answers[c][place[k]]
        /\ \A l \in 1 .. k - 1 : place[l] < place[k]

FromAnswers ==
    \A c \in Conns :
        /\ seen[c] <= Len(answers[c])
        /\ \E place \in [DOMAIN shown[c] -> DOMAIN answers[c]] : Picked(c, place)

WholeGreeted ==
    \A c \in Conns :
        Whole(c) /\ peer[c] = "open" => ToSet(answers[c]) \subseteq ToSet(Asked(c))

RInv ==
    /\ SInv /\ CallTypes /\ Staying /\ Taking
    /\ FromRuns /\ FromAnswers /\ WholeGreeted

-----------------------------------------------------------------------------
(* Tokens, and what readObject returns                                     *)

\* Tokens of different kinds and characters that are told from each other.
LEMMA MarksDiffer ==
    /\ Open \notin {Close, Colon, Comma, Quote, "end", "error", "string", "number", "0", "1"}
    /\ Close \notin {Open, Colon, Comma, Quote, "end", "error", "string", "number", "0", "1"}
    /\ Colon \notin {Open, Close, Comma, Quote, "end", "error", "string", "number", "0", "1"}
    /\ Comma \notin {Open, Close, Colon, Quote, "end", "error", "string", "number", "0", "1"}
    /\ Quote \notin {Open, Close, Colon, Comma, "end", "error", "string", "number", "0", "1"}
  BY Zenon DEF Open, Close, Colon, Comma, Quote

\* EndOf is the first place after i outside the run.
LEMMA EndOfRun ==
  ASSUME NEW S, NEW text \in Seq(S), NEW i \in 1 .. Len(text), NEW run, run \subseteq DOMAIN text
  PROVE  LET e == EndOf(text, i, run) IN
         /\ e \in i + 1 .. Len(text) + 1 /\ e \notin run
         /\ \A k \in i + 1 .. e - 1 : k \in run
<1>. DEFINE T == (i + 1 .. Len(text) + 1) \ run
<1>0. Len(text) \in Nat /\ DOMAIN text = 1 .. Len(text)
  BY LenProperties
<1>1. T \subseteq Nat /\ Len(text) + 1 \in T
  BY <1>0
<1>2. \E x \in T : \A y \in T : x <= y
  BY <1>1, NatMinimum
<1>3. EndOf(text, i, run) = CHOOSE x \in T : \A y \in T : x <= y
  BY DEF EndOf, Min
<1>4. EndOf(text, i, run) \in T /\ \A y \in T : EndOf(text, i, run) <= y
  BY <1>2, <1>3
<1>5. PICK e \in T : e = EndOf(text, i, run) /\ \A y \in T : e <= y
  BY <1>4
<1>6. ASSUME NEW k \in i + 1 .. e - 1 PROVE k \in run
  BY <1>0, <1>5
<1>. QED
  BY <1>5, <1>6

\* A token ends after it begins.
LEMMA TokenEnds ==
  ASSUME NEW S, NEW text \in Seq(S), NEW i \in 1 .. Len(text) + 1
  PROVE  LET t == ReadToken(text, i) IN
         /\ t.next \in i .. Len(text) + 1
         /\ i <= Len(text) => t.next > i
         /\ i > Len(text) <=> t.type = "end"
<1>0. Len(text) \in Nat /\ DOMAIN text = 1 .. Len(text)
  BY LenProperties
<1>1. CASE i > Len(text)
  BY <1>0, <1>1 DEF ReadToken
<1>2. CASE i <= Len(text) /\ text[i] \in Marks
  <2>1. ReadToken(text, i) = [type |-> text[i], next |-> i + 1]
    BY <1>2 DEF ReadToken
  <2>2. text[i] # "end"
    BY <1>2, MarksDiffer DEF Marks
  <2>. QED
    BY <1>0, <1>2, <2>1, <2>2
<1>3. CASE i <= Len(text) /\ text[i] \notin Marks /\ text[i] = Quote
  <2>. DEFINE run == {k \in DOMAIN text : text[k] # Quote}
  <2>1. PICK j \in i + 1 .. Len(text) + 1 : j = EndOf(text, i, run)
    <3>1. i \in 1 .. Len(text) /\ run \subseteq DOMAIN text
      BY <1>0, <1>3
    <3>. HIDE DEF run
    <3>. QED
      BY <3>1, EndOfRun
  <2>. QED
    BY <1>0, <1>3, <2>1 DEF ReadToken
<1>4. CASE i <= Len(text) /\ text[i] \notin Marks /\ text[i] # Quote /\ text[i] \in Digits
  <2>. DEFINE run == {k \in DOMAIN text : text[k] \in Digits}
  <2>1. PICK j \in i + 1 .. Len(text) + 1 : j = EndOf(text, i, run)
    <3>1. i \in 1 .. Len(text) /\ run \subseteq DOMAIN text
      BY <1>0, <1>4
    <3>. HIDE DEF run
    <3>. QED
      BY <3>1, EndOfRun
  <2>. QED
    BY <1>0, <1>4, <2>1 DEF ReadToken
<1>5. CASE i <= Len(text) /\ text[i] \notin Marks /\ text[i] # Quote /\ text[i] \notin Digits
  BY <1>0, <1>5 DEF ReadToken
<1>. QED
  BY <1>0, <1>1, <1>2, <1>3, <1>4, <1>5

\* What is read of an object ends where the text does, or before.
Ends(text, i, values) ==
    \A j \in i .. Len(text) + 1 : values[j].ok => values[j].next \in j .. Len(text) + 1

\* A value ends after it begins, if the objects further on do.
LEMMA ValueEnds ==
  ASSUME NEW S, NEW text \in Seq(S), NEW i \in 1 .. Len(text) + 1,
         NEW values, Ends(text, i + 1, values)
  PROVE  LET v == ReadValue(text, i, values) IN
             v.ok => i <= Len(text) /\ v.next \in i + 1 .. Len(text) + 1
<1>0. Len(text) \in Nat
  BY LenProperties
<1>. DEFINE t == ReadToken(text, i)
<1>1. /\ t.next \in i .. Len(text) + 1
      /\ i <= Len(text) => t.next \in i + 1 .. Len(text) + 1
      /\ i > Len(text) <=> t.type = "end"
  BY <1>0, TokenEnds
<1>. HIDE DEF t
<1>2. CASE t.type = Open
  <2>1. i <= Len(text) /\ t.next \in i + 1 .. Len(text) + 1
    BY <1>0, <1>1, <1>2, MarksDiffer
  <2>2. ReadValue(text, i, values) = values[t.next]
    BY <1>2, MarksDiffer DEF ReadValue, t
  <2>3. values[t.next].ok => values[t.next].next \in t.next .. Len(text) + 1
    BY <2>1 DEF Ends
  <2>. QED
    BY <1>0, <2>1, <2>2, <2>3
<1>3. CASE t.type \in {"string", "number"}
  BY <1>0, <1>1, <1>3, MarksDiffer DEF ReadValue, t
<1>4. CASE t.type \notin {Open, "string", "number"}
  BY <1>0, <1>1, <1>4 DEF ReadValue, t
<1>. QED
  BY <1>2, <1>3, <1>4

\* What is read of a value depends on the objects further on alone.
LEMMA ValueAgrees ==
  ASSUME NEW S, NEW text \in Seq(S), NEW i \in 1 .. Len(text) + 1, NEW f, NEW g,
         \A j \in i + 1 .. Len(text) + 1 : f[j] = g[j]
  PROVE  ReadValue(text, i, f) = ReadValue(text, i, g)
<1>0. Len(text) \in Nat
  BY LenProperties
<1>. DEFINE t == ReadToken(text, i)
<1>1. t.type = Open => t.next \in i + 1 .. Len(text) + 1
  <2>1. /\ t.next \in i .. Len(text) + 1
        /\ i <= Len(text) => t.next > i
        /\ i > Len(text) <=> t.type = "end"
    BY TokenEnds
  <2>. HIDE DEF t
  <2>. QED
    BY <1>0, <2>1, MarksDiffer
<1>. HIDE DEF t
<1>2. CASE t.type = Open
  <2>1. f[t.next] = g[t.next]
    BY <1>1, <1>2
  <2>. QED
    BY <1>2, <2>1 DEF ReadValue, t
<1>3. CASE t.type \in {"string", "number"}
  BY <1>3, MarksDiffer DEF ReadValue, t
<1>4. CASE t.type \notin {Open, "string", "number"}
  BY <1>4 DEF ReadValue, t
<1>. QED
  BY <1>2, <1>3, <1>4

\* An object is read to its end from what is read of the text further on.
LEMMA MembersAgree ==
  ASSUME NEW S, NEW text \in Seq(S), NEW i \in 1 .. Len(text) + 1, NEW f, NEW g,
         Ends(text, i + 1, f),
         \A j \in i + 1 .. Len(text) + 1 : f[j] = g[j]
  PROVE  /\ ReadMembers(text, i, f) = ReadMembers(text, i, g)
         /\ ReadMembers(text, i, f).ok => ReadMembers(text, i, f).next \in i .. Len(text) + 1
<1>0. PICK n \in Nat : n = Len(text)
  BY LenProperties
<1>. DEFINE name == ReadToken(text, i)
            colon == ReadToken(text, name.next)
            v == ReadValue(text, colon.next, f)
            after == ReadToken(text, v.next)
<1>1. name.next \in i .. n + 1 /\ (name.type # "end" => name.next > i)
  BY <1>0, TokenEnds
<1>2. colon.next \in name.next .. n + 1 /\ (colon.type # "end" => colon.next > name.next)
  BY <1>0, <1>1, TokenEnds
<1>3. colon.next \in 1 .. n + 1 /\ \A j \in colon.next + 1 .. n + 1 : j \in i + 1 .. n + 1
  BY <1>0, <1>1, <1>2
<1>. HIDE DEF colon, name
<1>4. ReadValue(text, colon.next, g) = v
  BY <1>0, <1>3, ValueAgrees
<1>5. Ends(text, colon.next + 1, f)
  BY <1>0, <1>3 DEF Ends
<1>6. v.ok => v.next \in colon.next + 1 .. n + 1
  BY <1>0, <1>3, <1>5, ValueEnds
<1>. HIDE DEF v
<1>7. v.ok => v.next \in i + 1 .. n + 1 /\ v.next \in 1 .. n + 1
  BY <1>0, <1>3, <1>6
<1>8. v.ok => after.next \in i + 1 .. n + 1
  <2>. SUFFICES ASSUME v.ok PROVE after.next \in i + 1 .. n + 1
    OBVIOUS
  <2>1. after.next \in v.next .. n + 1
    BY <1>0, <1>7, TokenEnds
  <2>. QED
    BY <1>0, <1>7, <2>1
<1>. HIDE DEF after
<1>9. v.ok => f[after.next] = g[after.next] /\ (f[after.next].ok => f[after.next].next \in i .. n + 1)
  <2>. SUFFICES ASSUME v.ok
                PROVE  f[after.next] = g[after.next] /\ (f[after.next].ok => f[after.next].next \in i .. n + 1)
    OBVIOUS
  <2>1. f[after.next] = g[after.next]
    BY <1>0, <1>8
  <2>2. PICK j \in i + 1 .. n + 1 : j = after.next
    BY <1>8
  <2>3. f[j].ok => f[j].next \in j .. n + 1
    BY <1>0 DEF Ends
  <2>. QED
    BY <1>0, <2>1, <2>2, <2>3
<1>10. CASE name.type = Close
  BY <1>0, <1>1, <1>10 DEF ReadMembers, name
<1>11. CASE name.type # Close /\ (name.type # "string" \/ colon.type # Colon)
  BY <1>0, <1>1, <1>11 DEF ReadMembers, name, colon
<1>12. CASE /\ name.type # Close /\ ~(name.type # "string" \/ colon.type # Colon)
            /\ (~v.ok \/ after.type \notin {Close, Comma})
  BY <1>0, <1>1, <1>4, <1>12, MarksDiffer DEF ReadMembers, name, colon, v, after
<1>13. CASE /\ name.type # Close /\ ~(name.type # "string" \/ colon.type # Colon)
            /\ v.ok /\ after.type = Close
  <2>1. ReadMembers(text, i, f) = [ok |-> TRUE, next |-> after.next,
                                   value |-> Object(WithMember(<<>>, name.text, v.value))]
    BY <1>13, MarksDiffer DEF ReadMembers, name, colon, v, after
  <2>2. ReadMembers(text, i, g) = [ok |-> TRUE, next |-> after.next,
                                   value |-> Object(WithMember(<<>>, name.text, v.value))]
    BY <1>4, <1>13, MarksDiffer DEF ReadMembers, name, colon, v, after
  <2>. QED
    BY <1>0, <1>8, <1>13, <2>1, <2>2
<1>14. CASE /\ name.type # Close /\ ~(name.type # "string" \/ colon.type # Colon)
            /\ v.ok /\ after.type = Comma
  BY <1>0, <1>1, <1>4, <1>8, <1>9, <1>14, MarksDiffer DEF ReadMembers, name, colon, v, after
<1>. QED
  BY <1>10, <1>11, <1>12, <1>13, <1>14

(***************************************************************************)
(* readObject returns for every place of any text, and what it makes of    *)
(* the text from there on is what the definition says.                     *)
(***************************************************************************)
THEOREM ObjectsRead ==
  ASSUME NEW S, NEW text \in Seq(S), NEW i \in 1 .. Len(text) + 1
  PROVE  ReadObjects(text)[i] = ReadMembers(text, i, ReadObjects(text))
<1>0. PICK n \in Nat : n = Len(text) + 1 /\ n >= 1
  BY LenProperties
<1>. DEFINE Good(a, f) ==
              /\ f = [j \in a .. n |-> ReadMembers(text, j, f)]
              /\ Ends(text, a, f)
            T == {d \in 0 .. n : \E f : Good(n + 1 - d, f)}
<1>1. 0 \in T
  <2>1. Good(n + 1, [j \in n + 1 .. n |-> 0])
    BY <1>0 DEF Ends
  <2>2. \E f : Good(n + 1 - 0, f)
    BY <2>1
  <2>. QED
    BY <2>2
<1>2. ASSUME NEW d \in 0 .. n - 1, d \in T PROVE d + 1 \in T
  <2>. DEFINE a == n - d
  <2>0. a \in 1 .. n /\ n + 1 - d = a + 1 /\ n + 1 - (d + 1) = a
    BY <1>0
  <2>1. PICK f : Good(a + 1, f)
    BY <1>2, <2>0
  <2>2. PICK b \in 1 .. n : b = a
    BY <2>0
  <2>. DEFINE g == [j \in b .. n |-> IF j = b THEN ReadMembers(text, b, f) ELSE f[j]]
  <2>3. /\ \A j \in b + 1 .. n : f[j] = g[j]
        /\ g[b] = ReadMembers(text, b, f)
        /\ \A j \in b + 1 .. n : f[j] = ReadMembers(text, j, f)
        /\ Ends(text, b + 1, f)
    <3>1. /\ f = [j \in b + 1 .. n |-> ReadMembers(text, j, f)]
          /\ Ends(text, b + 1, f)
      BY <2>1, <2>2
    <3>2. /\ g[b] = ReadMembers(text, b, f)
          /\ \A j \in b + 1 .. n : f[j] = g[j]
      BY <1>0
    <3>3. \A j \in b + 1 .. n : f[j] = ReadMembers(text, j, f)
      BY <3>1, Zenon
    <3>. QED
      BY <3>1, <3>2, <3>3
  <2>. HIDE DEF g
  <2>4. ASSUME NEW j \in b .. n
        PROVE  /\ ReadMembers(text, j, f) = ReadMembers(text, j, g)
               /\ ReadMembers(text, j, f).ok => ReadMembers(text, j, f).next \in j .. n
    <3>1. j \in 1 .. Len(text) + 1 /\ Ends(text, j + 1, f)
      BY <1>0, <2>3 DEF Ends
    <3>2. \A k \in j + 1 .. Len(text) + 1 : f[k] = g[k]
      BY <1>0, <2>3
    <3>. QED
      BY <1>0, <3>1, <3>2, MembersAgree
  <2>5. \A j \in b .. n : g[j] = ReadMembers(text, j, g)
    BY <2>3, <2>4
  <2>6. g = [j \in b .. n |-> ReadMembers(text, j, g)]
    <3>1. g = [j \in b .. n |-> g[j]]
      BY DEF g
    <3>. QED
      BY <2>5, <3>1
  <2>7. Ends(text, b, g)
    BY <1>0, <2>3, <2>4, <2>5 DEF Ends
  <2>8. Good(b, g)
    BY <2>6, <2>7
  <2>9. n + 1 - (d + 1) = b
    BY <2>0, <2>2
  <2>. HIDE DEF Good
  <2>10. \E h : Good(n + 1 - (d + 1), h)
    BY <2>8, <2>9
  <2>. QED
    BY <1>0, <2>10
<1>3. n \in T
  <2>. HIDE DEF T
  <2>1. 0 \in Int /\ n \in Int
    BY <1>0
  <2>2. 0 .. n \subseteq T
    BY <1>1, <1>2, <2>1, UpwardInduction
  <2>. QED
    BY <1>0, <2>2
<1>4. PICK f : f = [j \in 1 .. n |-> ReadMembers(text, j, f)]
  <2>1. \E f : Good(n + 1 - n, f)
    BY <1>3
  <2>2. n + 1 - n = 1
    BY <1>0
  <2>. QED
    BY <2>1, <2>2
<1>. DEFINE values == CHOOSE h : h = [j \in 1 .. n |-> ReadMembers(text, j, h)]
<1>5. values = [j \in 1 .. n |-> ReadMembers(text, j, values)]
  BY <1>4
<1>6. ReadObjects(text) = values
  BY <1>0 DEF ReadObjects
<1>. QED
  BY <1>0, <1>5, <1>6

-----------------------------------------------------------------------------
(* What a text shows, and the tokens it begins with                        *)

\* What can be quoted.
Word(S) == Seq(S \ {Quote})

\* With s laid beside the text from place i on, what is beside each other is the same.
\* Either may be the longer, and s may begin before the text does.
Shows(text, i, s) ==
    \A k \in 1 .. Len(s) : 1 <= i + k - 1 /\ i + k - 1 <= Len(text) => text[i + k - 1] = s[k]

\* What shows two texts in a row shows each of them.
LEMMA ShowsParts ==
  ASSUME NEW S, NEW s \in Seq(S), NEW t \in Seq(S), NEW text, NEW i \in Int, Shows(text, i, s \o t)
  PROVE  Shows(text, i, s) /\ Shows(text, i + Len(s), t)
<1>0. PICK n \in Nat, m \in Nat : n = Len(s) /\ m = Len(t) /\ Len(s \o t) = n + m
  BY LenProperties, ConcatProperties
<1>1. /\ \A k \in 1 .. n : (s \o t)[k] = s[k]
      /\ \A k \in 1 .. m : (s \o t)[n + k] = t[k]
  BY <1>0, ConcatProperties
<1>. DEFINE u == s \o t
<1>2. \A k \in 1 .. n + m : 1 <= i + k - 1 /\ i + k - 1 <= Len(text) => text[i + k - 1] = u[k]
  BY <1>0 DEF Shows
<1>. HIDE DEF u
<1>3. Shows(text, i, s)
  BY <1>0, <1>1, <1>2 DEF Shows, u
<1>4. ASSUME NEW k \in 1 .. m, 1 <= i + n + k - 1, i + n + k - 1 <= Len(text)
      PROVE  text[i + n + k - 1] = t[k]
  <2>1. n + k \in 1 .. n + m /\ i + (n + k) - 1 = i + n + k - 1
    BY <1>0
  <2>2. text[i + (n + k) - 1] = u[n + k]
    BY <1>2, <1>4, <2>1
  <2>. QED
    BY <1>1, <2>1, <2>2 DEF u
<1>. QED
  BY <1>0, <1>3, <1>4 DEF Shows

\* A word in quotes is a text with quotes at its ends and nowhere else.
LEMMA QuotedIsText ==
  ASSUME NEW S, Quote \in S, NEW w \in Word(S)
  PROVE  /\ Quoted(w) \in Seq(S) /\ Len(Quoted(w)) = Len(w) + 2 /\ Len(w) \in Nat
         /\ w \in Seq(S)
         /\ Quoted(w)[1] = Quote /\ Quoted(w)[Len(w) + 2] = Quote
         /\ \A k \in 1 .. Len(w) : Quoted(w)[k + 1] = w[k] /\ w[k] # Quote
<1>0. PICK n \in Nat : n = Len(w)
  BY LenProperties DEF Word
<1>1. w \in Seq(S) /\ \A k \in 1 .. n : w[k] # Quote
  <2>1. w \in Seq(S)
    BY SeqMonotonic DEF Word
  <2>. QED
    BY <1>0, <2>1, ElementOfSeq DEF Word
<1>2. PICK q \in Seq(S) : q = <<Quote>> /\ Len(q) = 1 /\ q[1] = Quote
  <2>1. <<Quote>> \in Seq(S) /\ Len(<<Quote>>) = 1 /\ <<Quote>>[1] = Quote
    OBVIOUS
  <2>. QED
    BY <2>1, Zenon
<1>3. PICK v \in Seq(S) : v = w /\ Len(v) = n
  BY <1>0, <1>1
<1>4. PICK r \in Seq(S) : r = q \o v /\ Len(r) = n + 1 /\ r[1] = Quote /\ \A k \in 1 .. n : r[1 + k] = v[k]
  <2>1. /\ q \o v \in Seq(S) /\ Len(q \o v) = Len(q) + Len(v)
        /\ \A k \in 1 .. Len(q) + Len(v) : (q \o v)[k] = IF k <= Len(q) THEN q[k] ELSE v[k - Len(q)]
    BY ConcatProperties
  <2>2. PICK r \in Seq(S) : r = q \o v
    BY <2>1
  <2>3. Len(r) = n + 1 /\ \A k \in 1 .. n + 1 : r[k] = IF k <= 1 THEN q[k] ELSE v[k - 1]
    BY <1>2, <1>3, <2>1, <2>2
  <2>4. r[1] = Quote
    BY <1>2, <2>3
  <2>5. ASSUME NEW k \in 1 .. n PROVE r[1 + k] = v[k]
    <3>1. PICK j \in 1 .. n + 1 : j = 1 + k /\ j - 1 = k /\ ~(j <= 1)
      OBVIOUS
    <3>. QED
      BY <2>3, <3>1
  <2>. QED
    BY <2>2, <2>3, <2>4, <2>5
<1>5. PICK z \in Seq(S) : z = r \o q /\ Len(z) = n + 2 /\ z[n + 2] = Quote /\ \A k \in 1 .. n + 1 : z[k] = r[k]
  <2>1. /\ r \o q \in Seq(S) /\ Len(r \o q) = Len(r) + Len(q)
        /\ \A k \in 1 .. Len(r) + Len(q) : (r \o q)[k] = IF k <= Len(r) THEN r[k] ELSE q[k - Len(r)]
    BY ConcatProperties
  <2>2. PICK z \in Seq(S) : z = r \o q
    BY <2>1
  <2>3. Len(z) = n + 2 /\ \A k \in 1 .. n + 2 : z[k] = IF k <= n + 1 THEN r[k] ELSE q[k - (n + 1)]
    BY <1>2, <1>4, <2>1, <2>2
  <2>4. z[n + 2] = Quote
    <3>1. n + 2 \in 1 .. n + 2 /\ ~(n + 2 <= n + 1) /\ n + 2 - (n + 1) = 1
      OBVIOUS
    <3>2. z[n + 2] = q[n + 2 - (n + 1)]
      BY <2>3, <3>1
    <3>. QED
      BY <1>2, <3>1, <3>2
  <2>5. ASSUME NEW k \in 1 .. n + 1 PROVE z[k] = r[k]
    <3>1. k \in 1 .. n + 2 /\ k <= n + 1
      OBVIOUS
    <3>. QED
      BY <2>3, <3>1
  <2>. QED
    BY <2>2, <2>3, <2>4, <2>5
<1>6. Quoted(w) = z
  BY <1>2, <1>3, <1>4, <1>5 DEF Quoted
<1>7. \A k \in 1 .. n : z[k + 1] = v[k]
  BY <1>4, <1>5
<1>. QED
  BY <1>0, <1>1, <1>3, <1>4, <1>5, <1>6, <1>7

\* The token at a mark is the mark.
LEMMA MarkToken ==
  ASSUME NEW S, NEW text \in Seq(S), NEW i \in 1 .. Len(text) + 1, NEW m \in Marks, Shows(text, i, <<m>>)
  PROVE  /\ i <= Len(text) => ReadToken(text, i) = [type |-> m, next |-> i + 1]
         /\ i > Len(text) => ReadToken(text, i).type = "end"
<1>1. Len(text) \in Nat
  BY LenProperties
<1>2. i <= Len(text) => text[i] = m
  BY <1>1 DEF Shows
<1>. QED
  BY <1>1, <1>2 DEF ReadToken

\* The token at a word in quotes is the word, or an error where the text ends
\* within it.
LEMMA StringToken ==
  ASSUME NEW S, NEW text \in Seq(S), NEW i \in 1 .. Len(text) + 1, Quote \in S, NEW w \in Word(S), Shows(text, i, Quoted(w))
  PROVE  LET e == i + Len(w) + 1 IN
         /\ e <= Len(text) => ReadToken(text, i) = [type |-> "string", text |-> w, next |-> e + 1]
         /\ e > Len(text) => ReadToken(text, i).type \in {"end", "error"}
<1>0. PICK n \in Nat, l \in Nat : n = Len(text) /\ l = Len(w) /\ DOMAIN text = 1 .. n
  BY LenProperties, QuotedIsText
<1>. DEFINE run == {k \in DOMAIN text : text[k] # Quote}
            e == EndOf(text, i, run)
<1>1. CASE i = n + 1
  BY <1>0, <1>1 DEF ReadToken
<1>2. CASE i <= n
  <2>1. /\ text[i] = Quote
        /\ \A k \in 1 .. l : i + k <= n => text[i + k] # Quote /\ text[i + k] = w[k]
        /\ i + l + 1 <= n => text[i + l + 1] = Quote
    <3>. DEFINE q == Quoted(w)
    <3>1. /\ Len(q) = l + 2 /\ q[1] = Quote /\ q[l + 2] = Quote
          /\ \A k \in 1 .. l : q[k + 1] = w[k] /\ w[k] # Quote
      BY <1>0, QuotedIsText
    <3>2. \A k \in 1 .. l + 2 : i + k - 1 <= n => text[i + k - 1] = q[k]
      BY <1>0, <3>1 DEF Shows
    <3>. HIDE DEF q
    <3>3. text[i] = Quote
      BY <1>2, <3>1, <3>2
    <3>4. i + l + 1 <= n => text[i + l + 1] = Quote
      <4>1. l + 2 \in 1 .. l + 2 /\ i + (l + 2) - 1 = i + l + 1
        OBVIOUS
      <4>. QED
        BY <3>1, <3>2, <4>1
    <3>5. ASSUME NEW k \in 1 .. l, i + k <= n PROVE text[i + k] # Quote /\ text[i + k] = w[k]
      <4>1. k + 1 \in 1 .. l + 2 /\ i + (k + 1) - 1 = i + k
        OBVIOUS
      <4>. QED
        BY <3>1, <3>2, <3>5, <4>1
    <3>. QED
      BY <3>3, <3>4, <3>5
  <2>2. e \in i + 1 .. n + 1 /\ e \notin run /\ \A k \in i + 1 .. e - 1 : k \in run
    <3>1. i \in 1 .. Len(text) /\ run \subseteq DOMAIN text
      BY <1>0, <1>2
    <3>. HIDE DEF run
    <3>. QED
      BY <1>0, <3>1, EndOfRun
  <2>3. ReadToken(text, i) = IF e > n THEN [type |-> "error", next |-> e]
                             ELSE [type |-> "string", text |-> SubSeq(text, i + 1, e - 1), next |-> e + 1]
    BY <1>0, <1>2, <2>1, MarksDiffer DEF ReadToken, Marks
  <2>4. PICK d \in i + 1 .. n + 1 : d = e
    BY <2>2
  <2>. HIDE DEF e
  <2>5. /\ d <= n => text[d] = Quote
        /\ \A k \in i + 1 .. d - 1 : text[k] # Quote
    BY <1>0, <2>2, <2>4
  <2>6. CASE i + l + 1 <= n
    <3>1. d = i + l + 1
      <4>1. ~(d > i + l + 1)
        BY <1>2, <2>1, <2>5, <2>6
      <4>2. ~(d < i + l + 1)
        <5>. SUFFICES ASSUME d < i + l + 1 PROVE FALSE
          OBVIOUS
        <5>1. PICK k \in 1 .. l : i + k = d
          OBVIOUS
        <5>2. text[i + k] # Quote
          BY <2>1, <2>6
        <5>3. text[d] = Quote
          BY <2>5, <2>6
        <5>. QED
          BY <5>1, <5>2, <5>3
      <4>. QED
        BY <4>1, <4>2
    <3>2. SubSeq(text, i + 1, i + l) = w
      <4>. DEFINE u == SubSeq(text, i + 1, i + l)
      <4>1. u \in Seq(S) /\ Len(u) = l /\ \A k \in 1 .. l : u[k] = text[i + k]
        BY <1>0, <1>2, <2>6, SubSeqProperties
      <4>2. w \in Seq(S)
        BY QuotedIsText
      <4>. HIDE DEF u
      <4>3. \A k \in 1 .. l : u[k] = w[k]
        BY <2>1, <2>6, <4>1
      <4>4. u = w
        BY <1>0, <4>1, <4>2, <4>3, SeqEqual
      <4>. QED
        BY <4>4 DEF u
    <3>3. e <= n /\ e - 1 = i + l /\ e + 1 = i + l + 1 + 1
      BY <2>4, <2>6, <3>1
    <3>4. ReadToken(text, i) = [type |-> "string", text |-> SubSeq(text, i + 1, e - 1), next |-> e + 1]
      BY <2>3, <2>4, <3>3
    <3>5. ReadToken(text, i) = [type |-> "string", text |-> w, next |-> i + l + 1 + 1]
      BY <3>2, <3>3, <3>4
    <3>. QED
      BY <1>0, <2>6, <3>5
  <2>7. CASE i + l + 1 > n
    <3>1. d = n + 1
      <4>. SUFFICES ASSUME d <= n PROVE FALSE
        OBVIOUS
      <4>1. PICK k \in 1 .. l : i + k = d
        BY <2>7
      <4>. QED
        BY <2>1, <2>5, <4>1
    <3>. QED
      BY <1>0, <2>3, <2>4, <2>7, <3>1
  <2>. QED
    BY <1>0, <2>6, <2>7
<1>. QED
  BY <1>0, <1>1, <1>2

\* No other character than a quote begins a string.
LEMMA NoString ==
  ASSUME NEW S, NEW text \in Seq(S), NEW i \in 1 .. Len(text), text[i] # Quote
  PROVE  ReadToken(text, i).type # "string"
<1>1. Len(text) \in Nat
  BY LenProperties
<1>2. CASE text[i] \in Marks
  BY <1>1, <1>2, MarksDiffer DEF ReadToken, Marks
<1>3. CASE text[i] \notin Marks
  BY <1>1, <1>3 DEF ReadToken
<1>. QED
  BY <1>2, <1>3

-----------------------------------------------------------------------------
(* Members                                                                 *)

\* The values that WithMember's result has.
LEMMA MembersOfWith ==
  ASSUME NEW ms, NEW w, NEW v
  PROVE  /\ DOMAIN WithMember(ms, w, v) = {w} \cup DOMAIN ms
         /\ w \notin DOMAIN ms => WithMember(ms, w, v)[w] = v
         /\ \A x \in DOMAIN ms : WithMember(ms, w, v)[x] = ms[x]
         /\ DOMAIN <<>> = {}
         /\ Object(ms).type = "object" /\ Object(ms).members = ms
  BY DEF WithMember, Object

\* What readObject makes of a member with the name w, from its value at place
\* j on.
FromValue(text, i, w, j, o) ==
    LET values == ReadObjects(text)
        v     == ReadValue(text, j, values)
        after == ReadToken(text, v.next)
        rest  == values[after.next]
    IN  /\ ~v.ok \/ after.type \notin {Close, Comma} =>
               o = [ok |-> FALSE, value |-> Object(WithMember(<<>>, w, v.value)), next |-> i]
        /\ v.ok /\ after.type = Close =>
               o = [ok |-> TRUE, value |-> Object(WithMember(<<>>, w, v.value)), next |-> after.next]
        /\ v.ok /\ after.type = Comma =>
               o = [ok |-> rest.ok, value |-> Object(WithMember(rest.value.members, w, v.value)),
                    next |-> rest.next]

\* What is read of an object that begins with a word in quotes and a colon.
LEMMA MemberName ==
  ASSUME NEW S, Quote \in S, NEW text \in Seq(S), NEW i \in 1 .. Len(text) + 1, NEW w \in Word(S),
         NEW j, j = i + Len(w) + 3,
         Shows(text, i, Quoted(w)), Shows(text, j - 1, <<Colon>>)
  PROVE  LET o == ReadObjects(text)[i] IN
         /\ j > Len(text) + 1 => ~o.ok /\ o.value = Object(<<>>)
         /\ j <= Len(text) + 1 => FromValue(text, i, w, j, o)
<1>0. PICK n \in Nat, l \in Nat : n = Len(text) /\ l = Len(w)
  BY LenProperties, QuotedIsText
<1>. DEFINE values == ReadObjects(text)
            name == ReadToken(text, i)
            colon == ReadToken(text, name.next)
            v == ReadValue(text, colon.next, values)
            after == ReadToken(text, v.next)
<1>1. values[i] = ReadMembers(text, i, values)
  BY ObjectsRead
<1>. HIDE DEF values
<1>2. /\ i + l + 1 <= n => name = [type |-> "string", text |-> w, next |-> i + l + 2]
      /\ i + l + 1 > n => name.type \in {"end", "error"}
  BY <1>0, StringToken
<1>. HIDE DEF name
<1>3. CASE i + l + 1 > n
  <2>1. name.type \in {"end", "error"}
    BY <1>2, <1>3
  <2>2. values[i] = [ok |-> FALSE, value |-> Object(<<>>), next |-> i]
    BY <1>1, <2>1, MarksDiffer DEF ReadMembers, name
  <2>. QED
    BY <1>0, <1>3, <2>2 DEF values
<1>4. CASE i + l + 1 <= n
  <2>1. name.type = "string" /\ name.text = w /\ name.next = i + l + 2 /\ i + l + 2 \in 1 .. n + 1
    BY <1>2, <1>4
  <2>2. PICK k \in 1 .. n + 1 : k = i + l + 2 /\ k = j - 1 /\ name.next = k
    BY <1>0, <2>1
  <2>3. /\ k <= n => ReadToken(text, k) = [type |-> Colon, next |-> k + 1]
        /\ k > n => ReadToken(text, k).type = "end"
    <3>1. Colon \in Marks
      BY DEF Marks
    <3>. QED
      BY <1>0, <2>2, <3>1, MarkToken
  <2>4. colon = ReadToken(text, k)
    BY <2>2
  <2>. HIDE DEF colon
  <2>5. CASE k > n
    <3>1. colon.type # Colon
      BY <2>3, <2>4, <2>5, MarksDiffer
    <3>2. values[i] = [ok |-> FALSE, value |-> Object(<<>>), next |-> i]
      BY <1>1, <2>1, <3>1, MarksDiffer DEF ReadMembers, name, colon
    <3>. QED
      BY <1>0, <2>2, <2>5, <3>2 DEF values
  <2>6. CASE k <= n
    <3>1. colon.type = Colon /\ colon.next = j
      BY <1>0, <2>2, <2>3, <2>4, <2>6
    <3>2. v = ReadValue(text, j, values)
      BY <3>1
    <3>. HIDE DEF v
    <3>3. CASE ~v.ok \/ after.type \notin {Close, Comma}
      <4>1. values[i] = [ok |-> FALSE, value |-> Object(WithMember(<<>>, w, v.value)), next |-> i]
        BY <1>1, <2>1, <3>1, <3>3, MarksDiffer DEF ReadMembers, name, colon, v
      <4>. QED
        BY <1>0, <2>2, <2>6, <3>2, <3>3, <4>1 DEF values, FromValue
    <3>4. CASE v.ok /\ after.type = Close
      <4>1. values[i] = [ok |-> TRUE, value |-> Object(WithMember(<<>>, w, v.value)), next |-> after.next]
        BY <1>1, <2>1, <3>1, <3>4, MarksDiffer DEF ReadMembers, name, colon, v
      <4>. QED
        BY <1>0, <2>2, <2>6, <3>2, <3>4, <4>1, MarksDiffer DEF values, FromValue
    <3>5. CASE v.ok /\ after.type = Comma
      <4>. DEFINE rest == values[after.next]
      <4>1. values[i] = [ok |-> rest.ok, value |-> Object(WithMember(rest.value.members, w, v.value)), next |-> rest.next]
        BY <1>1, <2>1, <3>1, <3>5, MarksDiffer DEF ReadMembers, name, colon, v
      <4>. QED
        BY <1>0, <2>2, <2>6, <3>2, <3>5, <4>1, MarksDiffer DEF values, FromValue
    <3>. QED
      BY <3>3, <3>4, <3>5
  <2>. QED
    BY <2>5, <2>6
<1>. QED
  BY <1>0, <1>3, <1>4

\* A member that is a string, up to the mark m after it at place e.
StringRead(text, i, w, x, m, e) ==
    LET values == ReadObjects(text)  o == values[i]  rest == values[e + 1] IN
    /\ e > Len(text) =>
          /\ ~o.ok
          /\ \/ o.value = Object(<<>>)
             \/ o.value = Object(WithMember(<<>>, w, Null))
             \/ o.value = Object(WithMember(<<>>, w, String(x)))
    /\ e <= Len(text) /\ m = Close =>
          o = [ok |-> TRUE, value |-> Object(WithMember(<<>>, w, String(x))), next |-> e + 1]
    /\ e <= Len(text) /\ m = Comma =>
          o = [ok |-> rest.ok, value |-> Object(WithMember(rest.value.members, w, String(x))),
               next |-> rest.next]

\* The same, with another word in quotes as its value.
LEMMA StringMember ==
  ASSUME NEW S, Quote \in S, NEW text \in Seq(S), NEW i \in 1 .. Len(text) + 1,
         NEW w \in Word(S), NEW x \in Word(S), NEW m \in {Close, Comma},
         NEW j \in Int, j = i + Len(w) + 3, NEW e \in Int, e = j + Len(x) + 2,
         Shows(text, i, Quoted(w)), Shows(text, j - 1, <<Colon>>),
         Shows(text, j, Quoted(x)), Shows(text, e, <<m>>)
  PROVE  StringRead(text, i, w, x, m, e)
<1>0. PICK n \in Nat, l \in Nat, a \in Nat : n = Len(text) /\ l = Len(w) /\ a = Len(x)
  BY LenProperties, QuotedIsText
<1>. DEFINE values == ReadObjects(text)
            v == ReadValue(text, j, values)
            t == ReadToken(text, j)
            after == ReadToken(text, v.next)
<1>1. /\ j > n + 1 => ~values[i].ok /\ values[i].value = Object(<<>>)
      /\ j <= n + 1 => FromValue(text, i, w, j, values[i])
  BY <1>0, MemberName
<1>. HIDE DEF values, StringRead
<1>2. CASE j > n + 1
  BY <1>0, <1>1, <1>2 DEF values, StringRead
<1>3. CASE j <= n + 1
  <2>0. PICK k \in 1 .. n + 1 : k = j
    BY <1>0, <1>3
  <2>1. /\ k + a + 1 <= n => t = [type |-> "string", text |-> x, next |-> k + a + 2]
        /\ k + a + 1 > n => t.type \in {"end", "error"}
    BY <1>0, <2>0, StringToken
  <2>. HIDE DEF t
  <2>2. CASE k + a + 1 > n
    <3>1. ~v.ok /\ v.value = Null
      BY <2>1, <2>2, MarksDiffer DEF ReadValue, t
    <3>2. values[i] = [ok |-> FALSE, value |-> Object(WithMember(<<>>, w, Null)), next |-> i]
      BY <1>1, <1>3, <3>1 DEF FromValue, values
    <3>3. e > n
      BY <1>0, <2>0, <2>2
    <3>. QED
      BY <1>0, <3>2, <3>3 DEF values, StringRead
  <2>3. CASE k + a + 1 <= n
    <3>1. v = [ok |-> TRUE, value |-> [type |-> "string", text |-> x], next |-> k + a + 2]
      <4>1. t.type = "string" /\ t.text = x /\ t.next = k + a + 2
        BY <2>1, <2>3
      <4>2. v = [ok |-> TRUE, value |-> [type |-> t.type, text |-> t.text], next |-> t.next]
        BY <4>1, MarksDiffer DEF ReadValue, t
      <4>. QED
        BY <4>1, <4>2
    <3>2. v.ok /\ v.value = String(x) /\ v.next = e /\ e \in 1 .. n + 1
      BY <1>0, <2>0, <2>3, <3>1 DEF String
    <3>3. /\ e <= n => ReadToken(text, e) = [type |-> m, next |-> e + 1]
          /\ e > n => ReadToken(text, e).type = "end"
      <4>1. m \in Marks
        BY DEF Marks
      <4>. QED
        BY <1>0, <3>2, <4>1, MarkToken
    <3>4. after = ReadToken(text, e)
      BY <3>2
    <3>5. FromValue(text, i, w, j, values[i])
      BY <1>1, <1>3
    <3>. DEFINE o == values[i]  rest == values[after.next]
    <3>6. /\ after.type \notin {Close, Comma} =>
                o = [ok |-> FALSE, value |-> Object(WithMember(<<>>, w, String(x))), next |-> i]
          /\ after.type = Close =>
                o = [ok |-> TRUE, value |-> Object(WithMember(<<>>, w, String(x))), next |-> after.next]
          /\ after.type = Comma =>
                o = [ok |-> rest.ok, value |-> Object(WithMember(rest.value.members, w, String(x))),
                     next |-> rest.next]
      BY <3>2, <3>5 DEF FromValue, values
    <3>. HIDE DEF v, after
    <3>7. CASE e > n
      <4>1. after.type \notin {Close, Comma}
        BY <3>3, <3>4, <3>7, MarksDiffer
      <4>2. o = [ok |-> FALSE, value |-> Object(WithMember(<<>>, w, String(x))), next |-> i]
        BY <3>6, <4>1
      <4>3. ~o.ok /\ o.value = Object(WithMember(<<>>, w, String(x)))
        BY <4>2
      <4>. QED
        BY <1>0, <3>7, <4>3 DEF values, StringRead
    <3>8. CASE e <= n
      <4>1. after.type = m /\ after.next = e + 1
        BY <3>3, <3>4, <3>8
      <4>. QED
        BY <1>0, <3>6, <3>8, <4>1, MarksDiffer DEF values, StringRead
    <3>. QED
      BY <3>2, <3>7, <3>8
  <2>. QED
    BY <2>2, <2>3
<1>. QED
  BY <1>0, <1>2, <1>3

-----------------------------------------------------------------------------
(* Requests                                                                *)

\* String is one-to-one, and no string is Throws.
LEMMA StringsDiffer ==
    ASSUME NEW s, NEW t
    PROVE  /\ String(s).text = s
           /\ String(s) # Throws
           /\ String(s) = String(t) => s = t
<1>1. String(s).text = s /\ String(t).text = t
  BY DEF String
<1>2. String(s).type = "string" /\ Throws.type = "throws"
  BY DEF String, Throws
<1>. QED
  BY <1>1, <1>2

\* The words of the program are words, and no mark or quote is among their letters.
LEMMA LettersDiffer == \A l \in {"f", "n", "h", "p", "1", "r"} : l \notin Marks \cup {Quote}
  BY Zenon DEF Marks, Open, Close, Colon, Comma, Quote

LEMMA ProgramWords ==
    /\ \A l \in {"f", "n", "h", "p", "1", "r", "H", "E"} : l \in Chars \ {Quote}
    /\ <<"f">> \in Word(Chars) /\ <<"n">> \in Word(Chars) /\ <<"h">> \in Word(Chars)
    /\ <<"p", "1">> \in Word(Chars) /\ <<"r">> \in Word(Chars)
    /\ Quote \in Chars
<1>1. \A l \in {"H", "E"} : l # Quote
  BY Zenon DEF Quote
<1>2. \A l \in {"f", "n", "h", "p", "1", "r", "H", "E"} : l \in Chars \ {Quote}
  BY <1>1, LettersDiffer, CharsAssumption
<1>. QED
  BY <1>2, CharsAssumption DEF Word

\* What a request shows, part by part.
RequestParts(text, i, l, name) ==
    /\ Shows(text, i, <<Open>>)
    /\ Shows(text, i + 1, Quoted(<<"f">>))
    /\ Shows(text, i + 4, <<Colon>>)
    /\ Shows(text, i + 5, <<Open>>)
    /\ Shows(text, i + 6, Quoted(<<"n">>))
    /\ Shows(text, i + 9, <<Colon>>)
    /\ Shows(text, i + 10, Quoted(<<"h">>))
    /\ Shows(text, i + 13, <<Comma>>)
    /\ Shows(text, i + 14, Quoted(<<"p", "1">>))
    /\ Shows(text, i + 18, <<Colon>>)
    /\ Shows(text, i + 19, Quoted(name))
    /\ Shows(text, i + 21 + l, <<Close>>)
    /\ Shows(text, i + 22 + l, <<Close>>)

\* u is s and t, n characters further on.
Splits(text, u, s, n, t) ==
    \A k \in Int : Shows(text, k, u) => Shows(text, k, s) /\ Shows(text, k + n, t)

\* Two texts put together.
LEMMA Joined ==
  ASSUME NEW S, NEW s \in Seq(S), NEW t \in Seq(S), NEW text
  PROVE  /\ s \o t \in Seq(S) /\ Len(s \o t) = Len(s) + Len(t)
         /\ Splits(text, s \o t, s, Len(s), t)
  BY ConcatProperties, ShowsParts DEF Splits

\* A mark as a text.
LEMMA OneMark ==
  ASSUME NEW m \in Marks
  PROVE  \E s \in Seq(Chars) : s = <<m>> /\ Len(s) = 1
<1>1. m \in Chars
  BY CharsAssumption
<1>2. <<m>> \in Seq(Chars) /\ Len(<<m>>) = 1
  BY <1>1
<1>. QED
  BY <1>2, Zenon

\* A word in quotes as a text.
LEMMA OneWord ==
  ASSUME NEW w \in Word(Chars)
  PROVE  \E s \in Seq(Chars) : s = Quoted(w) /\ Len(s) = Len(w) + 2
  BY QuotedIsText, ProgramWords

\* Where a request's marks and words are: it is as long as the name and 23.
LEMMA RequestShown ==
  ASSUME NEW name \in Word(Chars), NEW l \in Nat, l = Len(name), NEW text, NEW i \in Int
  PROVE  /\ SayHello(name) \in Seq(Chars) /\ Len(SayHello(name)) = l + 23
         /\ Shows(text, i, SayHello(name)) => RequestParts(text, i, l, name)
<1>0. Open \in Marks /\ Close \in Marks /\ Colon \in Marks /\ Comma \in Marks
  BY DEF Marks
<1>1. PICK open \in Seq(Chars) : open = <<Open>> /\ Len(open) = 1
  BY <1>0, OneMark
<1>2. PICK close \in Seq(Chars) : close = <<Close>> /\ Len(close) = 1
  BY <1>0, OneMark
<1>3. PICK colon \in Seq(Chars) : colon = <<Colon>> /\ Len(colon) = 1
  BY <1>0, OneMark
<1>4. PICK comma \in Seq(Chars) : comma = <<Comma>> /\ Len(comma) = 1
  BY <1>0, OneMark
<1>5. PICK qf \in Seq(Chars) : qf = Quoted(<<"f">>) /\ Len(qf) = 1 + 2
  <2>1. PICK w \in Word(Chars) : w = <<"f">> /\ Len(w) = 1
    BY ProgramWords
  <2>2. \E s \in Seq(Chars) : s = Quoted(w) /\ Len(s) = Len(w) + 2
    BY OneWord
  <2>. QED
    BY <2>1, <2>2
<1>6. PICK qn \in Seq(Chars) : qn = Quoted(<<"n">>) /\ Len(qn) = 1 + 2
  <2>1. PICK w \in Word(Chars) : w = <<"n">> /\ Len(w) = 1
    BY ProgramWords
  <2>2. \E s \in Seq(Chars) : s = Quoted(w) /\ Len(s) = Len(w) + 2
    BY OneWord
  <2>. QED
    BY <2>1, <2>2
<1>7. PICK qh \in Seq(Chars) : qh = Quoted(<<"h">>) /\ Len(qh) = 1 + 2
  <2>1. PICK w \in Word(Chars) : w = <<"h">> /\ Len(w) = 1
    BY ProgramWords
  <2>2. \E s \in Seq(Chars) : s = Quoted(w) /\ Len(s) = Len(w) + 2
    BY OneWord
  <2>. QED
    BY <2>1, <2>2
<1>8. PICK qp \in Seq(Chars) : qp = Quoted(<<"p", "1">>) /\ Len(qp) = 2 + 2
  <2>1. PICK w \in Word(Chars) : w = <<"p", "1">> /\ Len(w) = 2
    BY ProgramWords
  <2>2. \E s \in Seq(Chars) : s = Quoted(w) /\ Len(s) = Len(w) + 2
    BY OneWord
  <2>. QED
    BY <2>1, <2>2
<1>9. PICK qx \in Seq(Chars) : qx = Quoted(name) /\ Len(qx) = l + 2
  BY OneWord
<1>L. /\ Len(open) = 1 /\ Len(close) = 1 /\ Len(colon) = 1 /\ Len(comma) = 1
      /\ Len(qf) = 3 /\ Len(qn) = 3 /\ Len(qh) = 3 /\ Len(qp) = 4 /\ Len(qx) = l + 2
  BY <1>1, <1>2, <1>3, <1>4, <1>5, <1>6, <1>7, <1>8, <1>9
<1>a1. PICK a1 \in Seq(Chars) : a1 = open \o qn /\ Len(a1) = 4 /\ Splits(text, a1, open, 1, qn)
  <2>1. open \o qn \in Seq(Chars) /\ Len(open \o qn) = Len(open) + Len(qn) /\ Splits(text, open \o qn, open, Len(open), qn)
    BY Joined
  <2>2. Len(open \o qn) = 4 /\ Len(open) = 1
    BY <2>1, <1>L, SMT
  <2>. QED
    BY <2>1, <2>2, Zenon
<1>La1. Len(a1) = 4
  BY <1>a1
<1>a2. PICK a2 \in Seq(Chars) : a2 = a1 \o colon /\ Len(a2) = 5 /\ Splits(text, a2, a1, 4, colon)
  <2>1. a1 \o colon \in Seq(Chars) /\ Len(a1 \o colon) = Len(a1) + Len(colon) /\ Splits(text, a1 \o colon, a1, Len(a1), colon)
    BY Joined
  <2>2. Len(a1 \o colon) = 5 /\ Len(a1) = 4
    BY <2>1, <1>L, <1>La1, SMT
  <2>. QED
    BY <2>1, <2>2, Zenon
<1>La2. Len(a2) = 5
  BY <1>a2
<1>a3. PICK a3 \in Seq(Chars) : a3 = a2 \o qh /\ Len(a3) = 8 /\ Splits(text, a3, a2, 5, qh)
  <2>1. a2 \o qh \in Seq(Chars) /\ Len(a2 \o qh) = Len(a2) + Len(qh) /\ Splits(text, a2 \o qh, a2, Len(a2), qh)
    BY Joined
  <2>2. Len(a2 \o qh) = 8 /\ Len(a2) = 5
    BY <2>1, <1>L, <1>La2, SMT
  <2>. QED
    BY <2>1, <2>2, Zenon
<1>La3. Len(a3) = 8
  BY <1>a3
<1>a4. PICK a4 \in Seq(Chars) : a4 = a3 \o comma /\ Len(a4) = 9 /\ Splits(text, a4, a3, 8, comma)
  <2>1. a3 \o comma \in Seq(Chars) /\ Len(a3 \o comma) = Len(a3) + Len(comma) /\ Splits(text, a3 \o comma, a3, Len(a3), comma)
    BY Joined
  <2>2. Len(a3 \o comma) = 9 /\ Len(a3) = 8
    BY <2>1, <1>L, <1>La3, SMT
  <2>. QED
    BY <2>1, <2>2, Zenon
<1>La4. Len(a4) = 9
  BY <1>a4
<1>a5. PICK a5 \in Seq(Chars) : a5 = a4 \o qp /\ Len(a5) = 13 /\ Splits(text, a5, a4, 9, qp)
  <2>1. a4 \o qp \in Seq(Chars) /\ Len(a4 \o qp) = Len(a4) + Len(qp) /\ Splits(text, a4 \o qp, a4, Len(a4), qp)
    BY Joined
  <2>2. Len(a4 \o qp) = 13 /\ Len(a4) = 9
    BY <2>1, <1>L, <1>La4, SMT
  <2>. QED
    BY <2>1, <2>2, Zenon
<1>La5. Len(a5) = 13
  BY <1>a5
<1>a6. PICK a6 \in Seq(Chars) : a6 = a5 \o colon /\ Len(a6) = 14 /\ Splits(text, a6, a5, 13, colon)
  <2>1. a5 \o colon \in Seq(Chars) /\ Len(a5 \o colon) = Len(a5) + Len(colon) /\ Splits(text, a5 \o colon, a5, Len(a5), colon)
    BY Joined
  <2>2. Len(a5 \o colon) = 14 /\ Len(a5) = 13
    BY <2>1, <1>L, <1>La5, SMT
  <2>. QED
    BY <2>1, <2>2, Zenon
<1>La6. Len(a6) = 14
  BY <1>a6
<1>a7. PICK a7 \in Seq(Chars) : a7 = a6 \o qx /\ Len(a7) = l + 16 /\ Splits(text, a7, a6, 14, qx)
  <2>1. a6 \o qx \in Seq(Chars) /\ Len(a6 \o qx) = Len(a6) + Len(qx) /\ Splits(text, a6 \o qx, a6, Len(a6), qx)
    BY Joined
  <2>2. Len(a6 \o qx) = l + 16 /\ Len(a6) = 14
    BY <2>1, <1>L, <1>La6, SMT
  <2>. QED
    BY <2>1, <2>2, Zenon
<1>La7. Len(a7) = l + 16
  BY <1>a7
<1>a8. PICK a8 \in Seq(Chars) : a8 = a7 \o close /\ Len(a8) = l + 17 /\ Splits(text, a8, a7, l + 16, close)
  <2>1. a7 \o close \in Seq(Chars) /\ Len(a7 \o close) = Len(a7) + Len(close) /\ Splits(text, a7 \o close, a7, Len(a7), close)
    BY Joined
  <2>2. Len(a7 \o close) = l + 17 /\ Len(a7) = l + 16
    BY <2>1, <1>L, <1>La7, SMT
  <2>. QED
    BY <2>1, <2>2, Zenon
<1>La8. Len(a8) = l + 17
  BY <1>a8
<1>b1. PICK b1 \in Seq(Chars) : b1 = open \o qf /\ Len(b1) = 4 /\ Splits(text, b1, open, 1, qf)
  <2>1. open \o qf \in Seq(Chars) /\ Len(open \o qf) = Len(open) + Len(qf) /\ Splits(text, open \o qf, open, Len(open), qf)
    BY Joined
  <2>2. Len(open \o qf) = 4 /\ Len(open) = 1
    BY <2>1, <1>L, SMT
  <2>. QED
    BY <2>1, <2>2, Zenon
<1>Lb1. Len(b1) = 4
  BY <1>b1
<1>b2. PICK b2 \in Seq(Chars) : b2 = b1 \o colon /\ Len(b2) = 5 /\ Splits(text, b2, b1, 4, colon)
  <2>1. b1 \o colon \in Seq(Chars) /\ Len(b1 \o colon) = Len(b1) + Len(colon) /\ Splits(text, b1 \o colon, b1, Len(b1), colon)
    BY Joined
  <2>2. Len(b1 \o colon) = 5 /\ Len(b1) = 4
    BY <2>1, <1>L, <1>Lb1, SMT
  <2>. QED
    BY <2>1, <2>2, Zenon
<1>Lb2. Len(b2) = 5
  BY <1>b2
<1>b3. PICK b3 \in Seq(Chars) : b3 = b2 \o a8 /\ Len(b3) = l + 22 /\ Splits(text, b3, b2, 5, a8)
  <2>1. b2 \o a8 \in Seq(Chars) /\ Len(b2 \o a8) = Len(b2) + Len(a8) /\ Splits(text, b2 \o a8, b2, Len(b2), a8)
    BY Joined
  <2>2. Len(b2 \o a8) = l + 22 /\ Len(b2) = 5
    BY <2>1, <1>L, <1>La8, <1>Lb2, SMT
  <2>. QED
    BY <2>1, <2>2, Zenon
<1>Lb3. Len(b3) = l + 22
  BY <1>b3
<1>b4. PICK b4 \in Seq(Chars) : b4 = b3 \o close /\ Len(b4) = l + 23 /\ Splits(text, b4, b3, l + 22, close)
  <2>1. b3 \o close \in Seq(Chars) /\ Len(b3 \o close) = Len(b3) + Len(close) /\ Splits(text, b3 \o close, b3, Len(b3), close)
    BY Joined
  <2>2. Len(b3 \o close) = l + 23 /\ Len(b3) = l + 22
    BY <2>1, <1>L, <1>Lb3, SMT
  <2>. QED
    BY <2>1, <2>2, Zenon
<1>Lb4. Len(b4) = l + 23
  BY <1>b4
<1>10. SayHello(name) = b4
  BY <1>1, <1>2, <1>3, <1>4, <1>5, <1>6, <1>7, <1>8, <1>9, <1>a1, <1>a2, <1>a3, <1>a4, <1>a5, <1>a6,
     <1>a7, <1>a8, <1>b1, <1>b2, <1>b3, <1>b4, Zenon DEF SayHello, Format1, Format2
<1>11. ASSUME Shows(text, i, b4) PROVE RequestParts(text, i, l, name)
  <2>1. Shows(text, i, b3) /\ Shows(text, i + 22 + l, close)
    BY <1>b4, <1>11 DEF Splits
  <2>2. Shows(text, i, b2) /\ Shows(text, i + 5, a8)
    BY <1>b3, <2>1 DEF Splits
  <2>3. Shows(text, i, b1) /\ Shows(text, i + 4, colon)
    BY <1>b2, <2>2 DEF Splits
  <2>4. Shows(text, i, open) /\ Shows(text, i + 1, qf)
    BY <1>b1, <2>3 DEF Splits
  <2>5. Shows(text, i + 5, a7) /\ Shows(text, i + 21 + l, close)
    BY <1>a8, <2>2 DEF Splits
  <2>6. Shows(text, i + 5, a6) /\ Shows(text, i + 19, qx)
    BY <1>a7, <2>5 DEF Splits
  <2>7. Shows(text, i + 5, a5) /\ Shows(text, i + 18, colon)
    BY <1>a6, <2>6 DEF Splits
  <2>8. Shows(text, i + 5, a4) /\ Shows(text, i + 14, qp)
    BY <1>a5, <2>7 DEF Splits
  <2>9. Shows(text, i + 5, a3) /\ Shows(text, i + 13, comma)
    BY <1>a4, <2>8 DEF Splits
  <2>10. Shows(text, i + 5, a2) /\ Shows(text, i + 10, qh)
    BY <1>a3, <2>9 DEF Splits
  <2>11. Shows(text, i + 5, a1) /\ Shows(text, i + 9, colon)
    BY <1>a2, <2>10 DEF Splits
  <2>12. Shows(text, i + 5, open) /\ Shows(text, i + 6, qn)
    BY <1>a1, <2>11 DEF Splits
  <2>. QED
    BY <1>1, <1>2, <1>3, <1>4, <1>5, <1>6, <1>7, <1>8, <1>9,
       <2>1, <2>3, <2>4, <2>5, <2>6, <2>7, <2>8, <2>9, <2>10, <2>11, <2>12 DEF RequestParts
<1>. QED
  BY <1>10, <1>b4, <1>11

-----------------------------------------------------------------------------
(* What is read of a call                                                  *)

\* The words of the program differ.
LEMMA WordsDiffer ==
    /\ <<"f">> # <<"n">> /\ <<"f">> # <<"p", "1">> /\ <<"n">> # <<"p", "1">>
    /\ Len(<<"f">>) = 1 /\ Len(<<"n">>) = 1 /\ Len(<<"h">>) = 1 /\ Len(<<"p", "1">>) = 2 /\ Len(<<"r">>) = 1
  OBVIOUS

\* A value that is a call of sayHello as far as it has been read.
Called(v, name) ==
    /\ v.type = "object" /\ <<"f">> \notin DOMAIN v.members
    /\ Member(v, <<"n">>) \in {Null, String(<<"h">>)}
    /\ Member(v, <<"p", "1">>) \in {Null, String(name)}

\* Member of an object.
LEMMA MemberOfObject ==
  ASSUME NEW ms, NEW x
  PROVE  Member(Object(ms), x) = IF x \in DOMAIN ms THEN ms[x] ELSE Null
<1>1. Object(ms).type = "object" /\ Object(ms).members = ms
  BY DEF Object
<1>. QED
  BY <1>1 DEF Member

\* An object with one member.
LEMMA OneMember ==
  ASSUME NEW p, NEW x
  PROVE  DOMAIN WithMember(<<>>, p, x) = {p} /\ WithMember(<<>>, p, x)[p] = x
  BY DEF WithMember

\* An object with one member more.
LEMMA MoreMembers ==
  ASSUME NEW ms, NEW n, NEW a
  PROVE  /\ DOMAIN WithMember(ms, n, a) = {n} \cup DOMAIN ms
         /\ n \notin DOMAIN ms => WithMember(ms, n, a)[n] = a
         /\ \A p \in DOMAIN ms : WithMember(ms, n, a)[p] = ms[p]
  BY DEF WithMember

LEMMA NoMembers == DOMAIN <<>> = {} /\ Object(<<>>).type = "object" /\ Object(<<>>).members = <<>>
  BY DEF Object

\* What is read of the members after the first one of a call.
Rest(ms, p, s) == ms = <<>> \/ ms = WithMember(<<>>, p, Null) \/ ms = WithMember(<<>>, p, s)

\* What Rest says of the members.
LEMMA RestMembers ==
  ASSUME NEW ms, NEW p, NEW s, Rest(ms, p, s)
  PROVE  DOMAIN ms \subseteq {p} /\ \A x \in DOMAIN ms : ms[x] \in {Null, s}
<1>1. CASE ms = <<>>
  BY <1>1, NoMembers
<1>2. ASSUME NEW x, ms = WithMember(<<>>, p, x)
      PROVE  DOMAIN ms = {p} /\ ms[p] = x
  <2>1. PICK ws : ws = WithMember(<<>>, p, x) /\ DOMAIN ws = {p} /\ ws[p] = x
    BY OneMember
  <2>. QED
    BY <1>2, <2>1
<1>. QED
  BY <1>1, <1>2 DEF Rest

\* The members of a call of which the first was read.
LEMMA TwoMembers ==
  ASSUME NEW f, NEW n, NEW p, n # p, f # n, f # p, NEW s, NEW a, NEW ms, Rest(ms, p, s)
  PROVE  LET v == Object(WithMember(ms, n, a)) IN
         /\ v.type = "object" /\ f \notin DOMAIN v.members
         /\ Member(v, n) = a /\ Member(v, p) \in {Null, s}
         /\ ms = WithMember(<<>>, p, s) => Member(v, p) = s
<1>. DEFINE ws == WithMember(ms, n, a)  v == Object(ws)
<1>1. DOMAIN ms \subseteq {p} /\ \A x \in DOMAIN ms : ms[x] \in {Null, s}
  BY RestMembers
<1>2. DOMAIN ws = {n} \cup DOMAIN ms /\ ws[n] = a /\ \A x \in DOMAIN ms : ws[x] = ms[x]
  BY <1>1, MoreMembers
<1>3. v.type = "object" /\ v.members = ws
  BY DEF Object
<1>4. ms = WithMember(<<>>, p, s) => p \in DOMAIN ms /\ ms[p] = s
  BY OneMember
<1>. HIDE DEF ws
<1>5. \A x : Member(v, x) = IF x \in DOMAIN ws THEN ws[x] ELSE Null
  BY MemberOfObject
<1>. HIDE DEF v
<1>6. Member(v, n) = a
  BY <1>2, <1>5
<1>7. Member(v, p) \in {Null, s}
  BY <1>1, <1>2, <1>5
<1>8. ms = WithMember(<<>>, p, s) => Member(v, p) = s
  BY <1>2, <1>4, <1>5
<1>9. f \notin DOMAIN v.members
  BY <1>1, <1>2, <1>3
<1>. QED
  BY <1>3, <1>6, <1>7, <1>8, <1>9 DEF v, ws

\* The members of a call that was read to wherever the text ends.
LEMMA CalledMembers ==
  ASSUME NEW name, NEW n, n = <<"n">>, NEW h, h = <<"h">>, NEW p, p = <<"p", "1">>
  PROVE  /\ Called(Object(<<>>), name)
         /\ \A ms, a : Rest(ms, p, String(name)) /\ a \in {Null, String(h)} =>
                Called(Object(WithMember(ms, n, a)), name)
<1>1. ASSUME NEW ms, NEW a, Rest(ms, <<"p", "1">>, String(name)), a \in {Null, String(<<"h">>)}
      PROVE  Called(Object(WithMember(ms, <<"n">>, a)), name)
  <2>1. PICK f, m, q, s : f = <<"f">> /\ m = <<"n">> /\ q = <<"p", "1">> /\ s = String(name)
    OBVIOUS
  <2>2. m # q /\ f # m /\ f # q
    BY <2>1, WordsDiffer, Zenon
  <2>3. Rest(ms, q, s)
    BY <1>1, <2>1, Zenon
  <2>. DEFINE v == Object(WithMember(ms, m, a))
  <2>4. /\ v.type = "object" /\ f \notin DOMAIN v.members
        /\ Member(v, m) = a /\ Member(v, q) \in {Null, s}
    BY <2>2, <2>3, TwoMembers
  <2>. HIDE DEF v
  <2>5. Called(v, name)
    BY <1>1, <2>1, <2>4, Zenon DEF Called
  <2>. QED
    BY <2>1, <2>5, Zenon DEF v
<1>2. Called(Object(<<>>), name)
  BY NoMembers DEF Called, Member
<1>. QED
  BY <1>1, <1>2, Zenon

\* The inner object of a request, from the place after its brace.
CallParts(text, i, name) ==
    /\ Shows(text, i, Quoted(<<"n">>)) /\ Shows(text, i + 3, <<Colon>>)
    /\ Shows(text, i + 4, Quoted(<<"h">>)) /\ Shows(text, i + 7, <<Comma>>)
    /\ Shows(text, i + 8, Quoted(<<"p", "1">>)) /\ Shows(text, i + 12, <<Colon>>)
    /\ Shows(text, i + 13, Quoted(name)) /\ Shows(text, i + 15 + Len(name), <<Close>>)

IsCall(text, i, name) ==
    LET o == ReadObjects(text)[i] IN
    /\ Called(o.value, name)
    /\ i + 15 + Len(name) > Len(text) => ~o.ok
    /\ i + 15 + Len(name) <= Len(text) =>
          /\ o.ok /\ o.next = i + 16 + Len(name)
          /\ Member(o.value, <<"n">>) = String(<<"h">>)
          /\ Member(o.value, <<"p", "1">>) = String(name)

\* The call of a request is read whole, or as far as the text goes.
LEMMA CallRead ==
  ASSUME NEW text \in Seq(Chars), NEW i \in 1 .. Len(text) + 1, NEW name \in Word(Chars),
         CallParts(text, i, name)
  PROVE  IsCall(text, i, name)
<1>0. PICK z \in Nat : z = Len(text)
  BY LenProperties
<1>w. PICK n \in Word(Chars), h \in Word(Chars), p \in Word(Chars) :
        n = <<"n">> /\ h = <<"h">> /\ p = <<"p", "1">>
  BY ProgramWords, Zenon
<1>1. Len(n) = 1 /\ Len(h) = 1 /\ Len(p) = 2
  BY <1>w, WordsDiffer
<1>q. Quote \in Chars /\ n \in Word(Chars) /\ h \in Word(Chars) /\ p \in Word(Chars)
  BY <1>w, ProgramWords
<1>l. PICK l \in Nat : l = Len(name)
  BY QuotedIsText, ProgramWords
<1>2. /\ Shows(text, i, Quoted(n)) /\ Shows(text, i + 3, <<Colon>>) /\ Shows(text, i + 4, Quoted(h))
      /\ Shows(text, i + 7, <<Comma>>) /\ Shows(text, i + 8, Quoted(p)) /\ Shows(text, i + 12, <<Colon>>)
      /\ Shows(text, i + 13, Quoted(name)) /\ Shows(text, i + 15 + l, <<Close>>)
  BY <1>w, <1>l, Zenon DEF CallParts
<1>. DEFINE values == ReadObjects(text)  o == values[i]  rest == values[i + 8]
<1>3. /\ i + 7 > z => /\ ~o.ok
                      /\ \/ o.value = Object(<<>>)
                         \/ o.value = Object(WithMember(<<>>, n, Null))
                         \/ o.value = Object(WithMember(<<>>, n, String(h)))
      /\ i + 7 <= z => o = [ok |-> rest.ok, value |-> Object(WithMember(rest.value.members, n, String(h))),
                            next |-> rest.next]
  <2>1. PICK j \in Int, e \in Int, m \in {Close, Comma} :
            j = i + 4 /\ e = i + 7 /\ m = Comma /\ j - 1 = i + 3 /\ e + 1 = i + 8
    OBVIOUS
  <2>2. j = i + Len(n) + 3 /\ e = j + Len(h) + 2 /\ j \in Int /\ e \in Int /\ m \in {Close, Comma}
    BY <1>1, <2>1
  <2>3. /\ Shows(text, i, Quoted(n)) /\ Shows(text, j - 1, <<Colon>>)
        /\ Shows(text, j, Quoted(h)) /\ Shows(text, e, <<m>>)
    BY <1>2, <2>1
  <2>4. StringRead(text, i, n, h, m, e)
    BY <1>q, <2>2, <2>3, StringMember
  <2>. QED
    BY <1>0, <2>1, <2>4, MarksDiffer DEF StringRead
<1>. DEFINE RestRead ==
            /\ i + 15 + l > z => /\ ~rest.ok
                                 /\ \/ rest.value = Object(<<>>)
                                    \/ rest.value = Object(WithMember(<<>>, p, Null))
                                    \/ rest.value = Object(WithMember(<<>>, p, String(name)))
            /\ i + 15 + l <= z =>
                   rest = [ok |-> TRUE, value |-> Object(WithMember(<<>>, p, String(name))), next |-> i + 16 + l]
<1>4. ASSUME i + 7 <= z PROVE RestRead
  <2>1. PICK k \in 1 .. Len(text) + 1, j \in Int, e \in Int, m \in {Close, Comma} :
            k = i + 8 /\ j = i + 13 /\ e = i + 15 + l /\ m = Close /\ j - 1 = i + 12 /\ e + 1 = i + 16 + l
    BY <1>0, <1>4
  <2>2. /\ j = k + Len(p) + 3 /\ e = j + Len(name) + 2 /\ j \in Int /\ e \in Int /\ m \in {Close, Comma}
        /\ k \in 1 .. Len(text) + 1
    BY <1>1, <1>l, <2>1
  <2>3. /\ Shows(text, k, Quoted(p)) /\ Shows(text, j - 1, <<Colon>>)
        /\ Shows(text, j, Quoted(name)) /\ Shows(text, e, <<m>>)
    BY <1>2, <2>1
  <2>4. StringRead(text, k, p, name, m, e)
    BY <1>q, <2>2, <2>3, StringMember
  <2>. QED
    BY <1>0, <2>1, <2>4, MarksDiffer DEF StringRead
<1>. HIDE DEF values
<1>e. /\ Called(Object(<<>>), name)
      /\ \A ms, a : Rest(ms, p, String(name)) /\ a \in {Null, String(h)} =>
             Called(Object(WithMember(ms, n, a)), name)
  BY <1>w, CalledMembers
<1>5. CASE i + 7 > z
  <2>1. Rest(<<>>, p, String(name))
    BY DEF Rest
  <2>2. Called(o.value, name) /\ ~o.ok
    BY <1>3, <1>5, <1>e, <2>1
  <2>. QED
    BY <1>0, <1>l, <1>5, <2>2 DEF values, IsCall
<1>6. CASE i + 7 <= z
  <2>1. o = [ok |-> rest.ok, value |-> Object(WithMember(rest.value.members, n, String(h))), next |-> rest.next]
    BY <1>3, <1>6
  <2>. DEFINE ms == rest.value.members  s == String(name)
  <2>2. o.ok = rest.ok /\ o.value = Object(WithMember(ms, n, String(h))) /\ o.next = rest.next
    BY <2>1
  <2>3. Rest(ms, p, s)
    <3>1. \/ rest.value = Object(<<>>)
          \/ rest.value = Object(WithMember(<<>>, p, Null))
          \/ rest.value = Object(WithMember(<<>>, p, s))
      BY <1>4, <1>6
    <3>2. \A x : Object(x).members = x
      BY DEF Object
    <3>. QED
      BY <3>1, <3>2 DEF Rest
  <2>4. i + 15 + l <= z => ms = WithMember(<<>>, p, s) /\ rest.ok /\ rest.next = i + 16 + l
    <3>1. \A x : Object(x).members = x
      BY DEF Object
    <3>2. ASSUME i + 15 + l <= z
          PROVE  rest = [ok |-> TRUE, value |-> Object(WithMember(<<>>, p, s)), next |-> i + 16 + l]
      BY <1>4, <1>6, <3>2
    <3>. QED
      BY <3>1, <3>2
  <2>. HIDE DEF ms, s
  <2>5. Called(o.value, name)
    BY <1>e, <2>2, <2>3 DEF s
  <2>6. LET v == Object(WithMember(ms, n, String(h))) IN
        Member(v, n) = String(h) /\ (ms = WithMember(<<>>, p, s) => Member(v, p) = s)
    <3>1. PICK f : f = <<"f">> /\ n # p /\ f # n /\ f # p
      BY <1>w, WordsDiffer, Zenon
    <3>2. n # p /\ f # n /\ f # p
      BY <3>1
    <3>3. LET v == Object(WithMember(ms, n, String(h))) IN
          /\ v.type = "object" /\ f \notin DOMAIN v.members
          /\ Member(v, n) = String(h) /\ Member(v, p) \in {Null, s}
          /\ ms = WithMember(<<>>, p, s) => Member(v, p) = s
      BY <2>3, <3>2, TwoMembers
    <3>. QED
      BY <3>3
  <2>7. i + 15 + l <= z => /\ o.ok /\ o.next = i + 16 + l
                           /\ Member(o.value, n) = String(h) /\ Member(o.value, p) = s
    BY <2>2, <2>4, <2>6
  <2>9. i + 15 + l > z => ~o.ok
    BY <1>4, <1>6, <2>2
  <2>8. i + 15 + l <= z => /\ o.ok /\ o.next = i + 16 + l
                           /\ Member(o.value, <<"n">>) = String(<<"h">>)
                           /\ Member(o.value, <<"p", "1">>) = String(name)
    BY <1>w, <2>7, Zenon DEF s
  <2>. QED
    BY <1>0, <1>l, <2>5, <2>8, <2>9 DEF values, IsCall
<1>. QED
  BY <1>0, <1>5, <1>6

-----------------------------------------------------------------------------
(* The result for a text                                                   *)

\* Without a call the result is the error.
LEMMA NothingCalled ==
  ASSUME NEW text, Member(Parse(text), <<"f">>) = Null
  PROVE  Result(text) = String(<<"E">>)
<1>1. Member(Null, <<"n">>) = Null /\ AsString(Null) = String(<<>>)
  BY DEF Member, AsString, Null
<1>2. String(<<>>) # String(<<"h">>) /\ String(<<>>) # Throws
  <2>1. <<>> # <<"h">>
    OBVIOUS
  <2>. QED
    BY <2>1, StringsDiffer
<1>. QED
  BY <1>1, <1>2 DEF Result

\* asString of what a call's members can be.
LEMMA StringIsRead == \A s : AsString(String(s)) = String(s) /\ AsString(Null) = String(<<>>)
  BY DEF AsString, String, Null

\* The result of a call that was read to wherever the text ends.
LEMMA CallResult ==
  ASSUME NEW text, NEW name, NEW v, Called(v, name), Member(Parse(text), <<"f">>) = v
  PROVE  /\ \/ Result(text) = String(<<"E">>)
            \/ Result(text) = String(<<"H">> \o <<>>)
            \/ Result(text) = String(<<"H">> \o name)
         /\ Member(v, <<"n">>) = String(<<"h">>) /\ Member(v, <<"p", "1">>) = String(name) =>
                Result(text) = String(<<"H">> \o name)
<1>1. PICK n, h, p : n = <<"n">> /\ h = <<"h">> /\ p = <<"p", "1">>
  OBVIOUS
<1>2. Member(v, n) \in {Null, String(h)} /\ Member(v, p) \in {Null, String(name)}
  BY <1>1, Zenon DEF Called
<1>3. PICK a, b : /\ a = AsString(Member(v, n)) /\ a \in {String(<<>>), String(h)}
                  /\ b = AsString(Member(v, p)) /\ b \in {String(<<>>), String(name)}
  BY <1>2, StringIsRead
<1>4. Result(text) = IF a = Throws THEN Throws
                     ELSE IF a # String(h) THEN String(<<"E">>)
                     ELSE IF b = Throws THEN Throws
                     ELSE String(<<"H">> \o b.text)
  <2>1. Member(Parse(text), <<"f">>) = v
    OBVIOUS
  <2>. QED
    BY <1>1, <1>3, <2>1, Zenon DEF Result
<1>5. a # Throws /\ b # Throws /\ b.text \in {<<>>, name}
  BY <1>3, StringsDiffer
<1>6. \/ Result(text) = String(<<"E">>)
      \/ Result(text) = String(<<"H">> \o <<>>)
      \/ Result(text) = String(<<"H">> \o name)
  BY <1>4, <1>5
<1>7. ASSUME Member(v, n) = String(h), Member(v, p) = String(name) PROVE Result(text) = String(<<"H">> \o name)
  <2>1. a = String(h) /\ b = String(name)
    BY <1>3, <1>7, StringIsRead, Zenon
  <2>2. b.text = name
    BY <2>1, StringsDiffer
  <2>. QED
    BY <1>4, <1>5, <2>1, <2>2
<1>. QED
  BY <1>1, <1>6, <1>7, Zenon

\* What is parsed of a text that begins with a brace, and of one that does not.
LEMMA RootObject ==
  ASSUME NEW S, NEW text \in Seq(S), Shows(text, 1, <<Open>>), text # <<>>
  PROVE  Parse(text) = ReadObjects(text)[2].value /\ 2 \in 1 .. Len(text) + 1
<1>1. PICK z \in Nat : z = Len(text) /\ z >= 1
  BY LenProperties, EmptySeq
<1>. DEFINE t == ReadToken(text, 1)
<1>2. t = [type |-> Open, next |-> 2]
  <2>1. Open \in Marks /\ 1 \in 1 .. Len(text) + 1 /\ 1 + 1 = 2
    BY <1>1 DEF Marks
  <2>2. 1 <= Len(text) => t = [type |-> Open, next |-> 1 + 1]
    BY <2>1, MarkToken
  <2>. QED
    BY <1>1, <2>1, <2>2
<1>. HIDE DEF t
<1>3. t.type = Open /\ t.next = 2
  BY <1>2
<1>4. ReadValue(text, 1, ReadObjects(text)) = ReadObjects(text)[2]
  BY <1>3, MarksDiffer DEF ReadValue, t
<1>. QED
  BY <1>1, <1>4 DEF Parse

\* A text that does not begin with a brace.
LEMMA NoRootObject ==
  ASSUME NEW S, NEW text \in Seq(S), text # <<>> => text[1] # Open
  PROVE  /\ Result(text) \in {Throws, String(<<"E">>)}
         /\ text = <<>> => Result(text) = String(<<"E">>)
<1>1. PICK z \in Nat : z = Len(text) /\ (text = <<>> <=> z = 0)
  BY LenProperties, EmptySeq
<1>. DEFINE t == ReadToken(text, 1)
<1>2. t.type # Open /\ (text = <<>> => t.type = "end")
  <2>1. CASE z = 0
    BY <1>1, <2>1, MarksDiffer DEF ReadToken
  <2>2. CASE z # 0 /\ text[1] \in Marks
    <3>1. t = [type |-> text[1], next |-> 2]
      BY <1>1, <2>2 DEF ReadToken
    <3>. QED
      BY <1>1, <2>2, <3>1
  <2>3. CASE z # 0 /\ text[1] \notin Marks
    BY <1>1, <2>3, MarksDiffer DEF ReadToken
  <2>. QED
    BY <2>1, <2>2, <2>3
<1>. HIDE DEF t
<1>3. Parse(text) = IF t.type \in {"string", "number"} THEN [type |-> t.type, text |-> t.text] ELSE Null
  BY <1>2 DEF Parse, ReadValue, t
<1>4. CASE t.type \in {"string", "number"}
  <2>1. Parse(text).type \notin {"null", "object"}
    BY <1>3, <1>4
  <2>2. Member(Parse(text), <<"f">>) = Throws
    BY <2>1 DEF Member
  <2>3. Member(Throws, <<"n">>) = Throws /\ AsString(Throws) = Throws
    BY DEF Member, AsString, Throws
  <2>4. text # <<>>
    BY <1>2, <1>4
  <2>. QED
    BY <2>2, <2>3, <2>4 DEF Result
<1>5. CASE t.type \notin {"string", "number"}
  <2>1. Parse(text) = Null
    BY <1>3, <1>5
  <2>2. Member(Parse(text), <<"f">>) = Null
    BY <2>1 DEF Member, Null
  <2>. QED
    BY <2>2, NothingCalled
<1>. QED
  BY <1>4, <1>5

\* The end of the stream, which is read as an empty text.
LEMMA NothingRead == Result(<<>>) = String(<<"E">>)
<1>1. <<>> \in Seq({})
  OBVIOUS
<1>. QED
  BY <1>1, NoRootObject

Greetings(name) == {String(<<"E">>), String(<<"H">> \o <<>>), String(<<"H">> \o name)}

\* The call within a request.
LEMMA PartsOfCall ==
  ASSUME NEW text, NEW b \in Int, NEW i \in Int, NEW name \in Word(Chars), i = b + 6,
         RequestParts(text, b, Len(name), name)
  PROVE  CallParts(text, i, name)
<1>0. PICK l \in Nat : l = Len(name)
  BY QuotedIsText, ProgramWords
<1>1. /\ b + 6 = i /\ b + 9 = i + 3 /\ b + 10 = i + 4 /\ b + 13 = i + 7 /\ b + 14 = i + 8 /\ b + 18 = i + 12
      /\ b + 19 = i + 13 /\ b + 21 + l = i + 15 + l
  OBVIOUS
<1>. QED
  BY <1>0, <1>1 DEF RequestParts, CallParts

\* The member that a request begins with.
LEMMA FirstMember ==
  ASSUME NEW ms, NEW f, NEW v
  PROVE  Member(Object(WithMember(ms, f, v)), f) = IF f \in DOMAIN ms THEN ms[f] ELSE v
<1>1. PICK ws : /\ ws = WithMember(ms, f, v)
                /\ DOMAIN ws = {f} \cup DOMAIN ms
                /\ ws[f] = IF f \in DOMAIN ms THEN ms[f] ELSE v
  BY MoreMembers
<1>2. Member(Object(ws), f) = IF f \in DOMAIN ws THEN ws[f] ELSE Null
  BY MemberOfObject
<1>. QED
  BY <1>1, <1>2

\* A text with a request at its beginning.
LEMMA Greeting ==
  ASSUME NEW text \in Seq(Chars), NEW name \in Word(Chars), Shows(text, 1, SayHello(name))
  PROVE  /\ Result(text) \in Greetings(name)
         /\ Len(text) >= Len(SayHello(name)) => Result(text) = String(<<"H">> \o name)
<1>0. PICK z \in Nat, l \in Nat : z = Len(text) /\ l = Len(name) /\ (text = <<>> <=> z = 0)
  BY LenProperties, EmptySeq, QuotedIsText, ProgramWords
<1>1. Len(SayHello(name)) = l + 23 /\ RequestParts(text, 1, l, name)
  BY <1>0, RequestShown
<1>2. CASE text = <<>>
  <2>1. Result(text) = String(<<"E">>)
    <3>1. text # <<>> => text[1] # Open
      BY <1>2
    <3>. QED
      BY <1>2, <3>1, NoRootObject
  <2>2. ~(z >= l + 23)
    BY <1>0, <1>2
  <2>. QED
    BY <1>0, <1>1, <2>1, <2>2 DEF Greetings
<1>3. CASE text # <<>>
  <2>. DEFINE values == ReadObjects(text)  o == values[2]
  <2>1. Parse(text) = o.value /\ 2 \in 1 .. Len(text) + 1
    BY <1>1, <1>3, RootObject DEF RequestParts
  <2>2. PICK f \in Word(Chars), j \in Int : f = <<"f">> /\ j = 6
    BY ProgramWords
  <2>3. j = 2 + Len(f) + 3 /\ Shows(text, 2, Quoted(f)) /\ Shows(text, j - 1, <<Colon>>)
    <3>1. Len(f) = 1 /\ 1 + 1 = 2 /\ j - 1 = 1 + 4
      BY <2>2, WordsDiffer
    <3>2. Shows(text, 1 + 1, Quoted(<<"f">>)) /\ Shows(text, 1 + 4, <<Colon>>)
      BY <1>1 DEF RequestParts
    <3>3. Shows(text, 1 + 1, Quoted(f))
      BY <2>2, <3>2, Zenon
    <3>. QED
      BY <3>1, <3>2, <3>3, <2>2
  <2>4. f \in Word(Chars) /\ Quote \in Chars /\ j \in Int
    BY <2>2, ProgramWords
  <2>5. /\ j > Len(text) + 1 => ~o.ok /\ o.value = Object(<<>>)
        /\ j <= Len(text) + 1 => FromValue(text, 2, f, j, o)
    <3>. HIDE DEF values
    <3>. QED
      BY <2>1, <2>3, <2>4, MemberName DEF values
  <2>. HIDE DEF o
  <2>6. CASE j > Len(text) + 1
    <3>1. Member(Parse(text), f) = Null
      BY <2>1, <2>5, <2>6, MemberOfObject, NoMembers
    <3>2. Result(text) = String(<<"E">>)
      BY <2>2, <3>1, NothingCalled
    <3>. QED
      BY <1>0, <1>1, <2>2, <2>6, <3>2 DEF Greetings
  <2>7. CASE j <= Len(text) + 1
    <3>. DEFINE v == ReadValue(text, j, values)
                after == ReadToken(text, v.next)
                t == ReadToken(text, j)
    <3>0. j \in 1 .. z + 1 /\ Shows(text, j, <<Open>>)
      <4>1. j = 1 + 5 /\ Shows(text, 1 + 5, <<Open>>)
        BY <1>1, <2>2 DEF RequestParts
      <4>. QED
        BY <1>0, <2>2, <2>7, <4>1
    <3>1. /\ j <= z => t = [type |-> Open, next |-> j + 1]
          /\ j > z => t.type = "end"
      <4>1. Open \in Marks
        BY DEF Marks
      <4>. QED
        BY <1>0, <3>0, <4>1, MarkToken
    <3>. HIDE DEF t
    <3>2. j > z => ~v.ok /\ v.value = Null
      BY <3>1, MarksDiffer DEF ReadValue, t
    <3>3. j <= z => v = values[j + 1]
      BY <3>1, MarksDiffer DEF ReadValue, t
    <3>4. FromValue(text, 2, f, j, o)
      BY <2>5, <2>7
    <3>5. CASE j > z
      <4>1. o.value = Object(WithMember(<<>>, f, Null))
        BY <3>2, <3>4, <3>5 DEF FromValue
      <4>2. Member(Parse(text), f) = Null
        BY <2>1, <4>1, FirstMember, NoMembers
      <4>3. Result(text) = String(<<"E">>)
        BY <2>2, <4>2, NothingCalled
      <4>. QED
        BY <1>0, <1>1, <2>2, <3>5, <4>3 DEF Greetings
    <3>6. CASE j <= z
      <4>0. PICK i \in 1 .. z + 1, b \in Int : i = j + 1 /\ i = 7 /\ b = 1
        BY <2>2, <3>6
      <4>1. IsCall(text, i, name)
        <5>1. RequestParts(text, b, Len(name), name) /\ i = b + 6
          BY <1>0, <1>1, <4>0
        <5>2. CallParts(text, i, name)
          BY <5>1, PartsOfCall
        <5>. QED
          BY <1>0, <5>2, CallRead
      <4>2. /\ v = values[i]
            /\ Called(v.value, name)
            /\ i + 15 + l > z => ~v.ok
            /\ i + 15 + l <= z => /\ v.ok /\ v.next = i + 16 + l
                                  /\ Member(v.value, <<"n">>) = String(<<"h">>)
                                  /\ Member(v.value, <<"p", "1">>) = String(name)
        BY <1>0, <3>3, <3>6, <4>0, <4>1 DEF IsCall
      <4>. HIDE DEF v
      <4>3. v.ok => after.type # Comma
        <5>. SUFFICES ASSUME v.ok PROVE after.type # Comma
          OBVIOUS
        <5>1. i + 15 + l <= z /\ v.next = i + 16 + l
          BY <4>2
        <5>2. PICK k \in 1 .. z + 1 : k = i + 16 + l /\ k = 1 + 22 + l
          BY <4>0, <5>1
        <5>3. Shows(text, k, <<Close>>)
          BY <1>1, <5>2 DEF RequestParts
        <5>4. /\ k <= z => ReadToken(text, k) = [type |-> Close, next |-> k + 1]
              /\ k > z => ReadToken(text, k).type = "end"
          <6>1. Close \in Marks
            BY DEF Marks
          <6>. QED
            BY <1>0, <5>3, <6>1, MarkToken
        <5>. QED
          BY <5>1, <5>2, <5>4, MarksDiffer
      <4>4. o.value = Object(WithMember(<<>>, f, v.value))
        <5>1. \/ ~v.ok \/ after.type \notin {Close, Comma}
              \/ v.ok /\ after.type = Close
          BY <4>3
        <5>2. /\ ~v.ok \/ after.type \notin {Close, Comma} =>
                    o = [ok |-> FALSE, value |-> Object(WithMember(<<>>, f, v.value)), next |-> 2]
              /\ v.ok /\ after.type = Close =>
                    o = [ok |-> TRUE, value |-> Object(WithMember(<<>>, f, v.value)), next |-> after.next]
          BY <3>4, Zenon DEF FromValue, v
        <5>. QED
          BY <5>1, <5>2
      <4>5. Member(Parse(text), f) = v.value
        BY <2>1, <4>4, FirstMember, NoMembers
      <4>6. PICK c : c = v.value /\ Member(Parse(text), <<"f">>) = c /\ Called(c, name)
        BY <2>2, <4>2, <4>5, Zenon
      <4>7. /\ Result(text) \in Greetings(name)
            /\ Member(c, <<"n">>) = String(<<"h">>) /\ Member(c, <<"p", "1">>) = String(name) =>
                   Result(text) = String(<<"H">> \o name)
        BY <4>6, CallResult DEF Greetings
      <4>8. z >= l + 23 => Member(c, <<"n">>) = String(<<"h">>) /\ Member(c, <<"p", "1">>) = String(name)
        BY <4>0, <4>2, <4>6
      <4>. QED
        BY <1>0, <1>1, <4>7, <4>8
    <3>. QED
      BY <1>0, <3>0, <3>5, <3>6
  <2>. QED
    BY <1>0, <2>2, <2>6, <2>7
<1>. QED
  BY <1>2, <1>3

\* A text that begins with the second brace of a request.
LEMMA InnerResult ==
  ASSUME NEW text \in Seq(Chars), NEW name \in Word(Chars), NEW i \in Int, i = -4, text # <<>>,
         Shows(text, i, SayHello(name))
  PROVE  Result(text) = String(<<"E">>)
<1>0. PICK l \in Nat : l = Len(name)
  BY QuotedIsText, ProgramWords
<1>1. RequestParts(text, i, l, name)
  BY <1>0, RequestShown
<1>2. Shows(text, 1, <<Open>>)
  <2>1. i + 5 = 1
    OBVIOUS
  <2>. QED
    BY <1>1, <2>1 DEF RequestParts
<1>3. PICK k \in 1 .. Len(text) + 1 : k = 2 /\ k = i + 6
  <2>1. 2 \in 1 .. Len(text) + 1
    BY <1>2, RootObject
  <2>. QED
    BY <2>1
<1>4. Parse(text) = ReadObjects(text)[k].value
  BY <1>2, <1>3, RootObject
<1>5. IsCall(text, k, name)
  <2>1. CallParts(text, k, name)
    BY <1>0, <1>1, <1>3, PartsOfCall
  <2>. QED
    BY <2>1, CallRead
<1>6. Called(Parse(text), name)
  BY <1>4, <1>5 DEF IsCall
<1>7. Member(Parse(text), <<"f">>) = Null
  BY <1>6 DEF Called, Member
<1>. QED
  BY <1>7, NothingCalled

-----------------------------------------------------------------------------
(* Texts that begin within a request                                       *)

\* An object that does not begin with a name and a colon has no members.
LEMMA NoFirstMember ==
  ASSUME NEW text \in Seq(Chars), text # <<>>, text[1] = Open,
         LET name == ReadToken(text, 2) IN
             name.type # "string" \/ ReadToken(text, name.next).type # Colon
  PROVE  Result(text) = String(<<"E">>)
<1>1. Parse(text) = ReadObjects(text)[2].value /\ 2 \in 1 .. Len(text) + 1
  <2>1. Shows(text, 1, <<Open>>)
    BY DEF Shows
  <2>. QED
    BY <2>1, RootObject
<1>. DEFINE values == ReadObjects(text)
            name == ReadToken(text, 2)
            colon == ReadToken(text, name.next)
<1>2. values[2] = ReadMembers(text, 2, values)
  BY <1>1, ObjectsRead
<1>3. name.type # "string" \/ colon.type # Colon
  OBVIOUS
<1>. HIDE DEF values, name, colon
<1>4. values[2].value = Object(<<>>)
  <2>1. CASE name.type = Close
    BY <1>2, <2>1, MarksDiffer DEF ReadMembers, name
  <2>2. CASE name.type # Close
    BY <1>2, <1>3, <2>2 DEF ReadMembers, name, colon
  <2>. QED
    BY <2>1, <2>2
<1>5. Member(Parse(text), <<"f">>) = Null
  BY <1>1, <1>4, MemberOfObject, NoMembers DEF values
<1>. QED
  BY <1>5, NothingCalled

\* A text that begins within a word in quotes does not begin with a brace that
\* the word does not hold.
LEMMA NotInWord ==
  ASSUME NEW text, text # <<>>, Len(text) \in Nat \ {0}, NEW w \in Word(Chars), \A k \in 1 .. Len(w) : w[k] # Open,
         NEW p \in Int, Shows(text, p, Quoted(w)), p <= 1, 1 <= p + Len(w) + 1
  PROVE  text[1] # Open
<1>. PICK l \in Nat, q \in Seq(Chars) : /\ l = Len(w) /\ q = Quoted(w) /\ Len(q) = l + 2 /\ q[1] = Quote /\ q[l + 2] = Quote
                                      /\ \A k \in 1 .. l : q[k + 1] = w[k]
  BY QuotedIsText, ProgramWords
<1>1. PICK k \in 1 .. l + 2 : p + k - 1 = 1
  <2>1. 2 - p \in 1 .. l + 2 /\ p + (2 - p) - 1 = 1
    OBVIOUS
  <2>. QED
    BY <2>1
<1>2. text[1] = q[k]
  <2>1. text[p + k - 1] = q[k]
    BY <1>1 DEF Shows
  <2>. QED
    BY <1>1, <2>1
<1>3. q[k] # Open
  <2>1. CASE k = 1 \/ k = l + 2
    BY <2>1, MarksDiffer
  <2>2. CASE k \in 2 .. l + 1
    <3>1. PICK j \in 1 .. l : j + 1 = k
      <4>1. k - 1 \in 1 .. l /\ (k - 1) + 1 = k
        BY <2>2
      <4>. QED
        BY <4>1
    <3>. QED
      BY <3>1
  <2>. QED
    BY <2>1, <2>2
<1>. QED
  BY <1>2, <1>3

\* A brace is no letter of the program's words.
LEMMA NoBrace ==
    /\ \A k \in 1 .. Len(<<"f">>) : <<"f">>[k] # Open
    /\ \A k \in 1 .. Len(<<"n">>) : <<"n">>[k] # Open
    /\ \A k \in 1 .. Len(<<"h">>) : <<"h">>[k] # Open
    /\ \A k \in 1 .. Len(<<"p", "1">>) : <<"p", "1">>[k] # Open
<1>1. "f" # Open /\ "n" # Open /\ "h" # Open /\ "p" # Open /\ "1" # Open
  BY Zenon DEF Open
<1>. QED
  BY <1>1

\* A text that begins within a request, at a brace, begins with its second one
\* or within its name.
LEMMA BraceWithin ==
  ASSUME NEW text \in Seq(Chars), text # <<>>, text[1] = Open, NEW name \in Word(Chars), NEW l \in Nat, l = Len(name),
         NEW i \in Int, i < 1, 1 <= i + 22 + l, RequestParts(text, i, l, name)
  PROVE  i = -4 \/ (i + 20 <= 1 /\ 1 <= i + 19 + l)
<1>1. Len(text) \in Nat \ {0}
  BY LenProperties, EmptySeq
<1>2. ASSUME NEW p \in Int, NEW m \in Marks, Shows(text, p, <<m>>), p = 1
      PROVE  m = Open
  BY <1>1, <1>2 DEF Shows
<1>w. PICK f \in Word(Chars), n \in Word(Chars), h \in Word(Chars), w \in Word(Chars) :
        f = <<"f">> /\ n = <<"n">> /\ h = <<"h">> /\ w = <<"p", "1">>
  BY ProgramWords, Zenon
<1>q. f \in Word(Chars) /\ n \in Word(Chars) /\ h \in Word(Chars) /\ w \in Word(Chars)
  BY <1>w, ProgramWords
<1>l. Len(f) = 1 /\ Len(n) = 1 /\ Len(h) = 1 /\ Len(w) = 2
  BY <1>w, WordsDiffer
<1>b. /\ \A k \in 1 .. Len(f) : f[k] # Open
      /\ \A k \in 1 .. Len(n) : n[k] # Open
      /\ \A k \in 1 .. Len(h) : h[k] # Open
      /\ \A k \in 1 .. Len(w) : w[k] # Open
  BY <1>w, NoBrace, Zenon
<1>s. /\ Shows(text, i + 1, Quoted(f)) /\ Shows(text, i + 6, Quoted(n))
      /\ Shows(text, i + 10, Quoted(h)) /\ Shows(text, i + 14, Quoted(w))
  BY <1>w, Zenon DEF RequestParts
<1>3. ~(i + 1 <= 1 /\ 1 <= i + 3)
  <2>1. ASSUME i + 1 <= 1, 1 <= (i + 1) + Len(f) + 1 PROVE FALSE
    <3>1. i + 1 \in Int
      OBVIOUS
    <3>. QED
      BY <1>1, <1>q, <1>b, <1>s, <2>1, <3>1, NotInWord
  <2>. QED
    BY <1>l, <2>1
<1>4. ~(i + 6 <= 1 /\ 1 <= i + 8)
  <2>1. ASSUME i + 6 <= 1, 1 <= (i + 6) + Len(n) + 1 PROVE FALSE
    <3>1. i + 6 \in Int
      OBVIOUS
    <3>. QED
      BY <1>1, <1>q, <1>b, <1>s, <2>1, <3>1, NotInWord
  <2>. QED
    BY <1>l, <2>1
<1>5. ~(i + 10 <= 1 /\ 1 <= i + 12)
  <2>1. ASSUME i + 10 <= 1, 1 <= (i + 10) + Len(h) + 1 PROVE FALSE
    <3>1. i + 10 \in Int
      OBVIOUS
    <3>. QED
      BY <1>1, <1>q, <1>b, <1>s, <2>1, <3>1, NotInWord
  <2>. QED
    BY <1>l, <2>1
<1>6. ~(i + 14 <= 1 /\ 1 <= i + 17)
  <2>1. ASSUME i + 14 <= 1, 1 <= (i + 14) + Len(w) + 1 PROVE FALSE
    <3>1. i + 14 \in Int
      OBVIOUS
    <3>. QED
      BY <1>1, <1>q, <1>b, <1>s, <2>1, <3>1, NotInWord
  <2>. QED
    BY <1>l, <2>1
<1>m. Close \in Marks /\ Colon \in Marks /\ Comma \in Marks
  BY DEF Marks
<1>7. i + 4 # 1 /\ i + 9 # 1 /\ i + 13 # 1 /\ i + 18 # 1 /\ i + 21 + l # 1 /\ i + 22 + l # 1
  <2>1. i + 4 # 1 /\ i + 9 # 1 /\ i + 18 # 1
    BY <1>2, <1>m, MarksDiffer DEF RequestParts
  <2>2. i + 13 # 1
    BY <1>2, <1>m, MarksDiffer DEF RequestParts
  <2>3. i + 21 + l # 1 /\ i + 22 + l # 1
    BY <1>2, <1>m, MarksDiffer DEF RequestParts
  <2>. QED
    BY <2>1, <2>2, <2>3
<1>8. PICK q : q = Quoted(name) /\ Len(q) = l + 2 /\ q[1] = Quote /\ q[l + 2] = Quote
  BY QuotedIsText, ProgramWords
<1>9. Shows(text, i + 19, q)
  BY <1>8 DEF RequestParts
<1>10. i + 19 # 1 /\ i + 20 + l # 1
  <2>1. ASSUME i + 19 = 1 PROVE FALSE
    <3>1. 1 \in 1 .. Len(q) /\ i + 19 + 1 - 1 = 1
      BY <1>8, <2>1
    <3>2. text[i + 19 + 1 - 1] = q[1]
      BY <1>1, <1>9, <3>1 DEF Shows
    <3>. QED
      BY <1>8, <3>1, <3>2, MarksDiffer
  <2>2. ASSUME i + 20 + l = 1 PROVE FALSE
    <3>1. l + 2 \in 1 .. Len(q) /\ i + 19 + (l + 2) - 1 = 1
      BY <1>8, <2>2
    <3>2. text[i + 19 + (l + 2) - 1] = q[l + 2]
      BY <1>1, <1>9, <3>1 DEF Shows
    <3>. QED
      BY <1>8, <3>1, <3>2, MarksDiffer
  <2>. QED
    BY <2>1, <2>2
<1>. QED
  BY <1>3, <1>4, <1>5, <1>6, <1>7, <1>10

\* What follows a name: the end of the text, or the next request.
Followed(text, i) ==
    \/ Len(text) < i
    \/ \E next \in Word(Chars) : Shows(text, i, SayHello(next))

\* The first characters of the next request, if there is one.
LEMMA FollowedBy ==
  ASSUME NEW text \in Seq(Chars), NEW i \in Int, i >= 1, Followed(text, i)
  PROVE  /\ i <= Len(text) => text[i] = Open
         /\ i + 1 <= Len(text) => text[i + 1] = Quote
         /\ i + 2 <= Len(text) => text[i + 2] = "f"
<1>0. PICK z \in Nat : z = Len(text)
  BY LenProperties
<1>1. CASE z < i
  BY <1>0, <1>1
<1>2. CASE \E next \in Word(Chars) : Shows(text, i, SayHello(next))
  <2>1. PICK next \in Word(Chars), l \in Nat : Shows(text, i, SayHello(next)) /\ l = Len(next)
    BY <1>2, QuotedIsText, ProgramWords
  <2>2. RequestParts(text, i, l, next)
    BY <2>1, RequestShown
  <2>3. PICK f \in Word(Chars) : f = <<"f">> /\ f[1] = "f" /\ Len(f) = 1
    BY ProgramWords, WordsDiffer
  <2>q. PICK q : q = Quoted(f)
    OBVIOUS
  <2>4. /\ Len(q) = Len(f) + 2 /\ q[1] = Quote
        /\ \A k \in 1 .. Len(f) : q[k + 1] = f[k]
    BY <2>q, QuotedIsText, ProgramWords
  <2>5. Len(q) = 3 /\ q[1] = Quote /\ q[2] = "f"
    <3>1. 1 \in 1 .. Len(f) /\ 1 + 1 = 2 /\ Len(f) + 2 = 3
      BY <2>3
    <3>2. q[1 + 1] = f[1]
      BY <2>4, <3>1
    <3>. QED
      BY <2>3, <2>4, <3>1, <3>2
  <2>6. Shows(text, i, <<Open>>) /\ Shows(text, i + 1, q)
    BY <2>2, <2>3, <2>q, Zenon DEF RequestParts
  <2>7. i <= z => text[i] = Open
    BY <1>0, <2>6 DEF Shows
  <2>8. \A k \in 1 .. 3 : i + 1 + k - 1 <= z => text[i + 1 + k - 1] = q[k]
    BY <1>0, <2>5, <2>6 DEF Shows
  <2>9. 1 \in 1 .. 3 /\ 2 \in 1 .. 3 /\ i + 1 + 1 - 1 = i + 1 /\ i + 1 + 2 - 1 = i + 2
    OBVIOUS
  <2>10. i + 1 <= z => text[i + 1] = Quote
    BY <2>5, <2>8, <2>9
  <2>11. i + 2 <= z => text[i + 2] = "f"
    BY <2>5, <2>8, <2>9
  <2>. QED
    BY <1>0, <2>7, <2>10, <2>11
<1>. QED
  BY <1>0, <1>1, <1>2 DEF Followed

\* A text that begins with the last character of a name.
LEMMA AfterName ==
  ASSUME NEW text \in Seq(Chars), text # <<>>, text[1] = Open,
         Shows(text, 2, <<Quote>>), Shows(text, 3, <<Close>>), Shows(text, 4, <<Close>>),
         Followed(text, 5)
  PROVE  Result(text) = String(<<"E">>)
<1>0. PICK z \in Nat \ {0} : z = Len(text)
  BY LenProperties, EmptySeq
<1>1. /\ 2 <= z => text[2] = Quote
      /\ 3 <= z => text[3] = Close
      /\ 4 <= z => text[4] = Close
  BY <1>0 DEF Shows
<1>2. /\ 5 <= z => text[5] = Open
      /\ 6 <= z => text[6] = Quote
      /\ 7 <= z => text[7] = "f"
  <2>1. 5 \in Int /\ 5 >= 1 /\ 5 + 1 = 6 /\ 5 + 2 = 7
    OBVIOUS
  <2>2. /\ 5 <= z => text[5] = Open
        /\ 5 + 1 <= z => text[5 + 1] = Quote
        /\ 5 + 2 <= z => text[5 + 2] = "f"
    BY <1>0, <2>1, FollowedBy
  <2>. QED
    BY <2>1, <2>2
<1>3. PICK w \in Word(Chars) : w = <<Close, Close, Open>> /\ Len(w) = 3 /\ w[1] = Close /\ w[2] = Close /\ w[3] = Open
  <2>1. Close \in Chars \ {Quote} /\ Open \in Chars \ {Quote}
    BY CharsAssumption, MarksDiffer DEF Marks
  <2>2. PICK a \in Chars \ {Quote}, b \in Chars \ {Quote} : a = Close /\ b = Open
    BY <2>1
  <2>3. PICK w \in Word(Chars) : w = <<a, a, b>> /\ Len(w) = 3 /\ w[1] = a /\ w[2] = a /\ w[3] = b
    <3>1. <<a, a, b>> \in Seq(Chars \ {Quote})
      OBVIOUS
    <3>. QED
      BY <3>1 DEF Word
  <2>. QED
    BY <2>2, <2>3, Zenon
<1>4. PICK q : /\ q = Quoted(w) /\ Len(q) = 5
               /\ q[1] = Quote /\ q[2] = Close /\ q[3] = Close /\ q[4] = Open /\ q[5] = Quote
  <2>1. PICK l \in Nat, q \in Seq(Chars) :
              /\ l = Len(w) /\ q = Quoted(w) /\ Len(q) = l + 2 /\ q[1] = Quote /\ q[l + 2] = Quote
              /\ \A k \in 1 .. l : q[k + 1] = w[k]
    <3>1. /\ Quoted(w) \in Seq(Chars) /\ Len(Quoted(w)) = Len(w) + 2 /\ Len(w) \in Nat
          /\ Quoted(w)[1] = Quote /\ Quoted(w)[Len(w) + 2] = Quote
          /\ \A k \in 1 .. Len(w) : Quoted(w)[k + 1] = w[k]
      BY QuotedIsText, ProgramWords
    <3>. QED
      BY <3>1
  <2>2. l = 3 /\ w[1] = Close /\ w[2] = Close /\ w[3] = Open
    BY <1>3, <2>1
  <2>3. /\ 1 \in 1 .. l /\ 2 \in 1 .. l /\ 3 \in 1 .. l
        /\ 1 + 1 = 2 /\ 2 + 1 = 3 /\ 3 + 1 = 4 /\ l + 2 = 5
    BY <2>2
  <2>4. q[1 + 1] = w[1] /\ q[2 + 1] = w[2] /\ q[3 + 1] = w[3]
    BY <2>1, <2>3
  <2>. QED
    BY <2>1, <2>2, <2>3, <2>4
<1>5. Shows(text, 2, q)
  <2>. SUFFICES ASSUME NEW k \in 1 .. 5, 2 + k - 1 <= z PROVE text[2 + k - 1] = q[k]
    BY <1>0, <1>4 DEF Shows
  <2>1. \/ k = 1 /\ 2 + k - 1 = 2
        \/ k = 2 /\ 2 + k - 1 = 3
        \/ k = 3 /\ 2 + k - 1 = 4
        \/ k = 4 /\ 2 + k - 1 = 5
        \/ k = 5 /\ 2 + k - 1 = 6
    OBVIOUS
  <2>. QED
    BY <1>1, <1>2, <1>4, <2>1
<1>. DEFINE name == ReadToken(text, 2)
<1>6. name.type # "string" \/ ReadToken(text, name.next).type # Colon
  <2>1. PICK i \in 1 .. Len(text) + 1, l \in Nat : i = 2 /\ l = Len(w) /\ l = 3
    BY <1>0, <1>3
  <2>2. Shows(text, i, Quoted(w))
    BY <1>4, <1>5, <2>1
  <2>3. LET e == i + Len(w) + 1 IN
        /\ e <= Len(text) => ReadToken(text, i) = [type |-> "string", text |-> w, next |-> e + 1]
        /\ e > Len(text) => ReadToken(text, i).type \in {"end", "error"}
    BY <2>2, StringToken, ProgramWords
  <2>4. /\ 6 <= z => name = [type |-> "string", text |-> w, next |-> 7]
        /\ 6 > z => name.type \in {"end", "error"}
    <3>1. i + l + 1 = 6 /\ i + l + 1 + 1 = 7
      BY <2>1
    <3>. QED
      BY <1>0, <2>1, <2>3, <3>1
  <2>. HIDE DEF name
  <2>5. CASE z < 6
    BY <2>4, <2>5
  <2>6. CASE z = 6
    <3>1. name.next = 7
      BY <2>4, <2>6
    <3>. QED
      BY <1>0, <2>6, <3>1, MarksDiffer DEF ReadToken
  <2>7. CASE z > 6
    <3>1. name.next = 7
      BY <2>4, <2>7
    <3>2. text[7] \notin Marks /\ text[7] # Quote
      BY <1>2, <2>7, LettersDiffer
    <3>3. ReadToken(text, 7).type # Colon
      BY <1>0, <2>7, <3>2, MarksDiffer DEF ReadToken
    <3>. QED
      BY <3>1, <3>3
  <2>. QED
    BY <2>5, <2>6, <2>7
<1>. QED
  BY <1>6, NoFirstMember

\* A text that begins with a brace within a name.
LEMMA WithinName ==
  ASSUME NEW text \in Seq(Chars), text # <<>>, text[1] = Open, NEW name \in Word(Chars), NEW l \in Nat, l = Len(name),
         NEW i \in Int, i + 20 <= 1, 1 <= i + 19 + l,
         RequestParts(text, i, l, name), Followed(text, i + 23 + l)
  PROVE  Result(text) = String(<<"E">>)
<1>0. PICK z \in Nat \ {0} : z = Len(text)
  BY LenProperties, EmptySeq
<1>1. PICK q : q = Quoted(name) /\ Len(q) = l + 2 /\ \A k \in 1 .. l : q[k + 1] # Quote
  <2>1. PICK q : /\ q = Quoted(name) /\ Len(q) = Len(name) + 2
                 /\ \A k \in 1 .. Len(name) : q[k + 1] = name[k] /\ name[k] # Quote
    BY QuotedIsText, ProgramWords
  <2>2. \A k \in 1 .. Len(name) : q[k + 1] # Quote
    BY <2>1
  <2>. QED
    BY <2>1, <2>2
<1>2. Shows(text, i + 19, q)
  BY <1>1 DEF RequestParts
<1>3. CASE 1 = i + 19 + l
  <2>1. /\ i + 21 + l = 3 /\ i + 22 + l = 4 /\ i + 23 + l = 5
    BY <1>3
  <2>2. Shows(text, 3, <<Close>>) /\ Shows(text, 4, <<Close>>) /\ Followed(text, 5)
    BY <2>1 DEF RequestParts
  <2>3. Shows(text, 2, <<Quote>>)
    <3>1. q[l + 2] = Quote
      BY <1>1, QuotedIsText, ProgramWords
    <3>2. l + 2 \in 1 .. l + 2 /\ i + 19 + (l + 2) - 1 = 2
      BY <1>3
    <3>3. 2 <= z => text[2] = Quote
      BY <1>0, <1>1, <1>2, <3>1, <3>2 DEF Shows
    <3>. QED
      BY <1>0, <3>3 DEF Shows
  <2>. QED
    BY <2>2, <2>3, AfterName
<1>4. CASE 1 < i + 19 + l
  <2>1. 2 <= z => text[2] # Quote
    <3>1. PICK k \in 1 .. l : i + 19 + (k + 1) - 1 = 2 /\ k + 1 \in 1 .. l + 2
      <4>1. 2 - i - 19 \in 1 .. l
        BY <1>4
      <4>2. i + 19 + ((2 - i - 19) + 1) - 1 = 2 /\ (2 - i - 19) + 1 \in 1 .. l + 2
        BY <4>1
      <4>. QED
        BY <4>1, <4>2
    <3>2. 2 <= z => text[i + 19 + (k + 1) - 1] = q[k + 1]
      BY <1>0, <1>1, <1>2, <3>1 DEF Shows
    <3>. QED
      BY <1>1, <3>1, <3>2
  <2>2. ReadToken(text, 2).type # "string"
    <3>1. CASE z < 2
      BY <1>0, <3>1 DEF ReadToken
    <3>2. CASE z >= 2
      <4>1. 2 \in 1 .. Len(text)
        BY <1>0, <3>2
      <4>. QED
        BY <1>0, <2>1, <3>2, <4>1, NoString
    <3>. QED
      BY <3>1, <3>2
  <2>. QED
    BY <2>2, NoFirstMember
<1>. QED
  BY <1>3, <1>4

\* A text that begins within a request greets nobody.
LEMMA WithinRequest ==
  ASSUME NEW text \in Seq(Chars), text # <<>>, NEW name \in Word(Chars), NEW l \in Nat, l = Len(name),
         NEW i \in Int, i < 1, 1 <= i + 22 + l,
         Shows(text, i, SayHello(name)), Followed(text, i + 23 + l)
  PROVE  Result(text) \in {Throws, String(<<"E">>)}
<1>1. RequestParts(text, i, l, name)
  BY RequestShown
<1>2. CASE text[1] # Open
  BY <1>2, NoRootObject
<1>3. CASE text[1] = Open
  <2>1. i = -4 \/ (i + 20 <= 1 /\ 1 <= i + 19 + l)
    BY <1>1, <1>3, BraceWithin
  <2>2. CASE i = -4
    BY <2>2, InnerResult
  <2>3. CASE i + 20 <= 1 /\ 1 <= i + 19 + l
    BY <1>1, <1>3, <2>3, WithinName
  <2>. QED
    BY <2>1, <2>2, <2>3
<1>. QED
  BY <1>2, <1>3

-----------------------------------------------------------------------------
(* Runs of segments                                                        *)

\* Pieces put together show each of them at its place.
LEMMA PieceShown ==
  ASSUME NEW S, NEW ss \in Seq(Seq(S)), NEW n \in Nat, n = Len(ss), NEW o \in [1 .. n + 1 -> Nat],
         Offsets(o, ss), Parts(o, ss), NEW k \in 1 .. n
  PROVE  Shows(FlattenSeq(ss), o[k] + 1, ss[k])
<1>. DEFINE F == FlattenSeq(ss)
<1>1. F \in Seq(S) /\ ss[k] \in Seq(S) /\ Len(ss[k]) \in Nat
  BY FlattenType, ElementOfSeq, LenProperties
<1>2. SubSeq(ss, k, k) = <<ss[k]>>
  <2>1. k \in 1 .. Len(ss) /\ k \in k .. Len(ss) /\ k + 1 \in Int /\ k < k + 1
    OBVIOUS
  <2>2. SubSeq(ss, k, k) = <<ss[k]>> \o SubSeq(ss, k + 1, k)
    BY <2>1, SubSeqRecursiveFirst
  <2>3. SubSeq(ss, k + 1, k) = <<>>
    BY <2>1, SubSeqEmpty
  <2>4. <<ss[k]>> \in Seq(Seq(S))
    BY <1>1
  <2>5. <<ss[k]>> \o <<>> = <<ss[k]>>
    BY <2>4, ConcatEmptySeq
  <2>. QED
    BY <2>2, <2>3, <2>5, Zenon
<1>3. F \in Seq(S) /\ FlattenSeq(SubSeq(ss, k, k)) = ss[k]
  BY <1>1, <1>2, FlattenOne
<1>4. FlattenSeq(SubSeq(ss, k, k)) = SubSeq(F, o[k] + 1, o[k + 1])
  <2>1. k \in 1 .. Len(ss) + 1 /\ k \in k - 1 .. Len(ss)
    OBVIOUS
  <2>. QED
    BY <2>1 DEF Parts
<1>5. PICK a \in Nat, b \in Nat, l \in Nat : a = o[k] /\ b = o[k + 1] /\ l = Len(ss[k]) /\ b = a + l
  <2>1. k \in 1 .. Len(ss) /\ k + 1 \in 1 .. n + 1 /\ k \in 1 .. n + 1
    OBVIOUS
  <2>2. o[k + 1] = o[k] + Len(ss[k])
    BY <2>1 DEF Offsets
  <2>. QED
    BY <1>1, <2>1, <2>2
<1>n. b = a + l
  BY <1>5
<1>6. b <= Len(F)
  <2>1. o[k + 1] <= o[n + 1]
    <3>1. k + 1 \in 1 .. n + 1 /\ n + 1 \in k + 1 .. n + 1
      OBVIOUS
    <3>. QED
      BY <3>1, OffsetsGrow
  <2>. QED
    BY <1>5, <2>1 DEF Parts
<1>7. Len(F) \in Nat
  BY <1>1, LenProperties
<1>. HIDE DEF F
<1>8. PICK p \in Int : p = a + 1
  OBVIOUS
<1>9. \A x \in 1 .. b - p + 1 : SubSeq(F, p, b)[x] = F[p + x - 1]
  <2>1. \A i \in p .. b : F[i] \in S
    BY <1>1, <1>6, <1>7, <1>8, ElementOfSeq
  <2>. QED
    BY <2>1, SubSeqProperties
<1>10. SubSeq(F, p, b) = ss[k]
  BY <1>3, <1>4, <1>5, <1>8, Zenon
<1>11. ASSUME NEW x \in 1 .. l PROVE F[a + 1 + x - 1] = ss[k][x]
  <2>1. x \in 1 .. b - p + 1 /\ a + 1 + x - 1 = p + x - 1
    BY <1>n, <1>8
  <2>2. SubSeq(F, p, b)[x] = F[p + x - 1]
    BY <1>9, <2>1
  <2>. QED
    BY <1>10, <2>1, <2>2, Zenon
<1>12. \A x \in 1 .. Len(ss[k]) : F[o[k] + 1 + x - 1] = ss[k][x]
  BY <1>5, <1>11
<1>. QED
  BY <1>12 DEF Shows, F

\* What a text shows, a part of it shows further to the left.
LEMMA ShownPart ==
  ASSUME NEW S, NEW F \in Seq(S), NEW p \in Nat, NEW q \in Nat, p <= q, q <= Len(F), NEW u \in Int, NEW s, Shows(F, u, s)
  PROVE  LET M == SubSeq(F, p + 1, q) IN
         /\ M \in Seq(S) /\ Len(M) = q - p
         /\ Shows(M, u - p, s)
<1>0. Len(F) \in Nat
  BY LenProperties
<1>. DEFINE M == SubSeq(F, p + 1, q)
<1>1. M \in Seq(S) /\ Len(M) = q - p /\ \A y \in 1 .. q - p : M[y] = F[p + y]
  <2>1. PICK m \in Int : m = p + 1
    OBVIOUS
  <2>2. \A i \in m .. q : F[i] \in S
    BY <1>0, <2>1, ElementOfSeq
  <2>3. /\ SubSeq(F, m, q) \in Seq(S)
        /\ Len(SubSeq(F, m, q)) = IF m <= q THEN q - m + 1 ELSE 0
        /\ \A i \in 1 .. q - m + 1 : SubSeq(F, m, q)[i] = F[m + i - 1]
    BY <2>2, SubSeqProperties
  <2>4. PICK R : R = SubSeq(F, m, q) /\ R = M
    BY <2>1
  <2>5. /\ R \in Seq(S)
        /\ Len(R) = IF m <= q THEN q - m + 1 ELSE 0
        /\ \A i \in 1 .. q - m + 1 : R[i] = F[m + i - 1]
    BY <2>3, <2>4
  <2>6. Len(R) = q - p
    BY <2>1, <2>5
  <2>7. ASSUME NEW y \in 1 .. q - p PROVE R[y] = F[p + y]
    <3>1. y \in 1 .. q - m + 1 /\ m + y - 1 = p + y
      BY <2>1
    <3>2. R[y] = F[m + y - 1]
      BY <2>5, <3>1
    <3>. QED
      BY <3>1, <3>2
  <2>. QED
    BY <2>4, <2>5, <2>6, <2>7
<1>. HIDE DEF M
<1>2. ASSUME NEW k \in 1 .. Len(s), 1 <= u - p + k - 1, u - p + k - 1 <= Len(M)
      PROVE  M[u - p + k - 1] = s[k]
  <2>0. k \in Int
    BY <1>2
  <2>1. PICK y \in 1 .. q - p : y = u - p + k - 1 /\ p + y = u + k - 1
    BY <1>1, <1>2, <2>0
  <2>2. 1 <= u + k - 1 /\ u + k - 1 <= Len(F)
    BY <1>0, <2>1
  <2>3. F[u + k - 1] = s[k]
    BY <1>2, <2>2 DEF Shows
  <2>. QED
    BY <1>1, <2>1, <2>3
<1>3. Shows(M, u - p, s)
  BY <1>2 DEF Shows
<1>. QED
  BY <1>1, <1>3 DEF M

RequestsOf(names) == [k \in DOMAIN names |-> SayHello(names[k])]

\* The requests of names are texts.
LEMMA RequestTexts ==
  ASSUME NEW names \in Seq(Word(Chars))
  PROVE  /\ RequestsOf(names) \in Seq(Text) /\ Len(RequestsOf(names)) = Len(names)
         /\ DOMAIN names = 1 .. Len(names)
         /\ \A k \in 1 .. Len(names) :
               /\ names[k] \in Word(Chars) /\ RequestsOf(names)[k] = SayHello(names[k])
               /\ Len(RequestsOf(names)[k]) = Len(names[k]) + 23 /\ Len(names[k]) \in Nat
<1>0. PICK n \in Nat : n = Len(names) /\ DOMAIN names = 1 .. n
  BY LenProperties
<1>1. ASSUME NEW k \in 1 .. n
      PROVE  /\ names[k] \in Word(Chars) /\ Len(names[k]) \in Nat
             /\ SayHello(names[k]) \in Text /\ Len(SayHello(names[k])) = Len(names[k]) + 23
  <2>1. PICK w \in Word(Chars) : w = names[k]
    BY <1>0, <1>1, ElementOfSeq
  <2>2. PICK l \in Nat : l = Len(w)
    BY QuotedIsText, ProgramWords
  <2>3. SayHello(w) \in Seq(Chars) /\ Len(SayHello(w)) = l + 23
    <3>1. 1 \in Int
      OBVIOUS
    <3>. QED
      BY <2>2, <3>1, RequestShown
  <2>. QED
    BY <2>1, <2>2, <2>3 DEF Text
<1>2. RequestsOf(names) = [k \in 1 .. n |-> SayHello(names[k])]
  BY <1>0 DEF RequestsOf
<1>3. RequestsOf(names) \in Seq(Text) /\ Len(RequestsOf(names)) = n
  BY <1>1, <1>2
<1>. QED
  BY <1>0, <1>1, <1>2, <1>3

\* The place in a text is that of the request with it in it.
LEMMA RequestAt ==
  ASSUME NEW names \in Seq(Word(Chars)), NEW m \in Nat, m = Len(names),
         NEW b \in [1 .. m + 1 -> Nat], Offsets(b, RequestsOf(names)), Parts(b, RequestsOf(names)),
         NEW p \in Nat, NEW q \in Nat, p < q, q <= Len(FlattenSeq(RequestsOf(names)))
  PROVE  LET text == SubSeq(FlattenSeq(RequestsOf(names)), p + 1, q) IN
         /\ text \in Seq(Chars) /\ Len(text) = q - p
         /\ \E k \in 1 .. m :
               /\ b[k] <= p /\ p + 1 <= b[k + 1]
               /\ b[k + 1] = b[k] + Len(names[k]) + 23
               /\ Shows(text, b[k] - p + 1, SayHello(names[k]))
               /\ Followed(text, b[k] - p + Len(names[k]) + 24)
<1>. DEFINE reqs == RequestsOf(names)  F == FlattenSeq(reqs)  text == SubSeq(F, p + 1, q)
<1>1. /\ reqs \in Seq(Text) /\ Len(reqs) = m
      /\ \A k \in 1 .. m : /\ names[k] \in Word(Chars) /\ reqs[k] = SayHello(names[k])
                           /\ Len(reqs[k]) = Len(names[k]) + 23 /\ Len(names[k]) \in Nat
  BY RequestTexts
<1>2. F \in Seq(Chars) /\ Len(F) = b[m + 1] /\ b[m + 1] \in Nat
  <2>1. Len(F) = b[m + 1]
    BY <1>1 DEF Parts
  <2>. QED
    BY <1>1, <2>1, FlattenType DEF Text
<1>3. Offsets(b, reqs) /\ Parts(b, reqs)
  OBVIOUS
<1>4. PICK k \in 1 .. m : b[k] < p + 1 /\ p + 1 <= b[k + 1]
  <2>1. p + 1 \in 1 .. b[m + 1]
    BY <1>2
  <2>. HIDE DEF reqs
  <2>. QED
    BY <1>1, <1>3, <2>1, PieceAt
<1>5. \A u \in 1 .. m : Shows(F, b[u] + 1, SayHello(names[u]))
  <2>1. ASSUME NEW u \in 1 .. m PROVE Shows(F, b[u] + 1, reqs[u])
    <3>. HIDE DEF reqs, F
    <3>. QED
      BY <1>1, <1>3, PieceShown DEF F, Text
  <2>. QED
    BY <1>1, <2>1
<1>. HIDE DEF reqs, F
<1>6. /\ text \in Seq(Chars) /\ Len(text) = q - p
      /\ \A u \in 1 .. m : Shows(text, b[u] - p + 1, SayHello(names[u]))
  <2>1. ASSUME NEW u \in 1 .. m
        PROVE  /\ text \in Seq(Chars) /\ Len(text) = q - p
               /\ Shows(text, b[u] - p + 1, SayHello(names[u]))
    <3>1. PICK x \in Int, s \in {SayHello(names[u])} :
              x = b[u] + 1 /\ x - p = b[u] - p + 1 /\ s = SayHello(names[u])
      <4>1. b[u] \in Nat
        OBVIOUS
      <4>2. b[u] + 1 \in Int /\ (b[u] + 1) - p = b[u] - p + 1
        BY <4>1
      <4>. QED
        BY <4>2
    <3>2. Shows(F, x, s)
      BY <1>5, <3>1
    <3>3. p <= q /\ q <= Len(F)
      BY DEF F, reqs
    <3>4. text \in Seq(Chars) /\ Len(text) = q - p /\ Shows(text, x - p, s)
      BY <1>2, <3>2, <3>3, ShownPart
    <3>. QED
      BY <3>1, <3>4
  <2>. QED
    BY <1>4, <2>1
<1>. HIDE DEF text
<1>7. PICK l \in Nat, c \in Nat, d \in Nat : l = Len(names[k]) /\ c = b[k] /\ d = b[k + 1] /\ d = c + l + 23
  <2>1. k \in 1 .. Len(reqs) /\ k \in 1 .. m + 1 /\ k + 1 \in 1 .. m + 1
    BY <1>1
  <2>2. b[k + 1] = b[k] + Len(reqs[k])
    BY <1>3, <2>1 DEF Offsets
  <2>3. Len(reqs[k]) = Len(names[k]) + 23 /\ Len(names[k]) \in Nat
    BY <1>1
  <2>4. b[k] \in Nat /\ b[k + 1] \in Nat
    BY <2>1
  <2>5. b[k + 1] = b[k] + Len(names[k]) + 23
    BY <2>2, <2>3, <2>4
  <2>. QED
    BY <2>3, <2>4, <2>5
<1>8. Followed(text, c - p + l + 24)
  <2>0. d = c + l + 23
    BY <1>7
  <2>1. CASE k = m
    <3>1. q <= d
      <4>1. q <= b[m + 1]
        BY <1>2 DEF F, reqs
      <4>. QED
        BY <1>7, <2>1, <4>1
    <3>2. Len(text) < c - p + l + 24
      BY <1>6, <2>0, <3>1
    <3>. QED
      BY <3>2 DEF Followed
  <2>2. CASE k # m
    <3>1. k + 1 \in 1 .. m
      BY <2>2
    <3>2. Shows(text, b[k + 1] - p + 1, SayHello(names[k + 1])) /\ names[k + 1] \in Word(Chars)
      BY <1>1, <1>6, <3>1
    <3>3. d - p + 1 = c - p + l + 24
      BY <2>0
    <3>4. Shows(text, d - p + 1, SayHello(names[k + 1]))
      BY <1>7, <3>2
    <3>. QED
      BY <3>2, <3>3, <3>4 DEF Followed
  <2>. QED
    BY <2>1, <2>2
<1>9. Shows(text, c - p + 1, SayHello(names[k]))
  BY <1>6, <1>7
<1>10. c <= p /\ p + 1 <= d
  BY <1>4, <1>7
<1>. QED
  BY <1>6, <1>7, <1>8, <1>9, <1>10 DEF text, F, reqs

\* A part of the requests greets by the first of them, if it begins with one.
PartGreets(names, b, p, text) ==
    \/ Result(text) \in {Throws} \cup {String(r) : r \in Bare}
    \/ \E k \in 1 .. Len(names) : b[k] = p /\ Result(text) = String(<<"H">> \o names[k])

\* It greets by a request that is whole in it.
WholeGreets(names, b, p, q, text) ==
    \A k \in 1 .. Len(names) : b[k] = p /\ b[k + 1] <= q => Result(text) = String(<<"H">> \o names[k])

\* What the result is for any part of the requests put together.
LEMMA PartOfRequests ==
  ASSUME NEW names \in Seq(Word(Chars)), NEW m \in Nat, m = Len(names),
         NEW b \in [1 .. m + 1 -> Nat], Offsets(b, RequestsOf(names)), Parts(b, RequestsOf(names)),
         NEW p \in Nat, NEW q \in Nat, p < q, q <= Len(FlattenSeq(RequestsOf(names)))
  PROVE  LET text == SubSeq(FlattenSeq(RequestsOf(names)), p + 1, q) IN
         /\ PartGreets(names, b, p, text)
         /\ WholeGreets(names, b, p, q, text)
<1>. DEFINE F == FlattenSeq(RequestsOf(names))
<1>1. PICK text \in Seq(Chars) : text = SubSeq(F, p + 1, q) /\ Len(text) = q - p
  <2>1. SubSeq(F, p + 1, q) \in Seq(Chars) /\ Len(SubSeq(F, p + 1, q)) = q - p
    BY RequestAt
  <2>. HIDE DEF F
  <2>. QED
    BY <2>1
<1>2. text # <<>>
  BY <1>1, EmptySeq
<1>3. PICK k \in 1 .. m :
          /\ b[k] <= p /\ p + 1 <= b[k + 1]
          /\ b[k + 1] = b[k] + Len(names[k]) + 23
          /\ Shows(text, b[k] - p + 1, SayHello(names[k]))
          /\ Followed(text, b[k] - p + Len(names[k]) + 24)
  BY <1>1, RequestAt
<1>4. PICK w \in Word(Chars), l \in Nat, c \in Nat, d \in Nat :
          w = names[k] /\ l = Len(w) /\ c = b[k] /\ d = b[k + 1]
  <2>1. k + 1 \in 1 .. m + 1 /\ k \in 1 .. m + 1
    OBVIOUS
  <2>2. names[k] \in Word(Chars) /\ Len(names[k]) \in Nat
    BY RequestTexts
  <2>3. b[k] \in Nat /\ b[k + 1] \in Nat
    BY <2>1
  <2>. QED
    BY <2>2, <2>3
<1>5. /\ c <= p /\ p + 1 <= d /\ d = c + l + 23
      /\ Shows(text, c - p + 1, SayHello(w)) /\ Followed(text, c - p + l + 24)
  BY <1>3, <1>4, Zenon
<1>6. CASE c = p
  <2>1. c - p + 1 = 1
    BY <1>6
  <2>2. Shows(text, 1, SayHello(w))
    BY <1>5, <2>1
  <2>3. /\ Result(text) \in Greetings(w)
        /\ Len(text) >= Len(SayHello(w)) => Result(text) = String(<<"H">> \o w)
    BY <2>2, Greeting
  <2>4. <<"H">> \o <<>> = <<"H">>
    OBVIOUS
  <2>5. PartGreets(names, b, p, text)
    <3>1. CASE Result(text) \in {String(<<"E">>), String(<<"H">>)}
      BY <3>1 DEF PartGreets, Bare
    <3>2. CASE Result(text) = String(<<"H">> \o w)
      <4>1. Result(text) = String(<<"H">> \o names[k]) /\ b[k] = p
        BY <1>4, <1>6, <3>2, Zenon
      <4>. QED
        BY <4>1 DEF PartGreets
    <3>. QED
      BY <2>3, <2>4, <3>1, <3>2, Zenon DEF Greetings
  <2>6. ASSUME NEW u \in 1 .. m, b[u] = p, b[u + 1] <= q
        PROVE  Result(text) = String(<<"H">> \o names[u])
    <3>1. u = k
      <4>0. \A i \in 1 .. m : b[i + 1] = b[i] + Len(names[i]) + 23 /\ b[i] \in Nat /\ Len(names[i]) \in Nat
        <5>1. \A i \in 1 .. m : /\ Len(RequestsOf(names)[i]) = Len(names[i]) + 23 /\ Len(names[i]) \in Nat
                                /\ b[i + 1] = b[i] + Len(RequestsOf(names)[i]) /\ b[i] \in Nat
          <6>1. ASSUME NEW i \in 1 .. m
                PROVE  /\ Len(RequestsOf(names)[i]) = Len(names[i]) + 23 /\ Len(names[i]) \in Nat
                       /\ i \in 1 .. Len(RequestsOf(names)) /\ i \in 1 .. m + 1
            BY RequestTexts
          <6>2. ASSUME NEW i \in 1 .. Len(RequestsOf(names)) PROVE b[i + 1] = b[i] + Len(RequestsOf(names)[i])
            BY DEF Offsets
          <6>3. \A i \in 1 .. m + 1 : b[i] \in Nat
            OBVIOUS
          <6>. QED
            BY <6>1, <6>2, <6>3
        <5>. QED
          BY <5>1
      <4>1. \A i, j \in 1 .. m + 1 : i <= j => b[i] <= b[j]
        <5>1. ASSUME NEW i \in 1 .. m + 1, NEW j \in i .. m + 1 PROVE b[i] <= b[j]
          <6>1. m = Len(RequestsOf(names)) /\ Parts(b, RequestsOf(names))
            BY RequestTexts
          <6>. QED
            BY <6>1, OffsetsGrow
        <5>. QED
          BY <5>1
      <4>2. ASSUME u < k PROVE FALSE
        <5>1. b[u + 1] <= b[k] /\ b[u + 1] > b[u]
          <6>1. u + 1 \in 1 .. m + 1 /\ k \in 1 .. m + 1 /\ u + 1 <= k
            BY <4>2
          <6>2. b[u + 1] <= b[k]
            BY <4>1, <6>1
          <6>3. b[u + 1] > b[u]
            BY <4>0
          <6>. QED
            BY <6>2, <6>3
        <5>2. b[k] = p /\ b[u] \in Nat /\ b[u + 1] \in Nat /\ b[k] \in Nat
          <6>1. u + 1 \in 1 .. m + 1 /\ u \in 1 .. m + 1 /\ k \in 1 .. m + 1
            OBVIOUS
          <6>2. b[k] = p
            BY <1>4, <1>6, Zenon
          <6>3. b[u] \in Nat /\ b[u + 1] \in Nat /\ b[k] \in Nat
            BY <6>1
          <6>. QED
            BY <6>2, <6>3
        <5>. QED
          BY <2>6, <5>1, <5>2
      <4>3. ASSUME u > k PROVE FALSE
        <5>1. b[k + 1] <= b[u]
          <6>1. k + 1 \in 1 .. m + 1 /\ u \in 1 .. m + 1 /\ k + 1 <= u
            BY <4>3
          <6>. QED
            BY <4>1, <6>1
        <5>2. b[k + 1] \in Nat /\ p + 1 <= b[k + 1] /\ b[u] = p
          <6>1. k + 1 \in 1 .. m + 1
            OBVIOUS
          <6>. QED
            BY <1>3, <2>6, <6>1
        <5>. QED
          BY <5>1, <5>2
      <4>. QED
        BY <4>2, <4>3
    <3>2. Len(text) >= Len(SayHello(w))
      <4>1. b[k + 1] <= q
        BY <2>6, <3>1
      <4>2. d <= q
        BY <1>4, <4>1
      <4>3. Len(SayHello(w)) = l + 23
        <5>1. 1 \in Int
          OBVIOUS
        <5>. QED
          BY <1>4, <5>1, RequestShown
      <4>4. q - p >= l + 23
        BY <1>5, <1>6, <4>2
      <4>. QED
        BY <1>1, <4>3, <4>4
    <3>. QED
      BY <1>4, <2>3, <3>1, <3>2
  <2>. QED
    BY <1>1, <2>5, <2>6 DEF WholeGreets
<1>7. CASE c < p
  <2>1. PICK i \in Int : /\ i = c - p + 1 /\ i + 23 + l = c - p + l + 24 /\ i < 1
                         /\ 1 <= i + 22 + l
    <3>1. 1 <= (c - p + 1) + 22 + l
      BY <1>5
    <3>. QED
      BY <1>7, <3>1
  <2>2. Shows(text, i, SayHello(w)) /\ Followed(text, i + 23 + l)
    BY <1>5, <2>1
  <2>3. Result(text) \in {Throws, String(<<"E">>)}
    BY <1>2, <1>4, <2>1, <2>2, WithinRequest
  <2>4. PartGreets(names, b, p, text)
    BY <2>3 DEF PartGreets, Bare
  <2>5. ASSUME NEW u \in 1 .. m, b[u] = p PROVE FALSE
    <3>1. k < u
      <4>1. ASSUME u <= k PROVE FALSE
        <5>1. m = Len(RequestsOf(names)) /\ Parts(b, RequestsOf(names)) /\ u \in 1 .. m + 1 /\ k \in u .. m + 1
          BY <4>1, RequestTexts
        <5>2. b[u] <= b[k]
          BY <5>1, OffsetsGrow
        <5>. QED
          BY <1>4, <1>7, <2>5, <5>2
      <4>. QED
        BY <4>1
    <3>2. b[k + 1] <= b[u]
      <4>1. /\ m = Len(RequestsOf(names)) /\ Parts(b, RequestsOf(names))
            /\ k + 1 \in 1 .. m + 1 /\ u \in k + 1 .. m + 1
        BY <3>1, RequestTexts
      <4>. QED
        BY <4>1, OffsetsGrow
    <3>. QED
      BY <1>3, <2>5, <3>2
  <2>. QED
    BY <1>1, <2>4, <2>5 DEF WholeGreets
<1>. QED
  BY <1>5, <1>6, <1>7

\* Consecutive pieces are never empty together.
LEMMA PieceGrows ==
  ASSUME NEW S, NEW ss \in Seq(Seq(S) \ {<<>>}), NEW n \in Nat, n = Len(ss), NEW o \in [1 .. n + 1 -> Nat],
         Offsets(o, ss), NEW i \in 1 .. n
  PROVE  o[i] < o[i + 1] /\ o[i] \in Nat /\ o[i + 1] \in Nat
<1>1. ss[i] \in Seq(S) \ {<<>>}
  BY ElementOfSeq
<1>2. Len(ss[i]) \in Nat /\ Len(ss[i]) # 0
  BY <1>1, LenProperties, EmptySeq
<1>3. i \in 1 .. Len(ss) /\ i \in 1 .. n + 1 /\ i + 1 \in 1 .. n + 1
  OBVIOUS
<1>4. o[i + 1] = o[i] + Len(ss[i])
  BY <1>3 DEF Offsets
<1>. QED
  BY <1>2, <1>3, <1>4

\* A run of pieces greets by the request that begins with the first of them.
LEMMA RunsOfPieces ==
  ASSUME NEW names \in Seq(Word(Chars)), NEW pieces \in Seq(Text \ {<<>>}),
         FlattenSeq(pieces) = FlattenSeq(RequestsOf(names))
  PROVE  \E start \in [DOMAIN names -> DOMAIN pieces] :
            /\ \A k, l \in DOMAIN names : k <= l => start[k] <= start[l]
            /\ \A i, j \in DOMAIN pieces : i <= j =>
                  \/ Run(pieces, i, j) \in {Throws} \cup {String(r) : r \in Bare}
                  \/ \E k \in DOMAIN names :
                        start[k] = i /\ Run(pieces, i, j) = String(<<"H">> \o names[k])
<1>. DEFINE reqs == RequestsOf(names)  F == FlattenSeq(reqs)
<1>0. PICK n \in Nat, m \in Nat : n = Len(pieces) /\ m = Len(names) /\ DOMAIN pieces = 1 .. n /\ DOMAIN names = 1 .. m
  BY LenProperties
<1>1. pieces \in Seq(Text) /\ reqs \in Seq(Text) /\ Len(reqs) = m
  <2>1. pieces \in Seq(Text)
    <3>1. Text \ {<<>>} \subseteq Text
      OBVIOUS
    <3>. QED
      BY <3>1, SeqMonotonic
  <2>. QED
    BY <1>0, <2>1, RequestTexts
<1>2. PICK o \in [1 .. n + 1 -> Nat] : Offsets(o, pieces) /\ Parts(o, pieces)
  <2>1. Placed(pieces)
    BY <1>1, PiecesPlaced DEF Text
  <2>. QED
    BY <1>0, <2>1 DEF Placed
<1>3. PICK b \in [1 .. m + 1 -> Nat] : Offsets(b, reqs) /\ Parts(b, reqs)
  <2>1. Placed(reqs)
    <3>. HIDE DEF reqs
    <3>. QED
      BY <1>1, PiecesPlaced DEF Text
  <2>. QED
    BY <1>1, <2>1 DEF Placed
<1>4. Len(F) = o[n + 1] /\ Len(F) = b[m + 1]
  <2>1. Len(FlattenSeq(pieces)) = o[n + 1] /\ Len(FlattenSeq(reqs)) = b[m + 1]
    BY <1>0, <1>1, <1>2, <1>3 DEF Parts
  <2>. QED
    BY <2>1
<1>. HIDE DEF F, reqs
<1>5. \A i, j \in 1 .. n + 1 : i <= j => o[i] <= o[j]
  <2>1. ASSUME NEW i \in 1 .. n + 1, NEW j \in i .. n + 1 PROVE o[i] <= o[j]
    BY <1>0, <1>2, OffsetsGrow
  <2>. QED
    BY <2>1
<1>6. \A i, j \in 1 .. m + 1 : i <= j => b[i] <= b[j]
  <2>1. ASSUME NEW i \in 1 .. m + 1, NEW j \in i .. m + 1 PROVE b[i] <= b[j]
    BY <1>1, <1>3, OffsetsGrow
  <2>. QED
    BY <2>1
<1>7. \A k \in 1 .. m : b[k] < b[k + 1] /\ b[k] \in Nat /\ b[k + 1] \in Nat
  <2>1. ASSUME NEW k \in 1 .. m PROVE b[k] < b[k + 1] /\ b[k] \in Nat /\ b[k + 1] \in Nat
    <3>1. Len(reqs[k]) = Len(names[k]) + 23 /\ Len(names[k]) \in Nat
      BY <1>0, RequestTexts DEF reqs
    <3>2. k \in 1 .. Len(reqs) /\ k \in 1 .. m + 1 /\ k + 1 \in 1 .. m + 1
      BY <1>1
    <3>3. b[k + 1] = b[k] + Len(reqs[k])
      BY <1>3, <3>2 DEF Offsets
    <3>. QED
      BY <3>1, <3>2, <3>3
  <2>. QED
    BY <2>1
<1>8. \A i \in 1 .. n : o[i] < o[i + 1] /\ o[i] \in Nat /\ o[i + 1] \in Nat
  BY <1>0, <1>2, PieceGrows DEF Text
<1>. DEFINE In(k, i) == o[i] < b[k] + 1 /\ b[k] + 1 <= o[i + 1]
<1>9. ASSUME NEW k \in 1 .. m PROVE \E i \in 1 .. n : In(k, i)
  <2>1. b[k] + 1 \in 1 .. o[n + 1]
    <3>1. b[k + 1] <= b[m + 1]
      <4>1. k + 1 \in 1 .. m + 1 /\ m + 1 \in 1 .. m + 1 /\ k + 1 <= m + 1
        OBVIOUS
      <4>. QED
        BY <1>6, <4>1
    <3>2. b[k] \in Nat /\ b[k + 1] \in Nat /\ b[m + 1] \in Nat /\ b[k] < b[k + 1]
      <4>1. m + 1 \in 1 .. m + 1
        OBVIOUS
      <4>. QED
        BY <1>7, <4>1
    <3>. QED
      BY <1>4, <3>1, <3>2
  <2>. QED
    BY <1>0, <1>2, <2>1, PieceAt
<1>. DEFINE start == [k \in 1 .. m |-> CHOOSE i \in 1 .. n : In(k, i)]
<1>10. ASSUME NEW k \in 1 .. m PROVE start[k] \in 1 .. n /\ In(k, start[k])
  <2>1. start[k] = CHOOSE i \in 1 .. n : In(k, i)
    OBVIOUS
  <2>. HIDE DEF In, start
  <2>. QED
    BY <1>9, <2>1
<1>11. start \in [1 .. m -> 1 .. n]
  <2>1. \A k \in 1 .. m : start[k] \in 1 .. n
    BY <1>10
  <2>. QED
    BY <2>1
<1>. HIDE DEF start
<1>12. ASSUME NEW k \in 1 .. m, NEW l \in 1 .. m, NEW i \in 1 .. n, NEW j \in 1 .. n, In(k, i), In(l, j), k <= l
       PROVE  i <= j
  <2>. SUFFICES ASSUME j + 1 <= i PROVE FALSE
    OBVIOUS
  <2>1. j + 1 \in 1 .. n + 1 /\ i \in 1 .. n + 1 /\ k \in 1 .. m + 1 /\ l \in 1 .. m + 1
    OBVIOUS
  <2>2. o[j + 1] <= o[i]
    BY <1>5, <2>1
  <2>3. b[k] <= b[l]
    BY <1>6, <1>12, <2>1
  <2>4. o[i] \in Nat /\ o[j + 1] \in Nat /\ b[k] \in Nat /\ b[l] \in Nat
    BY <2>1
  <2>. QED
    BY <1>12, <2>2, <2>3, <2>4
<1>13. \A k, l \in 1 .. m : k <= l => start[k] <= start[l]
  <2>. HIDE DEF In
  <2>. QED
    BY <1>10, <1>12
<1>14. ASSUME NEW i \in 1 .. n, NEW j \in 1 .. n, i <= j
       PROVE  \/ Run(pieces, i, j) \in {Throws} \cup {String(r) : r \in Bare}
              \/ \E k \in 1 .. m :
                    start[k] = i /\ Run(pieces, i, j) = String(<<"H">> \o names[k])
  <2>1. PICK p \in Nat, q \in Nat : p = o[i] /\ q = o[j + 1] /\ p < q
    <3>1. i + 1 \in 1 .. n + 1 /\ j + 1 \in 1 .. n + 1 /\ i + 1 <= j + 1
      BY <1>14
    <3>2. o[i + 1] <= o[j + 1]
      BY <1>5, <3>1
    <3>. QED
      BY <1>8, <3>2
  <2>2. q <= Len(F)
    <3>1. j + 1 \in 1 .. n + 1 /\ n + 1 \in 1 .. n + 1 /\ j + 1 <= n + 1
      OBVIOUS
    <3>. QED
      BY <1>4, <1>5, <2>1, <3>1
  <2>3. PICK text : text = SubSeq(F, p + 1, q) /\ Run(pieces, i, j) = Result(text)
    <3>1. i \in 1 .. Len(pieces) + 1 /\ j \in i - 1 .. Len(pieces)
      BY <1>0, <1>14
    <3>2. FlattenSeq(SubSeq(pieces, i, j)) = SubSeq(FlattenSeq(pieces), o[i] + 1, o[j + 1])
      BY <1>2, <3>1 DEF Parts
    <3>3. FlattenSeq(pieces) = F
      BY DEF F, reqs
    <3>. QED
      BY <2>1, <3>2, <3>3, Zenon DEF Run
  <2>4. PartGreets(names, b, p, text)
    <3>1. Offsets(b, RequestsOf(names)) /\ Parts(b, RequestsOf(names)) /\ q <= Len(FlattenSeq(RequestsOf(names)))
      BY <1>3, <2>2 DEF F, reqs
    <3>2. text = SubSeq(FlattenSeq(RequestsOf(names)), p + 1, q)
      BY <2>3 DEF F, reqs
    <3>3. p < q
      BY <2>1
    <3>4. PartGreets(names, b, p, SubSeq(FlattenSeq(RequestsOf(names)), p + 1, q))
      BY <1>0, <3>1, <3>3, PartOfRequests
    <3>. QED
      BY <3>2, <3>4, Zenon
  <2>5. CASE Result(text) \in {Throws} \cup {String(r) : r \in Bare}
    BY <2>3, <2>5
  <2>6. CASE \E k \in 1 .. m : b[k] = p /\ Result(text) = String(<<"H">> \o names[k])
    <3>1. PICK k \in 1 .. m : b[k] = p /\ Result(text) = String(<<"H">> \o names[k])
      BY <2>6
    <3>2. In(k, i)
      <4>1. o[i] < o[i + 1] /\ o[i] \in Nat /\ o[i + 1] \in Nat /\ b[k] = o[i]
        BY <1>8, <2>1, <3>1
      <4>. QED
        BY <4>1
    <3>3. start[k] \in 1 .. n /\ In(k, start[k])
      BY <1>10
    <3>4. i <= start[k] /\ start[k] <= i
      <4>1. k <= k
        OBVIOUS
      <4>. HIDE DEF In
      <4>. QED
        BY <1>12, <3>2, <3>3, <4>1
    <3>5. start[k] = i
      BY <3>3, <3>4
    <3>. QED
      BY <2>3, <3>1, <3>5
  <2>. QED
    BY <1>0, <2>4, <2>5, <2>6 DEF PartGreets
<1>15. start \in [DOMAIN names -> DOMAIN pieces]
  BY <1>0, <1>11
<1>16. \A k, l \in DOMAIN names : k <= l => start[k] <= start[l]
  BY <1>0, <1>13
<1>17. \A i, j \in DOMAIN pieces : i <= j =>
          \/ Run(pieces, i, j) \in {Throws} \cup {String(r) : r \in Bare}
          \/ \E k \in DOMAIN names :
                start[k] = i /\ Run(pieces, i, j) = String(<<"H">> \o names[k])
  BY <1>0, <1>14
<1>. QED
  BY <1>15, <1>16, <1>17

\* Whole requests are greeted by the first of them.
LEMMA RunsOfRequests ==
  ASSUME NEW names \in Seq(Word(Chars)), NEW i \in DOMAIN names, NEW j \in DOMAIN names, i <= j
  PROVE  Run(RequestsOf(names), i, j) = String(<<"H">> \o names[i])
<1>. DEFINE reqs == RequestsOf(names)  F == FlattenSeq(reqs)
<1>0. PICK m \in Nat : m = Len(names) /\ DOMAIN names = 1 .. m
  BY LenProperties
<1>1. reqs \in Seq(Text) /\ Len(reqs) = m
  BY <1>0, RequestTexts
<1>3. PICK b \in [1 .. m + 1 -> Nat] : Offsets(b, reqs) /\ Parts(b, reqs)
  <2>1. Placed(reqs)
    <3>. HIDE DEF reqs
    <3>. QED
      BY <1>1, PiecesPlaced DEF Text
  <2>. QED
    BY <1>1, <2>1 DEF Placed
<1>. HIDE DEF F, reqs
<1>4. i \in 1 .. m /\ j \in 1 .. m /\ i + 1 \in 1 .. m + 1 /\ j + 1 \in 1 .. m + 1 /\ i + 1 <= j + 1
  BY <1>0
<1>5. PICK p \in Nat, q \in Nat, r \in Nat : p = b[i] /\ q = b[j + 1] /\ r = b[i + 1] /\ p < r /\ r <= q /\ q <= Len(F)
  <2>1. Len(reqs[i]) = Len(names[i]) + 23 /\ Len(names[i]) \in Nat /\ i \in 1 .. Len(reqs)
    BY <1>0, <1>1, <1>4, RequestTexts DEF reqs
  <2>2. b[i + 1] = b[i] + Len(reqs[i])
    BY <1>3, <2>1 DEF Offsets
  <2>3. b[i + 1] <= b[j + 1]
    <3>1. j + 1 \in i + 1 .. m + 1
      BY <1>4
    <3>. QED
      BY <1>1, <1>3, <1>4, <3>1, OffsetsGrow
  <2>4. b[j + 1] <= b[m + 1]
    <3>1. m + 1 \in j + 1 .. m + 1
      BY <1>4
    <3>. QED
      BY <1>1, <1>3, <1>4, <3>1, OffsetsGrow
  <2>5. Len(F) = b[m + 1]
    BY <1>1, <1>3 DEF Parts, F
  <2>6. b[i] \in Nat /\ b[i + 1] \in Nat /\ b[j + 1] \in Nat
    <3>1. i \in 1 .. m + 1
      BY <1>4
    <3>. QED
      BY <1>4, <3>1
  <2>. QED
    BY <2>1, <2>2, <2>3, <2>4, <2>5, <2>6
<1>6. Run(reqs, i, j) = Result(SubSeq(F, p + 1, q))
  <2>1. i \in 1 .. Len(reqs) + 1 /\ j \in i - 1 .. Len(reqs)
    BY <1>1, <1>4
  <2>2. FlattenSeq(SubSeq(reqs, i, j)) = SubSeq(FlattenSeq(reqs), b[i] + 1, b[j + 1])
    BY <1>3, <2>1 DEF Parts
  <2>. QED
    BY <1>5, <2>2, Zenon DEF Run, F
<1>7. Result(SubSeq(F, p + 1, q)) = String(<<"H">> \o names[i])
  <2>1. /\ Offsets(b, RequestsOf(names)) /\ Parts(b, RequestsOf(names)) /\ q <= Len(FlattenSeq(RequestsOf(names)))
        /\ p < q
    BY <1>3, <1>5 DEF F, reqs
  <2>2. b[i] = p /\ b[i + 1] <= q
    BY <1>5
  <2>3. \A k \in 1 .. m : b[k] = p /\ b[k + 1] <= q =>
            Result(SubSeq(FlattenSeq(RequestsOf(names)), p + 1, q)) = String(<<"H">> \o names[k])
    <3>1. LET text == SubSeq(FlattenSeq(RequestsOf(names)), p + 1, q) IN
          /\ PartGreets(names, b, p, text)
          /\ WholeGreets(names, b, p, q, text)
      BY <1>0, <2>1, PartOfRequests
    <3>. QED
      BY <1>0, <3>1 DEF WholeGreets
  <2>. QED
    BY <1>4, <2>2, <2>3 DEF F, reqs
<1>. QED
  BY <1>6, <1>7 DEF reqs

-----------------------------------------------------------------------------
(* Responses                                                               *)

Response(result) == Format1(<<"r">>, Quoted(result))

\* Where a response's marks and words are.
LEMMA ResponseShown ==
  ASSUME NEW w \in Word(Chars), NEW l \in Nat, l = Len(w), NEW text
  PROVE  /\ Response(w) \in Seq(Chars) /\ Len(Response(w)) = l + 8
         /\ Shows(text, 1, Response(w)) =>
               /\ Shows(text, 1, <<Open>>) /\ Shows(text, 2, Quoted(<<"r">>))
               /\ Shows(text, 5, <<Colon>>) /\ Shows(text, 6, Quoted(w)) /\ Shows(text, l + 8, <<Close>>)
<1>0. Open \in Marks /\ Close \in Marks /\ Colon \in Marks
  BY DEF Marks
<1>1. PICK open \in Seq(Chars) : open = <<Open>> /\ Len(open) = 1
  BY <1>0, OneMark
<1>2. PICK close \in Seq(Chars) : close = <<Close>> /\ Len(close) = 1
  BY <1>0, OneMark
<1>3. PICK colon \in Seq(Chars) : colon = <<Colon>> /\ Len(colon) = 1
  BY <1>0, OneMark
<1>4. PICK qr \in Seq(Chars) : qr = Quoted(<<"r">>) /\ Len(qr) = 1 + 2
  <2>1. PICK r \in Word(Chars) : r = <<"r">> /\ Len(r) = 1
    BY ProgramWords
  <2>2. \E s \in Seq(Chars) : s = Quoted(r) /\ Len(s) = Len(r) + 2
    BY OneWord
  <2>. QED
    BY <2>1, <2>2
<1>5. PICK qw \in Seq(Chars) : qw = Quoted(w) /\ Len(qw) = l + 2
  BY OneWord
<1>L. Len(open) = 1 /\ Len(close) = 1 /\ Len(colon) = 1 /\ Len(qr) = 3 /\ Len(qw) = l + 2
  BY <1>1, <1>2, <1>3, <1>4, <1>5
<1>a1. PICK a1 \in Seq(Chars) : a1 = open \o qr /\ Len(a1) = 4 /\ Splits(text, a1, open, 1, qr)
  <2>1. open \o qr \in Seq(Chars) /\ Len(open \o qr) = Len(open) + Len(qr) /\ Splits(text, open \o qr, open, Len(open), qr)
    BY Joined
  <2>2. Len(open \o qr) = 4 /\ Len(open) = 1
    BY <2>1, <1>L, SMT
  <2>. QED
    BY <2>1, <2>2, Zenon
<1>La1. Len(a1) = 4
  BY <1>a1
<1>a2. PICK a2 \in Seq(Chars) : a2 = a1 \o colon /\ Len(a2) = 5 /\ Splits(text, a2, a1, 4, colon)
  <2>1. a1 \o colon \in Seq(Chars) /\ Len(a1 \o colon) = Len(a1) + Len(colon) /\ Splits(text, a1 \o colon, a1, Len(a1), colon)
    BY Joined
  <2>2. Len(a1 \o colon) = 5 /\ Len(a1) = 4
    BY <2>1, <1>L, <1>La1, SMT
  <2>. QED
    BY <2>1, <2>2, Zenon
<1>La2. Len(a2) = 5
  BY <1>a2
<1>a3. PICK a3 \in Seq(Chars) : a3 = a2 \o qw /\ Len(a3) = l + 7 /\ Splits(text, a3, a2, 5, qw)
  <2>1. a2 \o qw \in Seq(Chars) /\ Len(a2 \o qw) = Len(a2) + Len(qw) /\ Splits(text, a2 \o qw, a2, Len(a2), qw)
    BY Joined
  <2>2. Len(a2 \o qw) = l + 7 /\ Len(a2) = 5
    BY <2>1, <1>L, <1>La2, SMT
  <2>. QED
    BY <2>1, <2>2, Zenon
<1>La3. Len(a3) = l + 7
  BY <1>a3
<1>a4. PICK a4 \in Seq(Chars) : a4 = a3 \o close /\ Len(a4) = l + 8 /\ Splits(text, a4, a3, l + 7, close)
  <2>1. a3 \o close \in Seq(Chars) /\ Len(a3 \o close) = Len(a3) + Len(close) /\ Splits(text, a3 \o close, a3, Len(a3), close)
    BY Joined
  <2>2. Len(a3 \o close) = l + 8 /\ Len(a3) = l + 7
    BY <2>1, <1>L, <1>La3, SMT
  <2>. QED
    BY <2>1, <2>2, Zenon
<1>6. Response(w) = a4
  BY <1>1, <1>2, <1>3, <1>4, <1>5, <1>a1, <1>a2, <1>a3, <1>a4, Zenon DEF Response, Format1
<1>7. ASSUME Shows(text, 1, a4)
      PROVE  /\ Shows(text, 1, <<Open>>) /\ Shows(text, 2, Quoted(<<"r">>))
             /\ Shows(text, 5, <<Colon>>) /\ Shows(text, 6, Quoted(w)) /\ Shows(text, l + 8, <<Close>>)
  <2>0. 1 \in Int /\ 1 + 1 = 2 /\ 1 + 4 = 5 /\ 1 + 5 = 6 /\ 1 + (l + 7) = l + 8
    OBVIOUS
  <2>1. Shows(text, 1, a3) /\ Shows(text, 1 + (l + 7), close)
    BY <1>a4, <1>7, <2>0 DEF Splits
  <2>2. Shows(text, 1, a2) /\ Shows(text, 1 + 5, qw)
    BY <1>a3, <2>0, <2>1 DEF Splits
  <2>3. Shows(text, 1, a1) /\ Shows(text, 1 + 4, colon)
    BY <1>a2, <2>0, <2>2 DEF Splits
  <2>4. Shows(text, 1, open) /\ Shows(text, 1 + 1, qr)
    BY <1>a1, <2>0, <2>3 DEF Splits
  <2>5. Shows(text, 2, qr) /\ Shows(text, 5, colon) /\ Shows(text, 6, qw) /\ Shows(text, l + 8, close)
    BY <2>0, <2>1, <2>2, <2>3, <2>4
  <2>. QED
    BY <1>1, <1>2, <1>3, <1>4, <1>5, <2>4, <2>5, Zenon
<1>. QED
  BY <1>6, <1>a4, <1>7

\* What is read of a text that begins with a response is its result.
LEMMA ResponseRead ==
  ASSUME NEW text \in Seq(Chars), NEW w \in Word(Chars), Shows(text, 1, Response(w)),
         Len(text) >= Len(Response(w))
  PROVE  AsString(Member(Parse(text), <<"r">>)).text = w
<1>0. PICK z \in Nat, l \in Nat : z = Len(text) /\ l = Len(w) /\ (text = <<>> <=> z = 0)
  BY LenProperties, EmptySeq, QuotedIsText, ProgramWords
<1>1. /\ Len(Response(w)) = l + 8
      /\ Shows(text, 1, <<Open>>) /\ Shows(text, 2, Quoted(<<"r">>))
      /\ Shows(text, 5, <<Colon>>) /\ Shows(text, 6, Quoted(w)) /\ Shows(text, l + 8, <<Close>>)
  BY <1>0, ResponseShown
<1>2. z >= l + 8 /\ text # <<>>
  BY <1>0, <1>1
<1>3. Parse(text) = ReadObjects(text)[2].value
  BY <1>1, <1>2, RootObject
<1>4. PICK r \in Word(Chars) : r = <<"r">> /\ Len(r) = 1
  BY ProgramWords, WordsDiffer
<1>5. PICK i \in 1 .. Len(text) + 1, j \in Int, e \in Int, m \in {Close, Comma} :
          /\ i = 2 /\ j = 6 /\ e = l + 8 /\ m = Close
  BY <1>0, <1>2
<1>6. /\ j = i + Len(r) + 3 /\ e = j + Len(w) + 2
      /\ Shows(text, i, Quoted(r)) /\ Shows(text, j - 1, <<Colon>>)
      /\ Shows(text, j, Quoted(w)) /\ Shows(text, e, <<m>>)
  <2>1. j = i + Len(r) + 3 /\ e = j + Len(w) + 2 /\ j - 1 = 5
    BY <1>0, <1>4, <1>5
  <2>2. Shows(text, i, Quoted(r))
    BY <1>1, <1>4, <1>5, Zenon
  <2>. QED
    BY <1>1, <1>5, <2>1, <2>2
<1>q. Quote \in Chars /\ r \in Word(Chars) /\ j \in Int /\ e \in Int /\ m \in {Close, Comma}
  BY <1>4, ProgramWords
<1>7. StringRead(text, i, r, w, m, e)
  BY <1>6, <1>q, StringMember
<1>8. ReadObjects(text)[i] = [ok |-> TRUE, value |-> Object(WithMember(<<>>, r, String(w))), next |-> e + 1]
  <2>1. e <= Len(text) /\ m = Close
    BY <1>0, <1>2, <1>5
  <2>. QED
    BY <1>7, <2>1 DEF StringRead
<1>9. Parse(text) = Object(WithMember(<<>>, r, String(w)))
  BY <1>3, <1>5, <1>8
<1>10. Member(Parse(text), r) = String(w)
  BY <1>9, FirstMember, NoMembers
<1>11. AsString(Member(Parse(text), r)).text = w
  <2>1. AsString(String(w)) = String(w)
    BY StringIsRead
  <2>. QED
    BY <1>10, <2>1, StringsDiffer
<1>. QED
  BY <1>4, <1>11, Zenon

\* Of results that come together, the client reads the first.
LEMMA FirstRead ==
  ASSUME NEW results \in Seq(Word(Chars)), results # <<>>
  PROVE  AsString(Member(Parse(FlattenSeq([i \in DOMAIN results |-> Response(results[i])])), <<"r">>)).text
             = results[1]
<1>. DEFINE ts == [i \in DOMAIN results |-> Response(results[i])]  F == FlattenSeq(ts)
<1>0. PICK n \in Nat : n = Len(results) /\ n > 0 /\ DOMAIN results = 1 .. n
  BY LenProperties, EmptySeq
<1>1. ASSUME NEW i \in 1 .. n PROVE results[i] \in Word(Chars) /\ Response(results[i]) \in Text
  <2>1. PICK w \in Word(Chars) : w = results[i]
    BY <1>0, ElementOfSeq
  <2>2. PICK l \in Nat : l = Len(w)
    BY QuotedIsText, ProgramWords
  <2>3. Response(w) \in Seq(Chars)
    BY <2>2, ResponseShown
  <2>. QED
    BY <2>1, <2>3 DEF Text
<1>2. ts \in Seq(Text) /\ Len(ts) = n /\ ts[1] = Response(results[1])
  <2>1. ts = [i \in 1 .. n |-> Response(results[i])]
    BY <1>0
  <2>2. ts \in Seq(Text) /\ Len(ts) = n
    BY <1>1, <2>1
  <2>. QED
    BY <1>0, <2>2
<1>. HIDE DEF ts
<1>3. PICK o \in [1 .. n + 1 -> Nat] : Offsets(o, ts) /\ Parts(o, ts)
  BY <1>2, PiecesPlaced DEF Placed, Text
<1>4. F \in Seq(Chars)
  BY <1>2, FlattenType DEF Text
<1>5. Shows(F, 1, ts[1])
  <2>1. 1 \in 1 .. n /\ o[1] = 0
    BY <1>0, <1>3 DEF Offsets
  <2>2. Shows(F, o[1] + 1, ts[1])
    BY <1>2, <1>3, <2>1, PieceShown DEF Text
  <2>3. o[1] + 1 = 1
    BY <2>1
  <2>. QED
    BY <2>2, <2>3
<1>6. Len(F) >= Len(ts[1])
  <2>1. 1 \in 1 .. Len(ts) /\ 1 + 1 = 2 /\ 2 \in 1 .. n + 1 /\ n + 1 \in 2 .. n + 1
    BY <1>0, <1>2
  <2>2. o[1] = 0 /\ o[1 + 1] = o[1] + Len(ts[1])
    BY <1>3, <2>1 DEF Offsets
  <2>3. o[2] <= o[n + 1]
    BY <1>2, <1>3, <2>1, OffsetsGrow
  <2>4. Len(F) = o[n + 1]
    BY <1>2, <1>3 DEF Parts
  <2>5. PICK a \in Nat, b \in Nat, c \in Nat : a = o[2] /\ b = o[n + 1] /\ c = Len(ts[1])
    <3>1. ts[1] \in Seq(Chars)
      BY <1>2, <2>1, ElementOfSeq DEF Text
    <3>. QED
      BY <2>1, <3>1, LenProperties
  <2>. QED
    BY <2>1, <2>2, <2>3, <2>4, <2>5
<1>. HIDE DEF F
<1>7. results[1] \in Word(Chars)
  BY <1>0, <1>1
<1>8. AsString(Member(Parse(F), <<"r">>)).text = results[1]
  BY <1>2, <1>4, <1>5, <1>6, <1>7, ResponseRead
<1>. QED
  BY <1>8 DEF F, ts

-----------------------------------------------------------------------------
(* Texts and results                                                       *)

\* A greeting that is asked for is a result.
LEMMA AskedIsResult ==
    ASSUME NEW c \in Conns, NEW k \in DOMAIN Names[c]
    PROVE  /\ k \in Nat \ {0} /\ Asked(c)[k] \in Results
           /\ Asked(c)[k] \in ToSet(Asked(c))
           /\ DOMAIN Asked(c) = DOMAIN Names[c]
<1>1. Asked(c)[k] \in ToSet(Asked(c)) /\ DOMAIN Asked(c) = DOMAIN Names[c]
  BY DEF Asked, ToSet
<1>2. DOMAIN Names[c] = 1 .. Len(Names[c]) /\ Len(Names[c]) \in Nat
  BY RpcAssumption
<1>. QED
  BY <1>1, <1>2 DEF Results

\* The segments of a client that does not stay away.
LEMMA CutText ==
    ASSUME NEW cut \in Cuts, NEW c \in Conns, cut[c] # <<>>
    PROVE  /\ cut[c] \in Seq(Text) /\ Len(cut[c]) = Segments[c]
           /\ DOMAIN cut[c] = 1 .. Segments[c]
<1>1. cut[c] \in Seq(Text \ {<<>>}) /\ Len(cut[c]) = Segments[c]
  BY RpcAssumption
<1>2. Text \ {<<>>} \subseteq Text
  OBVIOUS
<1>3. cut[c] \in Seq(Text)
  BY <1>1, <1>2, SeqMonotonic
<1>. QED
  BY <1>1, <1>3

(***************************************************************************)
(* However the requests of a client are cut, sayHello makes of consecutive *)
(* segments the greeting of the request that begins with the first of      *)
(* them, or one that greets nobody, or it throws: a cut or joined text     *)
(* never makes it greet by a part of a name, or by a name of another       *)
(* request.                                                                *)
(***************************************************************************)
THEOREM RunsRead ==
    ASSUME NEW cut \in Cuts, NEW c \in Conns, cut[c] # <<>>
    PROVE  \E start \in [DOMAIN Names[c] -> DOMAIN cut[c]] :
              /\ \A k, m \in DOMAIN Names[c] : k <= m => start[k] <= start[m]
              /\ \A i, j \in DOMAIN cut[c] : i <= j =>
                    \/ Run(cut[c], i, j) \in {Throws} \cup {String(r) : r \in Bare}
                    \/ \E k \in DOMAIN Names[c] :
                          start[k] = i /\ Run(cut[c], i, j) = String(Asked(c)[k])
<1>1. PICK names \in Seq(Word(Chars)), pieces \in Seq(Text \ {<<>>}) : names = Names[c] /\ pieces = cut[c]
  BY RpcAssumption DEF Word
<1>2. FlattenSeq(pieces) = FlattenSeq(RequestsOf(names))
  <2>1. FlattenSeq(cut[c]) = FlattenSeq(Requests(c))
    BY RpcAssumption DEF Sends
  <2>. QED
    BY <1>1, <2>1 DEF Requests, RequestsOf
<1>3. \A k \in DOMAIN names : Asked(c)[k] = <<"H">> \o names[k]
  BY <1>1 DEF Asked
<1>4. PICK start \in [DOMAIN names -> DOMAIN pieces] :
          /\ \A k, m \in DOMAIN names : k <= m => start[k] <= start[m]
          /\ \A i, j \in DOMAIN pieces : i <= j =>
                \/ Run(pieces, i, j) \in {Throws} \cup {String(r) : r \in Bare}
                \/ \E k \in DOMAIN names :
                      start[k] = i /\ Run(pieces, i, j) = String(<<"H">> \o names[k])
  BY <1>2, RunsOfPieces
<1>5. \A i, j \in DOMAIN pieces : i <= j =>
          \/ Run(pieces, i, j) \in {Throws} \cup {String(r) : r \in Bare}
          \/ \E k \in DOMAIN names :
                start[k] = i /\ Run(pieces, i, j) = String(Asked(c)[k])
  <2>. SUFFICES ASSUME NEW i \in DOMAIN pieces, NEW j \in DOMAIN pieces, i <= j,
                       NEW k \in DOMAIN names, start[k] = i,
                       Run(pieces, i, j) = String(<<"H">> \o names[k])
                PROVE  Run(pieces, i, j) = String(Asked(c)[k])
    BY <1>4
  <2>1. Asked(c)[k] = <<"H">> \o names[k]
    BY <1>3
  <2>. QED
    BY <2>1
<1>6. /\ start \in [DOMAIN Names[c] -> DOMAIN cut[c]]
      /\ \A k, m \in DOMAIN Names[c] : k <= m => start[k] <= start[m]
      /\ \A i, j \in DOMAIN cut[c] : i <= j =>
            \/ Run(cut[c], i, j) \in {Throws} \cup {String(r) : r \in Bare}
            \/ \E k \in DOMAIN Names[c] :
                  start[k] = i /\ Run(cut[c], i, j) = String(Asked(c)[k])
  BY <1>1, <1>4, <1>5
<1>. QED
  BY <1>6

LEMMA WholeRunsRead ==
    ASSUME NEW c \in Conns, NEW i \in DOMAIN Names[c], NEW j \in DOMAIN Names[c], i <= j
    PROVE  Run(Requests(c), i, j) = String(Asked(c)[i])
<1>1. Names[c] \in Seq(Word(Chars))
  BY RpcAssumption DEF Word
<1>2. Run(RequestsOf(Names[c]), i, j) = String(<<"H">> \o Names[c][i])
  BY <1>1, RunsOfRequests
<1>. QED
  BY <1>2 DEF Requests, RequestsOf, Asked

\* No result holds a quote.
LEMMA ResultWords == Results \subseteq Word(Chars)
<1>1. Bare \subseteq Word(Chars)
  BY ProgramWords DEF Bare, Word
<1>2. ASSUME NEW c \in Conns, NEW k \in DOMAIN Names[c] PROVE <<"H">> \o Names[c][k] \in Word(Chars)
  <2>1. Names[c][k] \in Word(Chars)
    BY RpcAssumption DEF Word
  <2>2. <<"H">> \in Word(Chars)
    BY ProgramWords DEF Word
  <2>. QED
    BY <2>1, <2>2, ConcatProperties DEF Word
<1>3. \A c \in Conns : ToSet(Asked(c)) \subseteq Word(Chars)
  BY <1>2 DEF ToSet, Asked
<1>. QED
  BY <1>1, <1>3 DEF Results

\* Of responses that come together, a client reads the first.
LEMMA FirstOfBatch ==
    ASSUME NEW results \in Batches
    PROVE  FirstResult(results) = results[1]
<1>1. results \in Seq(Results) /\ results # <<>>
  <2>1. PICK n \in 1 .. RecvMax : results \in [1 .. n -> Results]
    BY DEF Batches
  <2>2. results \in Seq(Results) /\ Len(results) = n
    BY <2>1
  <2>. QED
    BY <2>2, EmptySeq
<1>2. results \in Seq(Word(Chars))
  BY <1>1, ResultWords, SeqMonotonic
<1>. QED
  BY <1>1, <1>2, FirstRead DEF FirstResult, Response

\* What sayHello makes of a run of segments.
LEMMA RunResult ==
    ASSUME NEW cut \in Cuts, NEW c \in Conns, cut[c] # <<>>,
           NEW i \in DOMAIN cut[c], NEW j \in DOMAIN cut[c], i <= j,
           Run(cut[c], i, j) # Throws
    PROVE  \E r \in Results : Run(cut[c], i, j) = String(r)
<1>1. PICK start \in [DOMAIN Names[c] -> DOMAIN cut[c]] :
          \A a, b \in DOMAIN cut[c] : a <= b =>
              \/ Run(cut[c], a, b) \in {Throws} \cup {String(r) : r \in Bare}
              \/ \E k \in DOMAIN Names[c] :
                    start[k] = a /\ Run(cut[c], a, b) = String(Asked(c)[k])
  BY RunsRead
<1>2. CASE Run(cut[c], i, j) \in {String(r) : r \in Bare}
  BY <1>2 DEF Results
<1>3. CASE \E k \in DOMAIN Names[c] : Run(cut[c], i, j) = String(Asked(c)[k])
  BY <1>3, AskedIsResult
<1>. QED
  BY <1>1, <1>2, <1>3

\* It logs what it reads.
LEMMA FirstIsLogged ==
    ASSUME NEW results \in Batches
    PROVE  Logged(results) = results[1]
<1>. DEFINE l == CHOOSE l \in Logs : l[1] = results
<1>1. <<results, FirstResult(results)>> \in Logs
  BY DEF Logs
<1>2. l \in Logs /\ l[1] = results
  BY <1>1
<1>3. PICK rs \in Batches : l = <<rs, FirstResult(rs)>>
  BY <1>2 DEF Logs
<1>. HIDE DEF l
<1>4. l[1] = rs /\ l[2] = FirstResult(rs)
  BY <1>3, Zenon
<1>5. l[2] = FirstResult(results)
  BY <1>2, <1>4, Zenon
<1>6. FirstResult(results) = results[1]
  BY FirstOfBatch
<1>. QED
  BY <1>5, <1>6 DEF Logged, l

\* Any part of a cut is among those that the results were worked out for.
LEMMA PartOfText ==
    ASSUME NEW s, NEW i \in 0 .. Len(s), NEW j \in 0 .. Len(s)
    PROVE  SubSeq(s, i + 1, j) \in SubSeqs(s)
<1>1. SubSeqs(s) = {SubSeq(s, k + 1, l) : k, l \in 0 .. Len(s)}
  BY DEF SubSeqs
<1>2. SubSeq(s, i + 1, j) \in {SubSeq(s, k + 1, l) : k, l \in 0 .. Len(s)}
  BY SMT
<1>. QED
  BY <1>1, <1>2

\* What the server answers with is the result of what it received.
LEMMA ReplyIsResult ==
    ASSUME Received \in Texts
    PROVE  Reply = Result(Received)
<1>. DEFINE r == CHOOSE r \in Replies : r[1] = Received
<1>1. <<Received, Result(Received)>> \in Replies
  BY DEF Replies
<1>2. r \in Replies /\ r[1] = Received
  BY <1>1
<1>3. PICK text \in Texts : r = <<text, Result(text)>>
  BY <1>2 DEF Replies
<1>. HIDE DEF r
<1>4. r[1] = text /\ r[2] = Result(text)
  BY <1>3, Zenon
<1>5. r[2] = Result(Received)
  BY <1>2, <1>4, Zenon
<1>. QED
  BY <1>5 DEF Reply, r

-----------------------------------------------------------------------------
(* What is read                                                            *)

LEMMA ReadBounds ==
    ASSUME RInv, NEW c \in Conns
    PROVE  /\ Segments[c] \in Nat /\ Read(c) \in 0 .. Segments[c]
           /\ Dealt(c) \in 0 .. Read(c)
           /\ taken \in Nat /\ inbox[c] \in Nat /\ sent[c] \in Nat
           /\ pc = "handle" /\ current = c => Dealt(c) = Read(c) - taken
           /\ pc # "handle" \/ current # c => Dealt(c) = Read(c)
<1>1. /\ Segments[c] \in Nat /\ inbox[c] \in Nat /\ sent[c] \in Nat /\ taken \in Nat
      /\ inbox[c] <= sent[c] /\ sent[c] <= Segments[c]
  BY SocketConstants DEF RInv, SInv, SocketsTypeOK
<1>2. pc = "handle" /\ current = c => taken <= Read(c)
  BY DEF RInv, Taking
<1>. QED
  BY <1>1, <1>2 DEF Read, Dealt

\* The reply is the result of the segments read since the last one, or the
\* error for no text.
LEMMA ReplyOfRun ==
    ASSUME RInv, pc = "handle"
    PROVE  LET c == current  i == Dealt(c) + 1  j == Read(c) IN
           /\ segments \in Cuts /\ segments[c] # <<>>
           /\ taken = 0 => Reply = String(<<"E">>)
           /\ taken # 0 => /\ i \in DOMAIN segments[c] /\ j \in DOMAIN segments[c] /\ i <= j
                           /\ Reply = Run(segments[c], i, j)
<1>. DEFINE c == current  i == Dealt(c) + 1  j == Read(c)
<1>1. c \in Conns /\ peer[c] # "idle"
  BY Handled DEF RInv
<1>2. segments \in Cuts /\ segments[c] # <<>>
  BY <1>1 DEF RInv, CallTypes, Staying
<1>3. /\ segments[c] \in Seq(Text) /\ Len(segments[c]) = Segments[c]
      /\ DOMAIN segments[c] = 1 .. Segments[c]
  BY <1>1, <1>2, CutText
<1>4. /\ Segments[c] \in Nat /\ j \in 0 .. Segments[c] /\ taken \in 0 .. j
      /\ i = j - taken + 1
  BY <1>1, ReadBounds
<1>. HIDE DEF i, j
<1>5. Received = FlattenSeq(SubSeq(segments[c], i, j))
  BY <1>4 DEF Received, Read, j
<1>6. Received \in Texts
  <2>1. SubSeq(segments[c], i, j) \in SubSeqs(segments[c])
    <3>1. j - taken \in 0 .. Len(segments[c]) /\ j \in 0 .. Len(segments[c])
      BY <1>3, <1>4
    <3>2. SubSeq(segments[c], (j - taken) + 1, j) \in SubSeqs(segments[c])
      BY <3>1, PartOfText
    <3>. QED
      BY <1>4, <3>2
  <2>2. SubSeqs(segments[c]) \in {SubSeqs(cut[d]) : cut \in Cuts, d \in Conns}
    BY <1>1, <1>2
  <2>. QED
    BY <1>5, <2>1, <2>2 DEF Texts
<1>7. Reply = Result(Received)
  BY <1>6, ReplyIsResult
<1>8. ASSUME taken = 0 PROVE Reply = String(<<"E">>)
  <2>1. SubSeq(segments[c], i, j) = <<>>
    BY <1>3, <1>4, <1>8
  <2>2. FlattenSeq(<<>>) = <<>>
    BY DEF FlattenSeq
  <2>. QED
    BY <1>5, <1>7, <2>1, <2>2, NothingRead
<1>9. ASSUME taken # 0
      PROVE  /\ i \in DOMAIN segments[c] /\ j \in DOMAIN segments[c] /\ i <= j
             /\ Reply = Run(segments[c], i, j)
  <2>1. i \in 1 .. Segments[c] /\ j \in 1 .. Segments[c] /\ i <= j
    BY <1>4, <1>9
  <2>. QED
    BY <1>3, <1>5, <1>7, <2>1 DEF Run
<1>. QED
  BY <1>2, <1>8, <1>9 DEF i, j

LEMMA ReplyText ==
    ASSUME RInv, pc = "handle", Reply # Throws
    PROVE  Reply.text \in Results /\ Reply = String(Reply.text)
<1>1. current \in Conns
  BY Handled DEF RInv
<1>2. PICK r \in Results : Reply = String(r)
  <2>1. CASE taken = 0
    BY <2>1, ReplyOfRun DEF Results, Bare
  <2>2. CASE taken # 0
    BY <1>1, <2>2, ReplyOfRun, RunResult
  <2>. QED
    BY <2>1, <2>2
<1>. QED
  BY <1>2, StringsDiffer

-----------------------------------------------------------------------------
(* What the steps of the connections leave as it is                        *)

LEMMA InitInv == Init => RInv
<1>. SUFFICES ASSUME Init PROVE RInv
  OBVIOUS
<1>1. SInv
  BY SocketsInitInv DEF Init
<1>. USE SocketConstants DEF Init, SocketsInit
<1>2. CallTypes /\ Staying /\ Taking
  BY DEF CallTypes, Staying, Taking
<1>3. FromRuns
  <2>. SUFFICES ASSUME NEW c \in Conns
                PROVE  \E first \in [DOMAIN answers[c] -> 0 .. Segments[c]] : Follow(c, first)
    BY DEF FromRuns
  <2>1. [k \in DOMAIN answers[c] |-> 0] \in [DOMAIN answers[c] -> 0 .. Segments[c]]
    OBVIOUS
  <2>2. DOMAIN answers[c] = {}
    OBVIOUS
  <2>. QED
    BY <2>1, <2>2 DEF Follow
<1>4. FromAnswers
  <2>. SUFFICES ASSUME NEW c \in Conns
                PROVE  /\ seen[c] <= Len(answers[c])
                       /\ \E place \in [DOMAIN shown[c] -> DOMAIN answers[c]] : Picked(c, place)
    BY DEF FromAnswers
  <2>1. seen[c] <= Len(answers[c]) /\ DOMAIN shown[c] = {}
    OBVIOUS
  <2>2. [k \in {} |-> 0] \in [DOMAIN shown[c] -> DOMAIN answers[c]]
    BY <2>1
  <2>. QED
    BY <2>1, <2>2 DEF Picked
<1>5. WholeGreeted
  BY DEF WholeGreeted
<1>. QED
  BY <1>1, <1>2, <1>3, <1>4, <1>5 DEF RInv

\* The results of a client to which none is sent stay results of its runs.
LEMMA FollowsOn ==
    ASSUME RInv, SInv', Taking', segments' = segments, NEW c \in Conns,
           answers'[c] = answers[c], Dealt(c) <= Dealt(c)'
    PROVE  \E first \in [DOMAIN answers'[c] -> 0 .. Segments[c]] : Follow(c, first)'
<1>1. PICK first \in [DOMAIN answers[c] -> 0 .. Segments[c]] : Follow(c, first)
  BY DEF RInv, FromRuns
<1>2. Dealt(c) \in Nat
  BY ReadBounds
<1>3. Dealt(c)' \in Int
  BY DEF SInv, SocketsTypeOK, Dealt, Read
<1>. DEFINE old == Dealt(c)  new == Dealt(c)'
<1>4. old \in Nat /\ new \in Int /\ old <= new
  BY <1>2, <1>3
<1>5. \A k \in DOMAIN answers[c] : answers[c][k] \notin Bare =>
          /\ first[k] \in 1 .. old
          /\ \E j \in first[k] .. old : Run(segments[c], first[k], j) = String(answers[c][k])
          /\ \A l \in 1 .. k - 1 : answers[c][l] \notin Bare => first[l] < first[k]
  BY <1>1 DEF Follow
<1>. HIDE DEF old, new
<1>6. \A k \in DOMAIN answers[c] : answers[c][k] \notin Bare =>
          /\ first[k] \in 1 .. new
          /\ \E j \in first[k] .. new : Run(segments[c], first[k], j) = String(answers[c][k])
          /\ \A l \in 1 .. k - 1 : answers[c][l] \notin Bare => first[l] < first[k]
  BY <1>4, <1>5
<1>. QED
  BY <1>6 DEF Follow, Run, Result, new

LEMMA CallsKept ==
    ASSUME RInv, SInv', Staying', Taking', UNCHANGED calls,
           \A c \in Conns : /\ Dealt(c) <= Dealt(c)'
                            /\ peer'[c] = "open" => peer[c] = "open" \/ answers[c] = <<>>
    PROVE  RInv'
<1>. USE DEF calls
<1>1. CallTypes'
  BY DEF RInv, CallTypes
<1>2. FromRuns'
  BY FollowsOn DEF FromRuns
<1>3. FromAnswers'
  BY DEF RInv, FromAnswers, Picked
<1>4. WholeGreeted'
  <2>. SUFFICES ASSUME NEW c \in Conns, Whole(c), peer'[c] = "open"
                PROVE  ToSet(answers[c]) \subseteq ToSet(Asked(c))
    BY DEF WholeGreeted, Whole
  <2>1. CASE peer[c] = "open"
    BY <2>1 DEF RInv, WholeGreeted
  <2>2. CASE answers[c] = <<>>
    BY <2>2 DEF ToSet
  <2>. QED
    BY <2>1, <2>2
<1>. QED
  BY <1>1, <1>2, <1>3, <1>4 DEF RInv

-----------------------------------------------------------------------------
(* The steps of the clients and of the connections                         *)

\* The server has closed no connection, so no client leaves.
LEMMA NoLeave ==
    ASSUME RInv, NEW c \in Conns, Leave(c)
    PROVE  FALSE
BY DEF RInv, Staying, Leave, HasConnection

\* A client that comes, sends, closes or resets.
LEMMA ClientMoves ==
    ASSUME RInv, NEW c \in Conns, Client(c)
    PROVE  /\ fd' = fd /\ pc' = pc /\ current' = current /\ taken' = taken
           /\ \A d \in Conns : sent'[d] - inbox'[d] = sent[d] - inbox[d]
           /\ \A d \in Conns \ {c} : peer'[d] = peer[d]
           /\ Waiting \subseteq Waiting'
           /\ peer'[c] # "idle" /\ (c \in Waiting' \/ fd[c] # NoFd)
           /\ peer'[c] = "open" => peer[c] \in {"open", "idle"}
<1>. USE DEF handler
<1>1. /\ peer \in [Conns -> {"idle", "open", "closing", "reset", "broken"}]
      /\ inbox \in [Conns -> Nat] /\ sent \in [Conns -> Nat]
  BY DEF RInv, SInv, SocketsTypeOK
<1>2. CASE Connect(c)
  <2>1. Waiting' = Waiting \cup {c}
    BY <1>2, ConnectMoves DEF RInv
  <2>. QED
    BY <1>1, <1>2, <2>1 DEF Connect
<1>3. CASE SendSegment(c)
  <2>1. sent'[c] - inbox'[c] = sent[c] - inbox[c]
    BY <1>1, <1>3 DEF SendSegment
  <2>. QED
    BY <1>1, <1>3, <2>1 DEF SendSegment, HasConnection, Waiting
<1>4. CASE Finish(c)
  BY <1>1, <1>4 DEF Finish, HasConnection, Waiting
<1>5. CASE Reset(c)
  BY <1>1, <1>5 DEF Reset, HasConnection, Waiting
<1>. QED
  BY <1>2, <1>3, <1>4, <1>5, NoLeave DEF Client

LEMMA ClientKeeps ==
    ASSUME RInv, NEW c \in Conns, segments[c] # <<>>, Client(c), UNCHANGED calls
    PROVE  RInv'
<1>1. SInv'
  BY SocketClientInv DEF RInv
<1>2. /\ pc' = pc /\ current' = current /\ taken' = taken /\ fd' = fd
      /\ \A d \in Conns : sent'[d] - inbox'[d] = sent[d] - inbox[d]
  BY ClientMoves
<1>3. Staying'
  <2>. SUFFICES ASSUME NEW d \in Conns
                PROVE  IF peer'[d] = "idle" THEN answers[d] = <<>> /\ shown[d] = <<>>
                       ELSE segments[d] # <<>> /\ (d \in Waiting' \/ fd[d] # NoFd)
    BY <1>2 DEF Staying, calls
  <2>1. CASE d = c
    BY <2>1, ClientMoves
  <2>2. CASE d # c
    BY <2>2, ClientMoves DEF RInv, Staying
  <2>. QED
    BY <2>1, <2>2
<1>4. Taking'
  <2>1. ASSUME pc = "handle"
        PROVE  /\ current \in Conns
               /\ peer'[current] = "open" => peer[current] = "open"
    BY <2>1, ClientMoves, Handled DEF RInv
  <2>. QED
    BY <1>2, <2>1 DEF RInv, Taking, Read
<1>5. \A d \in Conns : Dealt(d)' = Dealt(d) /\ Dealt(d) \in Nat
  BY <1>2, ReadBounds DEF Dealt, Read
<1>6. \A d \in Conns : peer'[d] = "open" => peer[d] = "open" \/ answers[d] = <<>>
  BY ClientMoves DEF RInv, Staying
<1>. QED
  BY <1>1, <1>3, <1>4, <1>5, <1>6, CallsKept

\* The thread goes on, without a handler for what it reads.
LEMMA LoopKeeps ==
    ASSUME RInv, SInv', UNCHANGED <<clients, calls>>, pc' # "handle",
           \A c \in Conns : c \in Waiting \/ fd[c] # NoFd => c \in Waiting' \/ fd'[c] # NoFd
    PROVE  RInv'
<1>. USE DEF clients, calls
<1>1. Staying' /\ Taking'
  BY DEF RInv, Staying, Taking
<1>2. \A c \in Conns : Dealt(c) <= Dealt(c)'
  <2>. SUFFICES ASSUME NEW c \in Conns PROVE Dealt(c) <= Dealt(c)'
    OBVIOUS
  <2>1. Dealt(c) \in 0 .. Read(c) /\ Read(c) \in Nat
    BY ReadBounds
  <2>2. Dealt(c)' = Read(c)
    BY DEF Dealt, Read
  <2>. QED
    BY <2>1, <2>2
<1>. QED
  BY <1>1, <1>2, CallsKept

LEMMA ReceiveKeeps ==
    ASSUME RInv, SInv', NEW e \in batch, Receive(e), UNCHANGED calls
    PROVE  RInv'
<1>. DEFINE c == e[2]
<1>1. /\ c \in Conns /\ pc = "dispatch" /\ pc' = "handle" /\ current' = c
      /\ taken' \in Nat /\ inbox[c] \in Nat /\ taken' <= inbox[c]
      /\ taken' = 0 => peer[c] # "open"
      /\ inbox'[c] = inbox[c] - taken'
      /\ \A d \in Conns \ {c} : inbox'[d] = inbox[d]
  BY ReceiveMoves, SocketConstants DEF RInv
<1>2. peer' = peer /\ sent' = sent /\ fd' = fd /\ backlog' = backlog
  BY DEF Receive, kernel
<1>. HIDE DEF c
<1>3. \A d \in Conns : /\ Read(d) \in Nat /\ Dealt(d) = Read(d)
                       /\ sent[d] \in Nat /\ inbox[d] \in Nat
  BY <1>1, ReadBounds
<1>4. Read(c)' = Read(c) + taken' /\ \A d \in Conns \ {c} : Read(d)' = Read(d)
  BY <1>1, <1>2, <1>3 DEF Read
<1>5. Staying'
  BY <1>2 DEF RInv, Staying, Waiting, calls
<1>6. Taking'
  BY <1>1, <1>2, <1>3, <1>4 DEF Taking
<1>7. \A d \in Conns : Dealt(d)' = Read(d)
  BY <1>1, <1>3, <1>4 DEF Dealt
<1>. QED
  BY <1>2, <1>3, <1>5, <1>6, <1>7, CallsKept

LEMMA SocketStepKeeps ==
    ASSUME RInv, SocketStep, UNCHANGED calls
    PROVE  RInv'
<1>1. SInv'
  BY SocketStepInv DEF RInv
<1>2. CASE Wait \/ Register \/ \E e \in batch : AcceptFails(e) \/ ReceiveFails(e)
  <2>1. /\ UNCHANGED <<clients, backlog, fd>> /\ pc' # "handle"
    BY <1>2 DEF Wait, Register, AcceptFails, ReceiveFails, kernel
  <2>. QED
    BY <1>1, <2>1, LoopKeeps DEF Waiting
<1>3. ASSUME NEW e \in batch, Accept(e) PROVE RInv'
  <2>1. UNCHANGED clients /\ pc' # "handle"
    BY <1>3 DEF Accept
  <2>2. SInv
    BY DEF RInv
  <2>3. /\ Waiting' = Waiting \ {Head(backlog)} /\ fd'[Head(backlog)] \in Fds
        /\ \A d \in Conns \ {Head(backlog)} : fd'[d] = fd[d]
    BY <1>3, <2>2, AcceptMoves
  <2>. QED
    BY <1>1, <2>1, <2>3, LoopKeeps, SocketConstants
<1>4. ASSUME NEW e \in batch, Receive(e) PROVE RInv'
  BY <1>1, <1>4, ReceiveKeeps
<1>. QED
  BY <1>2, <1>3, <1>4 DEF SocketStep

-----------------------------------------------------------------------------
(* The steps of the handlers                                               *)

\* The server sends a result to the client whose segments it has read.
LEMMA RespondMoves ==
    ASSUME RInv, Respond
    PROVE  /\ current \in Conns /\ Reply.text \in Results /\ Reply = String(Reply.text)
           /\ answers[current] \in Seq(Results)
           /\ answers' = [answers EXCEPT ![current] = Append(answers[current], Reply.text)]
           /\ answers'[current] = Append(answers[current], Reply.text)
           /\ answers'[current] \in Seq(Results)
           /\ DOMAIN answers[current] = 1 .. Len(answers[current])
           /\ Len(answers[current]) \in Nat
           /\ DOMAIN answers'[current] = 1 .. Len(answers[current]) + 1
           /\ \A k \in DOMAIN answers[current] : answers'[current][k] = answers[current][k]
           /\ answers'[current][Len(answers[current]) + 1] = Reply.text
           /\ \A d \in Conns \ {current} : answers'[d] = answers[d]
<1>1. /\ current \in Conns /\ Holders(connect_fd[current]) = {current}
      /\ Reply.text \in Results /\ Reply = String(Reply.text)
  BY Handled, ReplyText DEF RInv, Respond
<1>2. answers' = [answers EXCEPT ![current] = Append(answers[current], Reply.text)]
  BY <1>1 DEF Respond
<1>3. answers \in [Conns -> Seq(Results)]
  BY DEF RInv, CallTypes
<1>4. answers[current] \in Seq(Results)
  BY <1>1, <1>3
<1>. DEFINE old == answers[current]  new == Append(old, Reply.text)
<1>5. /\ answers'[current] = new
      /\ \A d \in Conns \ {current} : answers'[d] = answers[d]
  BY <1>1, <1>2, <1>3
<1>. HIDE DEF old
<1>6. /\ new \in Seq(Results) /\ Len(new) = Len(old) + 1
      /\ \A k \in 1 .. Len(old) : new[k] = old[k]
      /\ new[Len(old) + 1] = Reply.text
  BY <1>1, <1>4, AppendProperties DEF old
<1>7. DOMAIN old = 1 .. Len(old) /\ Len(old) \in Nat
  BY <1>4 DEF old
<1>. HIDE DEF new
<1>8. DOMAIN new = 1 .. Len(old) + 1
  BY <1>6
<1>. QED
  BY <1>1, <1>2, <1>4, <1>5, <1>6, <1>7, <1>8 DEF old, new

LEMMA RespondKeeps ==
    ASSUME RInv, Respond
    PROVE  RInv'
<1>. USE DEF clients, kernel
<1>0. PICK c \in Conns : c = current
  BY RespondMoves
<1>. DEFINE old == answers[c]  r == Reply.text  i == Dealt(c) + 1  j == Read(c)
<1>1. /\ pc = "handle" /\ Reply # Throws /\ pc' # "handle"
      /\ UNCHANGED <<clients, backlog, kernel, objects, batch, segments, seen, shown>>
      /\ Return
  BY DEF Respond, Return
<1>2. SInv'
  BY <1>1, ReturnInv DEF RInv
<1>3. /\ c \in Conns /\ r \in Results /\ Reply = String(r) /\ old \in Seq(Results)
      /\ answers'[c] \in Seq(Results) /\ answers' = [answers EXCEPT ![c] = Append(old, r)]
      /\ DOMAIN old = 1 .. Len(old) /\ Len(old) \in Nat
      /\ DOMAIN answers'[c] = 1 .. Len(old) + 1
      /\ \A k \in 1 .. Len(old) : answers'[c][k] = old[k]
      /\ answers'[c][Len(old) + 1] = r
      /\ \A d \in Conns \ {c} : answers'[d] = answers[d]
  BY <1>0, RespondMoves
<1>4. CallTypes'
  BY <1>1, <1>3 DEF RInv, CallTypes
<1>5. Staying' /\ Taking'
  <2>1. peer[c] # "idle"
    BY <1>0, <1>1, Handled DEF RInv
  <2>. QED
    BY <1>0, <1>1, <1>3, <2>1 DEF RInv, Staying, Taking, Waiting
<1>6. \A d \in Conns : /\ Read(d) \in 0 .. Segments[d] /\ Dealt(d) \in 0 .. Read(d)
                       /\ Segments[d] \in Nat
  BY ReadBounds
<1>7. \A d \in Conns : Dealt(d)' = Read(d)
  BY <1>1 DEF Dealt, Read
<1>8. r \notin Bare => taken # 0
  BY <1>0, <1>1, <1>3, ReplyOfRun, StringsDiffer DEF Bare
<1>9. taken # 0 => /\ i \in DOMAIN segments[c] /\ j \in DOMAIN segments[c] /\ i <= j
                  /\ Run(segments[c], i, j) = String(r)
                  /\ i \in 1 .. j
  <2>. SUFFICES ASSUME taken # 0
                PROVE  /\ i \in DOMAIN segments[c] /\ j \in DOMAIN segments[c] /\ i <= j
                       /\ Run(segments[c], i, j) = String(r)
    BY <1>3, <1>6
  <2>. QED
    BY <1>0, <1>1, <1>3, ReplyOfRun
<1>10. FromRuns'
  <2>. SUFFICES ASSUME NEW d \in Conns
                PROVE  \E first \in [DOMAIN answers'[d] -> 0 .. Segments[d]] : Follow(d, first)'
    BY DEF FromRuns
  <2>1. CASE d # c
    BY <1>1, <1>2, <1>3, <1>5, <1>6, <1>7, <2>1, FollowsOn
  <2>2. CASE d = c
    <3>1. PICK first \in [DOMAIN old -> 0 .. Segments[c]] : Follow(c, first)
      BY <1>3 DEF RInv, FromRuns
    <3>. DEFINE last == IF taken = 0 THEN 0 ELSE i
    <3>2. PICK next \in [DOMAIN answers'[c] -> 0 .. Segments[c]] :
              next = [k \in DOMAIN answers'[c] |-> IF k \in DOMAIN old THEN first[k] ELSE last]
      <4>1. last \in 0 .. Segments[c]
        BY <1>6, <1>9
      <4>. HIDE DEF last
      <4>. QED
        BY <3>1, <4>1
    <3>3. ASSUME NEW k \in DOMAIN answers'[c], answers'[c][k] \notin Bare
          PROVE  /\ next[k] \in 1 .. j
                 /\ \E l \in next[k] .. j : Run(segments[c], next[k], l) = String(answers'[c][k])
                 /\ \A l \in 1 .. k - 1 : answers'[c][l] \notin Bare => next[l] < next[k]
      <4>1. CASE k \in DOMAIN old
        <5>1. answers'[c][k] = old[k] /\ next[k] = first[k]
          BY <1>3, <3>2, <4>1
        <5>2. \A l \in 1 .. k - 1 : l \in DOMAIN old /\ answers'[c][l] = old[l] /\ next[l] = first[l]
          BY <1>3, <3>2, <4>1
        <5>3. /\ first[k] \in 1 .. Dealt(c)
              /\ \E l \in first[k] .. Dealt(c) : Run(segments[c], first[k], l) = String(old[k])
              /\ \A l \in 1 .. k - 1 : old[l] \notin Bare => first[l] < first[k]
          BY <3>1, <3>3, <4>1, <5>1 DEF Follow
        <5>4. 1 .. Dealt(c) \subseteq 1 .. j /\ first[k] .. Dealt(c) \subseteq first[k] .. j
          BY <1>3, <1>6, <5>3
        <5>. HIDE DEF j, old
        <5>. QED
          BY <5>1, <5>2, <5>3, <5>4
      <4>2. CASE k \notin DOMAIN old
        <5>1. k = Len(old) + 1 /\ answers'[c][k] = r /\ taken # 0
          BY <1>3, <1>8, <3>3, <4>2
        <5>2. next[k] = i
          BY <3>2, <4>2, <5>1
        <5>3. \A l \in 1 .. k - 1 : /\ l \in DOMAIN old /\ answers'[c][l] = old[l]
                                    /\ next[l] = first[l]
          BY <1>3, <3>2, <5>1
        <5>4. \A l \in DOMAIN old : old[l] \notin Bare => first[l] < i
          BY <1>3, <1>6, <3>1 DEF Follow
        <5>5. /\ i \in 1 .. j /\ Run(segments[c], i, j) = String(r)
              /\ j \in i .. j
          BY <1>3, <1>6, <1>9, <5>1
        <5>. HIDE DEF old, i, j, r
        <5>. QED
          BY <5>1, <5>2, <5>3, <5>4, <5>5
      <4>. QED
        BY <4>1, <4>2
    <3>4. Follow(c, next)'
      BY <1>1, <1>3, <1>7, <3>3 DEF Follow, Run, Result
    <3>. QED
      BY <2>2, <3>2, <3>4
  <2>. QED
    BY <2>1, <2>2
<1>11. FromAnswers'
  <2>. SUFFICES ASSUME NEW d \in Conns
                PROVE  /\ seen'[d] <= Len(answers'[d])
                       /\ \E place \in [DOMAIN shown'[d] -> DOMAIN answers'[d]] : Picked(d, place)'
    BY DEF FromAnswers
  <2>1. CASE d # c
    BY <1>1, <1>3, <2>1 DEF RInv, FromAnswers, Picked
  <2>2. CASE d = c
    <3>1. PICK place \in [DOMAIN shown[c] -> DOMAIN old] : Picked(c, place)
      BY <1>3 DEF RInv, FromAnswers
    <3>2. seen[c] <= Len(old) /\ seen[c] \in Nat
      BY <1>3 DEF RInv, FromAnswers, CallTypes
    <3>3. Len(answers'[c]) = Len(old) + 1
      BY <1>3
    <3>4. place \in [DOMAIN shown[c] -> DOMAIN answers'[c]]
      BY <1>3, <3>1
    <3>5. \A k \in DOMAIN shown[c] : answers'[c][place[k]] = old[place[k]]
      BY <1>3, <3>1
    <3>6. Picked(c, place)'
      BY <1>1, <3>1, <3>5 DEF Picked
    <3>. QED
      BY <1>1, <1>3, <2>2, <3>2, <3>3, <3>4, <3>6
  <2>. QED
    BY <2>1, <2>2
<1>12. WholeGreeted'
  <2>. SUFFICES ASSUME NEW d \in Conns, Whole(d), peer[d] = "open"
                PROVE  ToSet(answers'[d]) \subseteq ToSet(Asked(d))
    BY <1>1 DEF WholeGreeted, Whole
  <2>1. ToSet(answers[d]) \subseteq ToSet(Asked(d))
    BY DEF RInv, WholeGreeted
  <2>2. CASE d # c
    BY <1>3, <2>1, <2>2
  <2>3. CASE d = c
    <3>1. taken # 0
      BY <1>0, <1>1, <2>3 DEF RInv, Taking
    <3>2. segments[c] = Requests(c) /\ DOMAIN segments[c] = DOMAIN Names[c]
      BY <2>3 DEF Whole, Requests
    <3>3. String(r) = String(Asked(c)[i])
      <4>1. i \in DOMAIN Names[c] /\ j \in DOMAIN Names[c] /\ i <= j /\ Run(segments[c], i, j) = String(r)
        BY <1>3, <1>9, <3>1, <3>2
      <4>. HIDE DEF i, j, r
      <4>. QED
        BY <3>2, <4>1, WholeRunsRead
    <3>4. r \in ToSet(Asked(c))
      BY <1>3, <1>9, <3>1, <3>2, <3>3, AskedIsResult, StringsDiffer
    <3>5. \A k \in DOMAIN old : old[k] \in ToSet(Asked(c))
      BY <2>1, <2>3 DEF ToSet
    <3>6. \A k \in DOMAIN answers'[c] : answers'[c][k] \in ToSet(Asked(c))
      BY <1>3, <3>4, <3>5
    <3>. QED
      BY <2>3, <3>6 DEF ToSet
  <2>. QED
    BY <2>2, <2>3
<1>. QED
  BY <1>2, <1>4, <1>5, <1>10, <1>11, <1>12 DEF RInv

\* A handler that sends nothing, and the end of the process.
LEMMA RespondFailsKeeps ==
    ASSUME RInv, RespondFails
    PROVE  RInv'
<1>1. SInv'
  BY ReturnInv DEF RInv, RespondFails
<1>. QED
  BY <1>1, LoopKeeps DEF RespondFails, Return, kernel, Waiting

LEMMA KilledKeeps ==
    ASSUME RInv, RespondKilled
    PROVE  RInv'
<1>1. SInv'
  BY GotoInv DEF RInv, RespondKilled
<1>. QED
  BY <1>1, LoopKeeps DEF RespondKilled, kernel, Waiting

LEMMA WaitFailsKeeps ==
    ASSUME RInv, WaitFails, UNCHANGED calls
    PROVE  RInv'
<1>1. SInv'
  BY WaitFailsInv DEF RInv
<1>. QED
  BY <1>1, LoopKeeps DEF WaitFails, kernel, Waiting

\* A client logs the first of the results that it reads together.
LEMMA LogMoves ==
    ASSUME RInv, NEW c \in Conns, LogResult(c)
    PROVE  LET next == seen[c] + 1  log == shown[c] IN
           /\ next \in DOMAIN answers[c] /\ answers[c][next] \in Results
           /\ seen[c] \in Nat /\ log \in Seq(Results)
           /\ shown' = [shown EXCEPT ![c] = Append(log, answers[c][next])]
           /\ seen' \in [Conns -> Nat] /\ seen'[c] \in next .. Len(answers[c])
           /\ \A d \in Conns \ {c} : seen'[d] = seen[d]
<1>. DEFINE next == seen[c] + 1  log == shown[c]
<1>1. /\ answers[c] \in Seq(Results) /\ log \in Seq(Results) /\ seen[c] \in Nat
      /\ seen \in [Conns -> Nat]
  BY DEF RInv, CallTypes
<1>2. PICK n \in next .. seen[c] + RecvMax :
          /\ n <= Len(answers[c])
          /\ shown' = [shown EXCEPT ![c] = Append(@, Logged(SubSeq(answers[c], next, n)))]
          /\ seen' = [seen EXCEPT ![c] = n]
  BY DEF LogResult
<1>3. n \in Nat /\ next \in Nat /\ next >= 1 /\ next <= n /\ n - next + 1 \in 1 .. RecvMax
  BY <1>1, <1>2, SocketConstants
<1>4. \A i \in next .. n : i \in DOMAIN answers[c] /\ answers[c][i] \in Results
  BY <1>1, <1>2, <1>3
<1>. DEFINE results == SubSeq(answers[c], next, n)
<1>5. /\ results \in Seq(Results) /\ Len(results) = n - next + 1
      /\ results[1] = answers[c][next]
  <2>. HIDE DEF next
  <2>1. /\ results \in Seq(Results) /\ Len(results) = n - next + 1
        /\ \A i \in 1 .. n - next + 1 : results[i] = answers[c][next + i - 1]
    BY <1>3, <1>4, SubSeqProperties
  <2>. QED
    BY <1>3, <2>1
<1>6. results \in Batches
  <2>. HIDE DEF results, next
  <2>1. results \in [1 .. (n - next + 1) -> Results]
    BY <1>5
  <2>. QED
    BY <1>3, <2>1 DEF Batches
<1>7. Logged(results) = answers[c][next]
  BY <1>5, <1>6, FirstIsLogged
<1>8. shown' = [shown EXCEPT ![c] = Append(log, answers[c][next])]
  BY <1>2, <1>7
<1>9. /\ seen' \in [Conns -> Nat] /\ seen'[c] = n
      /\ \A d \in Conns \ {c} : seen'[d] = seen[d]
  BY <1>1, <1>2, <1>3
<1>10. n \in next .. Len(answers[c]) /\ next \in next .. n
  BY <1>1, <1>2, <1>3
<1>. HIDE DEF next
<1>. QED
  BY <1>1, <1>4, <1>8, <1>9, <1>10 DEF next

LEMMA LogKeeps ==
    ASSUME RInv, NEW c \in Conns, LogResult(c)
    PROVE  RInv'
<1>. DEFINE next == seen[c] + 1  log == shown[c]  r == answers[c][next]
<1>1. /\ next \in DOMAIN answers[c] /\ r \in Results
      /\ seen[c] \in Nat /\ log \in Seq(Results)
      /\ shown' = [shown EXCEPT ![c] = Append(log, r)]
      /\ seen' \in [Conns -> Nat] /\ seen'[c] \in next .. Len(answers[c])
      /\ \A d \in Conns \ {c} : seen'[d] = seen[d]
  BY LogMoves
<1>2. UNCHANGED <<socketVars, segments, answers>> /\ peer[c] = "open"
  BY DEF LogResult
<1>. USE DEF socketVars, clients, kernel, handler
<1>3. SInv'
  BY <1>2, SocketsSame DEF RInv
<1>4. shown \in [Conns -> Seq(Results)]
  BY DEF RInv, CallTypes
<1>5. /\ \A d \in Conns \ {c} : shown'[d] = shown[d]
      /\ shown'[c] = Append(log, r)
  BY <1>1, <1>4
<1>. HIDE DEF r
<1>6. /\ shown'[c] \in Seq(Results) /\ DOMAIN shown'[c] = 1 .. Len(log) + 1
      /\ \A k \in 1 .. Len(log) : shown'[c][k] = log[k]
      /\ shown'[c][Len(log) + 1] = r
      /\ DOMAIN log = 1 .. Len(log) /\ Len(log) \in Nat
  <2>. HIDE DEF log
  <2>1. /\ Append(log, r) \in Seq(Results) /\ Len(Append(log, r)) = Len(log) + 1
        /\ \A k \in 1 .. Len(log) : Append(log, r)[k] = log[k]
        /\ Append(log, r)[Len(log) + 1] = r
    BY <1>1, AppendProperties
  <2>2. DOMAIN Append(log, r) = 1 .. Len(log) + 1
    BY <2>1
  <2>3. DOMAIN log = 1 .. Len(log) /\ Len(log) \in Nat
    BY <1>1
  <2>4. shown'[c] = Append(log, r)
    BY <1>5
  <2>. QED
    BY <2>1, <2>2, <2>3, <2>4, Zenon
<1>7. CallTypes'
  BY <1>1, <1>2, <1>4, <1>6 DEF RInv, CallTypes
<1>8. Staying' /\ Taking' /\ WholeGreeted'
  BY <1>2, <1>5 DEF RInv, Staying, Waiting, Taking, Read, WholeGreeted, Whole
<1>9. FromRuns'
  <2>1. Taking'
    BY <1>8
  <2>2. \A d \in Conns : Dealt(d)' = Dealt(d) /\ Dealt(d) \in Nat
    BY <1>2, ReadBounds DEF Dealt, Read
  <2>. QED
    BY <1>2, <1>3, <2>1, <2>2, FollowsOn DEF FromRuns
<1>10. FromAnswers'
  <2>. SUFFICES ASSUME NEW d \in Conns
                PROVE  /\ seen'[d] <= Len(answers'[d])
                       /\ \E place \in [DOMAIN shown'[d] -> DOMAIN answers'[d]] : Picked(d, place)'
    BY DEF FromAnswers
  <2>1. CASE d # c
    <3>1. seen'[d] = seen[d] /\ shown'[d] = shown[d] /\ answers' = answers
      BY <1>1, <1>2, <1>5, <2>1
    <3>2. seen[d] <= Len(answers[d])
      BY DEF RInv, FromAnswers
    <3>3. PICK place \in [DOMAIN shown[d] -> DOMAIN answers[d]] : Picked(d, place)
      BY DEF RInv, FromAnswers
    <3>4. Picked(d, place)'
      BY <3>1, <3>3 DEF Picked
    <3>. QED
      BY <3>1, <3>2, <3>3, <3>4
  <2>2. CASE d = c
    <3>1. PICK place \in [DOMAIN log -> DOMAIN answers[c]] : Picked(c, place)
      BY DEF RInv, FromAnswers
    <3>2. PICK to \in [DOMAIN shown'[c] -> DOMAIN answers[c]] :
              to = [k \in DOMAIN shown'[c] |-> IF k \in DOMAIN log THEN place[k] ELSE next]
      BY <1>1, <3>1
    <3>3. ASSUME NEW k \in DOMAIN shown'[c]
          PROVE  /\ to[k] \in 1 .. seen'[c]
                 /\ shown'[c][k] = answers[c][to[k]]
                 /\ \A l \in 1 .. k - 1 : to[l] < to[k]
      <4>1. CASE k \in DOMAIN log
        <5>1. shown'[c][k] = log[k] /\ to[k] = place[k]
          BY <1>6, <3>2, <4>1
        <5>2. \A l \in 1 .. k - 1 : to[l] = place[l]
          BY <1>6, <3>2, <4>1
        <5>3. /\ place[k] \in 1 .. seen[c] /\ log[k] = answers[c][place[k]]
              /\ \A l \in 1 .. k - 1 : place[l] < place[k]
          BY <3>1, <4>1 DEF Picked
        <5>4. 1 .. seen[c] \subseteq 1 .. seen'[c]
          BY <1>1
        <5>. QED
          BY <5>1, <5>2, <5>3, <5>4
      <4>2. CASE k \notin DOMAIN log
        <5>1. k = Len(log) + 1 /\ shown'[c][k] = r /\ to[k] = next
          BY <1>6, <3>2, <4>2
        <5>2. \A l \in 1 .. k - 1 : l \in DOMAIN log /\ to[l] = place[l]
          BY <1>6, <3>2, <5>1
        <5>3. \A l \in DOMAIN log : place[l] \in 1 .. seen[c]
          BY <3>1 DEF Picked
        <5>4. next \in 1 .. seen'[c]
          BY <1>1
        <5>5. \A l \in 1 .. k - 1 : to[l] < next
          BY <1>1, <5>2, <5>3
        <5>. QED
          BY <5>1, <5>4, <5>5 DEF r
      <4>. QED
        BY <4>1, <4>2
    <3>4. Picked(c, to)'
      BY <1>2, <3>3 DEF Picked
    <3>5. seen'[c] <= Len(answers[c])
      BY <1>1
    <3>. QED
      BY <1>2, <2>2, <3>2, <3>4, <3>5
  <2>. QED
    BY <2>1, <2>2
<1>. QED
  BY <1>3, <1>7, <1>8, <1>9, <1>10 DEF RInv

LEMMA Step == RInv /\ [Next]_vars => RInv'
<1>. SUFFICES ASSUME RInv, [Next]_vars PROVE RInv'
  OBVIOUS
<1>1. CASE UNCHANGED vars
  <2>. USE <1>1 DEF vars, socketVars, clients, kernel, handler
  <2>1. SInv'
    BY SocketsSame DEF RInv
  <2>2. Staying' /\ Taking' /\ \A c \in Conns : Dealt(c)' = Dealt(c)
    BY DEF RInv, Staying, Waiting, Taking, Dealt, Read, calls
  <2>3. \A c \in Conns : Dealt(c) \in Nat
    BY ReadBounds
  <2>. QED
    BY <2>1, <2>2, <2>3, CallsKept
<1>2. CASE Server
  BY <1>2, SocketStepKeeps, RespondKeeps, RespondFailsKeeps, KilledKeeps DEF Server
<1>3. CASE WaitFails /\ UNCHANGED calls
  BY <1>3, WaitFailsKeeps
<1>4. CASE \E c \in Conns : segments[c] # <<>> /\ Client(c) /\ UNCHANGED calls
  BY <1>4, ClientKeeps
<1>5. CASE \E c \in Conns : LogResult(c)
  BY <1>5, LogKeeps
<1>. QED
  BY <1>1, <1>2, <1>3, <1>4, <1>5 DEF Next

LEMMA Invariance == Spec => []RInv
BY InitInv, Step, PTL DEF Spec

-----------------------------------------------------------------------------
(* What the invariant says of the results                                  *)

\* Runs follow each other as the requests do that they begin with.
LEMMA AnswersInOrder ==
    ASSUME RInv, NEW c \in Conns
    PROVE  InOrder(answers[c], Asked(c))
<1>. DEFINE got == answers[c]
<1>1. CASE segments[c] = <<>>
  <2>1. got = <<>>
    BY <1>1 DEF RInv, Staying
  <2>2. DOMAIN got = {}
    BY <2>1
  <2>3. [k \in {} |-> 0] \in [DOMAIN got -> {0} \cup DOMAIN Asked(c)]
    BY <2>2
  <2>. QED
    BY <2>2, <2>3 DEF InOrder
<1>2. CASE segments[c] # <<>>
  <2>1. segments \in Cuts /\ DOMAIN segments[c] = 1 .. Segments[c] /\ Segments[c] \in Nat
    BY <1>2, CutText, SocketConstants DEF RInv, CallTypes
  <2>2. PICK start \in [DOMAIN Names[c] -> DOMAIN segments[c]] :
            /\ \A k, m \in DOMAIN Names[c] : k <= m => start[k] <= start[m]
            /\ \A i, j \in DOMAIN segments[c] : i <= j =>
                  \/ Run(segments[c], i, j) \in {Throws} \cup {String(r) : r \in Bare}
                  \/ \E k \in DOMAIN Names[c] :
                        start[k] = i /\ Run(segments[c], i, j) = String(Asked(c)[k])
    BY <1>2, <2>1, RunsRead
  <2>3. PICK first \in [DOMAIN got -> 0 .. Segments[c]] : Follow(c, first)
    BY DEF RInv, FromRuns
  <2>. DEFINE Asks(k, m) == start[m] = first[k] /\ got[k] = Asked(c)[m]
  <2>4. ASSUME NEW k \in DOMAIN got, got[k] \notin Bare
        PROVE  \E m \in DOMAIN Names[c] : Asks(k, m)
    <3>1. PICK j \in first[k] .. Dealt(c) :
              /\ first[k] \in 1 .. Dealt(c)
              /\ Run(segments[c], first[k], j) = String(got[k])
      BY <2>3, <2>4 DEF Follow
    <3>2. Dealt(c) \in 0 .. Segments[c]
      BY ReadBounds
    <3>3. first[k] \in DOMAIN segments[c] /\ j \in DOMAIN segments[c] /\ first[k] <= j
      BY <2>1, <3>1, <3>2
    <3>4. Run(segments[c], first[k], j) \notin {Throws} \cup {String(r) : r \in Bare}
      BY <2>4, <3>1, StringsDiffer
    <3>5. PICK m \in DOMAIN Names[c] :
              start[m] = first[k] /\ Run(segments[c], first[k], j) = String(Asked(c)[m])
      BY <2>2, <3>3, <3>4
    <3>. QED
      BY <3>1, <3>5, StringsDiffer
  <2>. DEFINE request == [k \in DOMAIN got |->
                             IF got[k] \in Bare THEN 0 ELSE CHOOSE m \in DOMAIN Names[c] : Asks(k, m)]
  <2>5. ASSUME NEW k \in DOMAIN got, got[k] \notin Bare
        PROVE  request[k] \in DOMAIN Names[c] /\ Asks(k, request[k])
    <3>1. request[k] = CHOOSE m \in DOMAIN Names[c] : Asks(k, m)
      BY <2>5
    <3>2. \E m \in DOMAIN Names[c] : Asks(k, m)
      BY <2>4, <2>5
    <3>. HIDE DEF Asks, request
    <3>. QED
      BY <3>1, <3>2
  <2>6. \A m \in DOMAIN Names[c] : /\ m \in Nat \ {0} /\ m \in DOMAIN Asked(c)
                                  /\ start[m] \in 1 .. Segments[c]
    BY <2>1, <2>2, AskedIsResult
  <2>7. request \in [DOMAIN got -> {0} \cup DOMAIN Asked(c)]
    <3>1. \A k \in DOMAIN got : request[k] \in {0} \cup DOMAIN Asked(c)
      <4>1. ASSUME NEW k \in DOMAIN got, got[k] \in Bare PROVE request[k] = 0
        BY <4>1
      <4>. QED
        BY <2>5, <2>6, <4>1
    <3>. QED
      BY <3>1
  <2>8. ASSUME NEW k \in DOMAIN got, got[k] \notin Bare,
               NEW l \in 1 .. k - 1, got[l] \notin Bare
        PROVE  request[l] < request[k]
    <3>1. l \in DOMAIN got /\ first[l] < first[k]
      <4>1. first[l] < first[k]
        BY <2>3, <2>8 DEF Follow
      <4>2. got \in Seq(Results)
        BY DEF RInv, CallTypes
      <4>. QED
        BY <2>8, <4>1, <4>2
    <3>2. /\ request[k] \in DOMAIN Names[c] /\ start[request[k]] = first[k]
          /\ request[l] \in DOMAIN Names[c] /\ start[request[l]] = first[l]
      BY <2>5, <2>8, <3>1
    <3>. HIDE DEF request
    <3>3. request[k] <= request[l] => start[request[k]] <= start[request[l]]
      BY <2>2, <3>2
    <3>. QED
      BY <2>6, <3>1, <3>2, <3>3
  <2>. HIDE DEF request
  <2>. QED
    BY <2>5, <2>6, <2>7, <2>8 DEF InOrder
<1>. QED
  BY <1>1, <1>2

\* What is picked from an ordered sequence in its order is ordered.
LEMMA ShownInOrder ==
    ASSUME RInv, NEW c \in Conns
    PROVE  /\ InOrder(shown[c], Asked(c))
           /\ ToSet(shown[c]) \subseteq ToSet(answers[c])
<1>. DEFINE got == answers[c]  log == shown[c]
<1>1. PICK place \in [DOMAIN log -> DOMAIN got] : Picked(c, place)
  BY DEF RInv, FromAnswers
<1>2. /\ \A k \in DOMAIN log : log[k] = got[place[k]]
      /\ \A k \in DOMAIN log : \A l \in 1 .. k - 1 : place[l] < place[k]
  BY <1>1 DEF Picked
<1>3. ToSet(log) \subseteq ToSet(got)
  BY <1>1, <1>2 DEF ToSet
<1>4. /\ got \in Seq(Results) /\ log \in Seq(Results)
  BY DEF RInv, CallTypes
<1>. HIDE DEF got, log
<1>5. PICK request \in [DOMAIN got -> {0} \cup DOMAIN Asked(c)] :
          \A i \in DOMAIN got : got[i] \notin Bare =>
              /\ request[i] # 0 /\ got[i] = Asked(c)[request[i]]
              /\ \A j \in 1 .. i - 1 : got[j] \notin Bare => request[j] < request[i]
  BY AnswersInOrder DEF InOrder, got
<1>. DEFINE asks == [k \in DOMAIN log |-> request[place[k]]]
<1>6. asks \in [DOMAIN log -> {0} \cup DOMAIN Asked(c)]
  BY <1>1, <1>5
<1>7. ASSUME NEW k \in DOMAIN log, log[k] \notin Bare
      PROVE  /\ asks[k] # 0 /\ log[k] = Asked(c)[asks[k]]
             /\ \A l \in 1 .. k - 1 : log[l] \notin Bare => asks[l] < asks[k]
  <2>1. \A l \in 1 .. k - 1 : l \in DOMAIN log
    BY <1>4
  <2>2. \A l \in 1 .. k - 1 : place[l] \in 1 .. place[k] - 1
    BY <1>1, <1>2, <1>4, <2>1
  <2>. QED
    BY <1>1, <1>2, <1>5, <1>7, <2>1, <2>2
<1>. HIDE DEF asks
<1>8. InOrder(log, Asked(c))
  BY <1>6, <1>7 DEF InOrder
<1>. QED
  BY <1>3, <1>8 DEF got, log

-----------------------------------------------------------------------------
(***************************************************************************)
(* Every variable keeps its type: whatever a text is cut into and whatever *)
(* the server has read of it, what it sends and what a client logs is a    *)
(* result that one of the requests can have.                               *)
(***************************************************************************)
THEOREM CallsAreTyped == Spec => []TypeOK
<1>1. RInv => TypeOK
  BY DEF RInv, SInv, CallTypes, TypeOK
<1>. QED
  BY <1>1, Invariance, PTL

(***************************************************************************)
(* A greeting that UsrRpcClient answers or UsrClient logs is the one asked *)
(* for, in the order of the requests and each at most once, however        *)
(* segments and responses run together; a client whose requests arrive     *)
(* whole gets nothing else while it stays.                                 *)
(***************************************************************************)
THEOREM GreetingsAreHonest == Spec => []HonestAnswers
<1>1. RInv => HonestAnswers
  <2>. SUFFICES ASSUME RInv, NEW c \in Conns
                PROVE  /\ InOrder(answers[c], Asked(c)) /\ InOrder(shown[c], Asked(c))
                       /\ Whole(c) /\ peer[c] = "open" =>
                             /\ ToSet(answers[c]) \subseteq ToSet(Asked(c))
                             /\ ToSet(shown[c]) \subseteq ToSet(Asked(c))
    BY DEF HonestAnswers
  <2>1. Whole(c) /\ peer[c] = "open" => ToSet(answers[c]) \subseteq ToSet(Asked(c))
    BY DEF RInv, WholeGreeted
  <2>. QED
    BY <2>1, AnswersInOrder, ShownInOrder
<1>. QED
  BY <1>1, Invariance, PTL
=============================================================================
