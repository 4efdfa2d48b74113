--------------------------- MODULE SequenceLemmas ---------------------------
(***************************************************************************)
(* Induction in a form whose parameters are sets, so that it can be cited, *)
(* and what it shows of recursive functions and of FlattenSeq.             *)
(***************************************************************************)
EXTENDS Integers, SequencesExt, SequenceTheorems, WellFoundedInduction, TLAPS

-----------------------------------------------------------------------------
(* Induction *)

\* A set of natural numbers has a least element.
LEMMA NatMinimum ==
  ASSUME NEW T, T \subseteq Nat, T # {}
  PROVE  \E x \in T : \A y \in T : x <= y
<1>1. PICK x \in T : \A y \in T : ~ (<<y, x>> \in OpToRel(<, Nat))
  BY NatLessThanWellFounded, WFMin
<1>2. \A y \in T : ~(y < x)
  BY <1>1 DEF OpToRel
<1>. QED
  BY <1>2

\* Induction from a to b.
LEMMA UpwardInduction ==
  ASSUME NEW a \in Int, NEW b \in Int, NEW T,
         a \in T, \A n \in a .. b - 1 : n \in T => n + 1 \in T
  PROVE  a .. b \subseteq T
<1>. DEFINE Missing == {d \in Nat : a + d <= b /\ a + d \notin T}
<1>. SUFFICES ASSUME NEW n \in a .. b, n \notin T PROVE FALSE
  OBVIOUS
<1>1. n - a \in Missing
  OBVIOUS
<1>2. PICK d \in Missing : \A e \in Missing : d <= e
  BY <1>1, NatMinimum
<1>3. d # 0 /\ d - 1 \in Nat /\ a + (d - 1) <= b /\ d - 1 \notin Missing
  BY <1>2
<1>4. a + (d - 1) \in T /\ a + (d - 1) \in a .. b - 1
  BY <1>2, <1>3
<1>5. a + (d - 1) + 1 \in T /\ a + (d - 1) + 1 = a + d
  BY <1>4
<1>. QED
  BY <1>2, <1>5

\* f is computed from place a to place b: each value from the one before it.
Recursive(f, a, b, first, step) ==
    f[a] = first /\ \A i \in a + 1 .. b : f[i] = step[i][f[i - 1]]

LEMMA RecursiveFunction ==
  ASSUME NEW a \in Int, NEW b \in Int, a <= b,
         NEW V, NEW first \in V, NEW step \in [a + 1 .. b -> [V -> V]]
  PROVE  \E f \in [a .. b -> V] : Recursive(f, a, b, first, step)
<1>. DEFINE Good(m, f) ==
              f = [i \in a .. m |-> IF i = a THEN first ELSE step[i][f[i - 1]]]
            T == {m \in a .. b : \E f \in [a .. m -> V] : Good(m, f)}
<1>1. a \in T
  <2>. DEFINE g == [i \in a .. a |-> first]
  <2>1. g \in [a .. a -> V] /\ Good(a, g)
    OBVIOUS
  <2>2. a \in a .. b
    OBVIOUS
  <2>. HIDE DEF g, Good
  <2>. QED
    BY <2>1, <2>2
<1>2. ASSUME NEW m \in a .. b - 1, m \in T PROVE m + 1 \in T
  <2>1. PICK f \in [a .. m -> V] : Good(m, f)
    BY <1>2
  <2>. DEFINE g == [i \in a .. m + 1 |-> IF i = m + 1 THEN step[m + 1][f[m]] ELSE f[i]]
  <2>2. g \in [a .. m + 1 -> V]
    OBVIOUS
  <2>3. ASSUME NEW i \in a .. m + 1
        PROVE  g[i] = IF i = a THEN first ELSE step[i][g[i - 1]]
    <3>1. CASE i = m + 1
      <4>1. g[i] = step[m + 1][f[m]] /\ g[i - 1] = f[m] /\ i # a
        BY <3>1
      <4>. QED
        BY <3>1, <4>1
    <3>2. CASE i = a
      BY <2>1, <3>2
    <3>3. CASE i \in a + 1 .. m
      <4>1. f[i] = step[i][f[i - 1]]
        <5>1. i \in a .. m /\ i # a
          BY <3>3
        <5>. QED
          BY <2>1, <5>1
      <4>2. g[i - 1] = f[i - 1] /\ g[i] = f[i] /\ i # a
        BY <3>3
      <4>. HIDE DEF g
      <4>. QED
        BY <4>1, <4>2
    <3>. QED
      BY <3>1, <3>2, <3>3
  <2>4. Good(m + 1, g)
    BY <2>3
  <2>5. m + 1 \in a .. b
    OBVIOUS
  <2>. HIDE DEF g, Good
  <2>. QED
    BY <2>2, <2>4, <2>5
<1>. HIDE DEF Good
<1>3. a .. b \subseteq T
  <2>. HIDE DEF T
  <2>. QED
    BY <1>1, <1>2, UpwardInduction
<1>4. \E f \in [a .. b -> V] : Good(b, f)
  BY <1>3
<1>5. PICK f \in [a .. b -> V] : Good(b, f)
  BY <1>4
<1>6. Recursive(f, a, b, first, step)
  BY <1>5 DEF Good, Recursive
<1>. QED
  BY <1>6

-----------------------------------------------------------------------------
(* FlattenSeq *)

\* The function that FlattenSeq is defined by.
IsFlattening(f, ss) ==
    f = [i \in 1 .. Len(ss) |-> IF i = 1 THEN ss[i] ELSE f[i - 1] \o ss[i]]

\* The same, without the function constructor.
Flattens(f, ss) ==
    f[1] = ss[1] /\ \A i \in 1 .. Len(ss) - 1 : f[i + 1] = f[i] \o ss[i + 1]

LEMMA FlatteningAt ==
  ASSUME NEW ss, Len(ss) \in Nat \ {0}, NEW f, IsFlattening(f, ss)
  PROVE  DOMAIN f = 1 .. Len(ss) /\ Flattens(f, ss)
<1>. PICK n \in Nat \ {0} : n = Len(ss)
  OBVIOUS
<1>1. \A k \in 1 .. n : f[k] = IF k = 1 THEN ss[k] ELSE f[k - 1] \o ss[k]
  BY DEF IsFlattening
<1>2. f[1] = ss[1]
  BY <1>1
<1>3. ASSUME NEW i \in 1 .. n - 1 PROVE f[i + 1] = f[i] \o ss[i + 1]
  <2>1. PICK k \in 1 .. n : k = i + 1 /\ k # 1 /\ k - 1 = i
    OBVIOUS
  <2>2. f[k] = f[k - 1] \o ss[k]
    BY <1>1, <2>1
  <2>. QED
    BY <2>1, <2>2
<1>. QED
  BY <1>2, <1>3 DEF IsFlattening, Flattens

LEMMA FlattenFunction ==
  ASSUME NEW S, NEW ss \in Seq(Seq(S)), ss # <<>>
  PROVE  \E f \in [1 .. Len(ss) -> Seq(S)] : Flattens(f, ss) /\ FlattenSeq(ss) = f[Len(ss)]
<1>. DEFINE V == Seq(S)
<1>0. PICK n \in Nat : n = Len(ss) /\ n > 0
  BY EmptySeq
<1>1. \A i \in 1 .. n : ss[i] \in V
  BY <1>0, ElementOfSeq
<1>. DEFINE step == [i \in 2 .. n |-> [v \in V |-> v \o ss[i]]]
<1>2. ASSUME NEW i \in 2 .. n, NEW v \in V
      PROVE  step[i][v] = v \o ss[i] /\ step[i][v] \in V
  <2>1. step[i][v] = v \o ss[i]
    OBVIOUS
  <2>. QED
    BY <1>1, <2>1, ConcatProperties
<1>3. PICK f \in [1 .. n -> V] : f[1] = ss[1] /\ \A i \in 1 + 1 .. n : f[i] = step[i][f[i - 1]]
  <2>1. PICK one \in Int, v1 \in V : one = 1 /\ v1 = ss[1] /\ n \in Int /\ one <= n
    BY <1>0, <1>1
  <2>2. step \in [one + 1 .. n -> [V -> V]]
    BY <1>2, <2>1
  <2>3. \E f \in [one .. n -> V] : Recursive(f, one, n, v1, step)
    <3>. HIDE DEF step, V
    <3>. QED
      BY <2>1, <2>2, RecursiveFunction
  <2>. QED
    BY <2>1, <2>3 DEF Recursive
<1>. HIDE DEF step, V
<1>4. IsFlattening(f, ss)
  <2>1. ASSUME NEW i \in 1 .. n
        PROVE  f[i] = IF i = 1 THEN ss[i] ELSE f[i - 1] \o ss[i]
    <3>1. CASE i = 1
      BY <1>3, <3>1
    <3>2. CASE i # 1
      <4>1. f[i] = step[i][f[i - 1]] /\ f[i - 1] \in V
        BY <1>3, <3>2
      <4>2. i \in 2 .. n
        BY <3>2
      <4>3. step[i][f[i - 1]] = f[i - 1] \o ss[i]
        BY <1>2, <4>1, <4>2
      <4>. QED
        BY <3>2, <4>1, <4>3
    <3>. QED
      BY <3>1, <3>2
  <2>. QED
    BY <1>0, <1>3, <2>1 DEF IsFlattening
<1>. DEFINE flatten == CHOOSE g : g = [i \in 1 .. n |-> IF i = 1 THEN ss[i] ELSE g[i - 1] \o ss[i]]
<1>5. IsFlattening(flatten, ss)
  BY <1>0, <1>4 DEF IsFlattening
<1>. HIDE DEF flatten
<1>6. DOMAIN flatten = 1 .. n /\ Flattens(flatten, ss)
  BY <1>0, <1>5, FlatteningAt
<1>7. FlattenSeq(ss) = flatten[n]
  BY <1>0 DEF FlattenSeq, flatten
<1>. DEFINE T == {i \in 1 .. n : flatten[i] \in V}
<1>8. 1 \in T
  BY <1>0, <1>1, <1>6 DEF Flattens
<1>9. ASSUME NEW i \in 1 .. n - 1, i \in T PROVE i + 1 \in T
  <2>1. flatten[i + 1] = flatten[i] \o ss[i + 1]
    BY <1>0, <1>6 DEF Flattens
  <2>2. flatten[i] \in V /\ ss[i + 1] \in V /\ i + 1 \in 1 .. n
    BY <1>1, <1>9
  <2>3. flatten[i + 1] \in V
    <3>. HIDE DEF T
    <3>. QED
      BY <2>1, <2>2, ConcatProperties DEF V
  <2>. QED
    BY <2>2, <2>3
<1>10. 1 .. n \subseteq T
  <2>. HIDE DEF T
  <2>1. 1 \in Int /\ n \in Int
    OBVIOUS
  <2>. QED
    BY <1>8, <1>9, <2>1, UpwardInduction
<1>11. flatten \in [1 .. n -> V]
  <2>1. \A i \in 1 .. n : flatten[i] \in V
    BY <1>10
  <2>2. flatten = [i \in 1 .. n |-> flatten[i]]
    BY <1>0, <1>5 DEF IsFlattening
  <2>. QED
    BY <2>1, <2>2
<1>. QED
  BY <1>0, <1>6, <1>7, <1>11 DEF V

LEMMA FlattenEmpty == FlattenSeq(<<>>) = <<>>
  BY DEF FlattenSeq

LEMMA FlattenType ==
  ASSUME NEW S, NEW ss \in Seq(Seq(S))
  PROVE  FlattenSeq(ss) \in Seq(S)
<1>1. CASE ss = <<>>
  BY <1>1, FlattenEmpty, EmptySeq
<1>2. CASE ss # <<>>
  <2>1. PICK f \in [1 .. Len(ss) -> Seq(S)] : FlattenSeq(ss) = f[Len(ss)]
    BY <1>2, FlattenFunction
  <2>. QED
    BY <1>2, <2>1, EmptySeq
<1>. QED
  BY <1>1, <1>2

LEMMA FlattenAppend ==
  ASSUME NEW S, NEW ss \in Seq(Seq(S)), NEW s \in Seq(S)
  PROVE  FlattenSeq(Append(ss, s)) = FlattenSeq(ss) \o s
<1>. DEFINE tt == Append(ss, s)
<1>0. PICK n \in Nat : n = Len(ss)
  BY LenProperties
<1>1. /\ tt \in Seq(Seq(S)) /\ tt # <<>> /\ Len(tt) = n + 1
      /\ \A i \in 1 .. n : tt[i] = ss[i]
      /\ tt[n + 1] = s
  BY <1>0, AppendProperties
<1>. HIDE DEF tt
<1>2. PICK g \in [1 .. Len(tt) -> Seq(S)] : Flattens(g, tt) /\ FlattenSeq(tt) = g[n + 1]
  BY <1>1, FlattenFunction
<1>3. g[1] = tt[1] /\ \A i \in 1 .. n : g[i + 1] = g[i] \o tt[i + 1]
  <2>1. \A i \in 1 .. n : i \in 1 .. Len(tt) - 1
    BY <1>1
  <2>. QED
    BY <1>2, <2>1 DEF Flattens
<1>4. CASE ss = <<>>
  <2>1. n = 0
    BY <1>0, <1>4, EmptySeq
  <2>2. FlattenSeq(tt) = s
    BY <1>1, <1>2, <1>3, <2>1
  <2>. QED
    BY <1>4, <2>2, FlattenEmpty, ConcatEmptySeq DEF tt
<1>5. CASE ss # <<>>
  <2>1. n \in Nat \ {0}
    BY <1>0, <1>5, EmptySeq
  <2>2. PICK f \in [1 .. n -> Seq(S)] : Flattens(f, ss) /\ FlattenSeq(ss) = f[n]
    BY <1>0, <1>5, FlattenFunction
  <2>3. f[1] = ss[1] /\ \A i \in 1 .. n - 1 : f[i + 1] = f[i] \o ss[i + 1]
    BY <1>0, <2>1, <2>2 DEF Flattens
  <2>. DEFINE T == {i \in 1 .. n : g[i] = f[i]}
  <2>4. 1 \in T
    BY <1>1, <1>3, <2>1, <2>3
  <2>5. ASSUME NEW i \in 1 .. n - 1, i \in T PROVE i + 1 \in T
    <3>0. i \in 1 .. n
      OBVIOUS
    <3>1. g[i + 1] = g[i] \o tt[i + 1] /\ f[i + 1] = f[i] \o ss[i + 1]
      BY <1>3, <2>3, <3>0
    <3>2. tt[i + 1] = ss[i + 1] /\ g[i] = f[i] /\ i + 1 \in 1 .. n
      BY <1>1, <2>5
    <3>. QED
      BY <3>1, <3>2
  <2>6. n \in T
    <3>. HIDE DEF T
    <3>1. 1 \in Int /\ n \in Int
      OBVIOUS
    <3>2. 1 .. n \subseteq T
      BY <2>4, <2>5, <3>1, UpwardInduction
    <3>. QED
      BY <2>1, <3>2
  <2>7. g[n + 1] = g[n] \o s
    <3>1. n \in 1 .. n
      BY <2>1
    <3>2. g[n + 1] = g[n] \o tt[n + 1]
      BY <1>3, <3>1
    <3>. QED
      BY <1>1, <3>2
  <2>. QED
    BY <1>2, <2>2, <2>6, <2>7 DEF tt
<1>. QED
  BY <1>4, <1>5

\* Sequences are built by appending to the empty one.
LEMMA SequenceInduction ==
  ASSUME NEW S, NEW T, <<>> \in T,
         \A s \in Seq(S) : \A e \in S : s \in T => Append(s, e) \in T
  PROVE  Seq(S) \subseteq T
<1>. SUFFICES ASSUME NEW u \in Seq(S) PROVE u \in T
  OBVIOUS
<1>. DEFINE L == {n \in Nat : \A s \in Seq(S) : Len(s) = n => s \in T}
<1>1. 0 \in L
  BY EmptySeq
<1>2. ASSUME NEW n \in 0 .. Len(u) - 1, n \in L PROVE n + 1 \in L
  <2>. SUFFICES ASSUME NEW s \in Seq(S), Len(s) = n + 1 PROVE s \in T
    OBVIOUS
  <2>1. s # <<>>
    BY EmptySeq
  <2>2. PICK r \in Seq(S), e \in S : s = Append(r, e)
    BY <2>1, SequenceEmptyOrAppend
  <2>3. Len(r) = n
    BY <2>2, AppendProperties, LenProperties
  <2>. QED
    BY <1>2, <2>2, <2>3
<1>3. Len(u) \in L
  <2>. HIDE DEF L
  <2>1. Len(u) \in Nat
    BY LenProperties
  <2>2. 0 .. Len(u) \subseteq L
    BY <1>1, <1>2, <2>1, UpwardInduction
  <2>. QED
    BY <2>1, <2>2
<1>. QED
  BY <1>3

-----------------------------------------------------------------------------
(* The pieces of a sequence of sequences in their concatenation            *)

LEMMA SubSeqConcat ==
  ASSUME NEW S, NEW s \in Seq(S), NEW t \in Seq(S), NEW a \in 1 .. Len(s) + 1
  PROVE  /\ \A b \in a - 1 .. Len(s) : SubSeq(s \o t, a, b) = SubSeq(s, a, b)
         /\ SubSeq(s \o t, a, Len(s) + Len(t)) = SubSeq(s, a, Len(s)) \o t
<1>0. PICK n \in Nat, m \in Nat : n = Len(s) /\ m = Len(t)
  BY LenProperties
<1>1. PICK st \in Seq(S) : st = s \o t /\ Len(st) = n + m
  BY <1>0, ConcatProperties
<1>2. ASSUME NEW b \in a - 1 .. Len(s) PROVE SubSeq(s \o t, a, b) = SubSeq(s, a, b)
  <2>1. CASE b < a
    <3>1. a \in Int /\ b \in Int
      BY <1>0
    <3>. QED
      BY <2>1, <3>1, SubSeqEmpty
  <2>2. CASE b >= a
    <3>1. a \in 1 .. Len(s) /\ b \in 1 .. Len(s)
      BY <1>0, <2>2
    <3>. QED
      BY <3>1, SubSeqOfConcat1
  <2>. QED
    BY <1>0, <2>1, <2>2
<1>3. SubSeq(st, a, n + m) = SubSeq(st, a, n) \o SubSeq(st, n + 1, n + m)
  <2>1. a \in 1 .. Len(st) + 1 /\ n \in a - 1 .. Len(st) /\ n + m \in n .. Len(st)
    BY <1>0, <1>1
  <2>. QED
    BY <2>1, ConcatAdjacentSubSeq
<1>4. SubSeq(st, n + 1, n + m) = t
  <2>1. CASE m = 0
    <3>1. t = <<>>
      BY <1>0, <2>1, EmptySeq
    <3>2. n + 1 \in Int /\ n + m \in Int /\ n + m < n + 1
      BY <2>1
    <3>3. SubSeq(st, n + 1, n + m) = <<>>
      BY <3>2, SubSeqEmpty
    <3>. QED
      BY <3>1, <3>3
  <2>2. CASE m > 0
    <3>1. PICK p, q \in Int : p = n + 1 /\ q = n + m /\ p - Len(s) = 1 /\ q - Len(s) = m
      BY <1>0
    <3>2. p \in Len(s) + 1 .. Len(s) + Len(t) /\ q \in Len(s) + 1 .. Len(s) + Len(t)
      BY <1>0, <2>2, <3>1
    <3>3. SubSeq(s \o t, p, q) = SubSeq(t, p - Len(s), q - Len(s))
      BY <3>2, SubSeqOfConcat2
    <3>4. SubSeq(t, 1, Len(t)) = t
      BY SubSeqFull
    <3>. QED
      BY <1>0, <1>1, <3>1, <3>3, <3>4, Zenon
  <2>. QED
    BY <2>1, <2>2
<1>5. SubSeq(s \o t, a, n) = SubSeq(s, a, n)
  <2>1. n \in a - 1 .. Len(s)
    BY <1>0
  <2>. QED
    BY <1>2, <2>1
<1>6. SubSeq(s \o t, a, n + m) = SubSeq(s, a, n) \o t
  BY <1>1, <1>3, <1>4, <1>5, Zenon
<1>. QED
  BY <1>0, <1>2, <1>6

\* Where the pieces of a sequence of sequences begin in their concatenation.
Offsets(o, ss) ==
    /\ o[1] = 0
    /\ \A i \in 1 .. Len(ss) : o[i + 1] = o[i] + Len(ss[i])

\* Consecutive pieces are a part of the whole.
Parts(o, ss) ==
    /\ Len(FlattenSeq(ss)) = o[Len(ss) + 1]
    /\ \A i \in 1 .. Len(ss) + 1 : \A j \in i - 1 .. Len(ss) :
          /\ o[i] <= o[j + 1]
          /\ FlattenSeq(SubSeq(ss, i, j)) = SubSeq(FlattenSeq(ss), o[i] + 1, o[j + 1])

Placed(ss) == \E o \in [1 .. Len(ss) + 1 -> Nat] : Offsets(o, ss) /\ Parts(o, ss)

LEMMA PlacedEmpty == Placed(<<>>)
<1>. DEFINE o == [i \in 1 .. 1 |-> 0]
<1>1. Len(<<>>) = 0 /\ o \in [1 .. 1 -> Nat] /\ o[1] = 0
  OBVIOUS
<1>2. Offsets(o, <<>>)
  BY <1>1 DEF Offsets
<1>3. Parts(o, <<>>)
  <2>. SUFFICES ASSUME NEW i \in 1 .. 1, NEW j \in i - 1 .. 0
                PROVE  /\ o[i] <= o[j + 1]
                       /\ FlattenSeq(SubSeq(<<>>, i, j)) = SubSeq(<<>>, o[i] + 1, o[j + 1])
    BY <1>1, FlattenEmpty DEF Parts
  <2>1. i = 1 /\ j = 0 /\ j + 1 = 1
    OBVIOUS
  <2>2. o[i] = 0 /\ o[j + 1] = 0
    BY <1>1, <2>1
  <2>3. PICK a \in Int, b \in Int : a = o[i] + 1 /\ b = o[j + 1] /\ b < a
    BY <2>2
  <2>4. i \in Int /\ j \in Int /\ j < i
    BY <2>1
  <2>. HIDE DEF o
  <2>5. SubSeq(<<>>, a, b) = <<>> /\ SubSeq(<<>>, i, j) = <<>>
    BY <2>3, <2>4, SubSeqEmpty
  <2>6. FlattenSeq(SubSeq(<<>>, i, j)) = <<>>
    BY <2>5, FlattenEmpty, Zenon
  <2>7. SubSeq(<<>>, o[i] + 1, o[j + 1]) = <<>>
    BY <2>3, <2>5, Zenon
  <2>8. o[i] <= o[j + 1]
    BY <2>2
  <2>. QED
    BY <2>6, <2>7, <2>8, Zenon
<1>. QED
  BY <1>1, <1>2, <1>3 DEF Placed

LEMMA PlacedAppend ==
  ASSUME NEW S, NEW ss \in Seq(Seq(S)), NEW s \in Seq(S), Placed(ss)
  PROVE  Placed(Append(ss, s))
<1>. DEFINE V == Seq(S)  tt == Append(ss, s)  F == FlattenSeq(ss)
<1>0. PICK n \in Nat, m \in Nat : n = Len(ss) /\ m = Len(s)
  BY LenProperties
<1>1. PICK o \in [1 .. n + 1 -> Nat] : Offsets(o, ss) /\ Parts(o, ss)
  BY <1>0 DEF Placed
<1>2. F \in Seq(S) /\ FlattenSeq(tt) = F \o s
  BY FlattenType, FlattenAppend
<1>3. Len(F) = o[n + 1] /\ o[n + 1] \in Nat
  BY <1>0, <1>1 DEF Parts
<1>4. /\ Len(tt) = n + 1 /\ tt \in Seq(V) /\ tt[n + 1] = s
      /\ \A i \in 1 .. n : tt[i] = ss[i]
  BY <1>0, AppendProperties
<1>5. ss \in Seq(V) /\ <<s>> \in Seq(V) /\ Len(<<s>>) = 1 /\ tt = ss \o <<s>>
  BY AppendIsConcat
<1>. DEFINE p == [i \in 1 .. n + 2 |-> IF i = n + 2 THEN o[n + 1] + m ELSE o[i]]
<1>6. /\ p \in [1 .. n + 2 -> Nat] /\ p[n + 2] = o[n + 1] + m
      /\ \A i \in 1 .. n + 1 : p[i] = o[i]
  <2>1. \A i \in 1 .. n + 1 : o[i] \in Nat /\ i # n + 2 /\ i \in 1 .. n + 2
    BY <1>1
  <2>. QED
    BY <1>3, <2>1
<1>. HIDE DEF p, F, tt
<1>7. Offsets(p, tt)
  <2>1. o[1] = 0 /\ \A i \in 1 .. n : o[i + 1] = o[i] + Len(ss[i])
    BY <1>0, <1>1 DEF Offsets
  <2>2. p[1] = 0
    BY <1>6, <2>1
  <2>3. ASSUME NEW i \in 1 .. n + 1 PROVE p[i + 1] = p[i] + Len(tt[i])
    <3>1. CASE i = n + 1
      <4>1. i + 1 = n + 2
        BY <3>1
      <4>. QED
        BY <1>0, <1>4, <1>6, <3>1, <4>1
    <3>2. CASE i # n + 1
      <4>1. i \in 1 .. n /\ i + 1 \in 1 .. n + 1
        BY <3>2
      <4>. QED
        BY <1>4, <1>6, <2>1, <4>1
    <3>. QED
      BY <3>1, <3>2
  <2>. QED
    BY <1>4, <2>2, <2>3 DEF Offsets
<1>8. \A i \in 1 .. n + 1 : \A j \in i - 1 .. n :
         /\ o[i] <= o[j + 1]
         /\ FlattenSeq(SubSeq(ss, i, j)) = SubSeq(F, o[i] + 1, o[j + 1])
  BY <1>0, <1>1 DEF Parts, F
<1>9. ASSUME NEW i \in 1 .. n + 2, NEW j \in i - 1 .. n + 1
      PROVE  /\ p[i] <= p[j + 1]
             /\ FlattenSeq(SubSeq(tt, i, j)) = SubSeq(F \o s, p[i] + 1, p[j + 1])
  <2>1. CASE j <= n
    <3>1. i \in 1 .. n + 1 /\ j \in i - 1 .. n /\ j + 1 \in 1 .. n + 1 /\ j \in i - 1 .. Len(ss) /\ i \in 1 .. Len(ss) + 1
      BY <1>0, <2>1
    <3>2. p[i] = o[i] /\ p[j + 1] = o[j + 1] /\ o[i] <= o[j + 1] /\ o[i] \in Nat /\ o[j + 1] \in Nat
      BY <1>1, <1>6, <1>8, <3>1
    <3>3. o[j + 1] <= o[n + 1]
      <4>1. j + 1 \in 1 .. n + 1 /\ n \in (j + 1) - 1 .. n
        BY <3>1
      <4>. QED
        BY <1>8, <4>1
    <3>4. SubSeq(tt, i, j) = SubSeq(ss, i, j)
      BY <1>5, <3>1, SubSeqConcat, Zenon
    <3>5. PICK a \in 1 .. Len(F) + 1, b \in Nat : a = o[i] + 1 /\ b = o[j + 1] /\ b >= a - 1 /\ b <= Len(F)
      <4>1. o[i] + 1 \in 1 .. Len(F) + 1 /\ o[j + 1] >= (o[i] + 1) - 1 /\ o[j + 1] <= Len(F)
        BY <1>3, <3>2, <3>3
      <4>. QED
        BY <3>2, <4>1
    <3>6. SubSeq(F \o s, a, b) = SubSeq(F, a, b)
      <4>1. b \in a - 1 .. Len(F)
        BY <1>3, <3>5
      <4>. QED
        BY <1>2, <4>1, SubSeqConcat
    <3>. QED
      BY <1>8, <3>1, <3>2, <3>4, <3>5, <3>6
  <2>2. CASE j = n + 1 /\ i <= n + 1
    <3>1. /\ p[i] = o[i] /\ p[j + 1] = o[n + 1] + m /\ o[i] \in Nat
      <4>1. j + 1 = n + 2 /\ i \in 1 .. n + 1
        BY <2>2
      <4>. QED
        BY <1>1, <1>6, <4>1
    <3>2. i \in 1 .. n + 1 /\ n \in i - 1 .. n
      BY <2>2
    <3>3. o[i] <= o[n + 1] /\ FlattenSeq(SubSeq(ss, i, n)) = SubSeq(F, o[i] + 1, o[n + 1])
      BY <1>8, <3>2
    <3>4. FlattenSeq(SubSeq(tt, i, n + 1)) = FlattenSeq(SubSeq(ss, i, n)) \o s
      <4>1. PICK u \in Seq(V) : u = <<s>> /\ Len(u) = 1
        BY <1>5
      <4>2. i \in 1 .. Len(ss) + 1
        BY <1>0, <3>2
      <4>3. SubSeq(ss \o u, i, Len(ss) + Len(u)) = SubSeq(ss, i, Len(ss)) \o u
        BY <1>5, <4>2, SubSeqConcat
      <4>4. SubSeq(tt, i, n + 1) = SubSeq(ss, i, n) \o <<s>>
        BY <1>0, <1>5, <4>1, <4>3
      <4>5. SubSeq(ss, i, n) \in Seq(V)
        <5>1. i \in Int /\ n \in Int /\ \A k \in i .. n : ss[k] \in V
          BY <1>0, <3>2, ElementOfSeq
        <5>. QED
          BY <5>1, SubSeqProperties
      <4>6. SubSeq(tt, i, n + 1) = Append(SubSeq(ss, i, n), s)
        BY <4>4, <4>5, AppendIsConcat
      <4>. QED
        BY <4>5, <4>6, FlattenAppend
    <3>5. PICK a \in 1 .. Len(F) + 1 : a = o[i] + 1
      BY <1>3, <3>1, <3>3
    <3>6. SubSeq(F \o s, a, Len(F) + Len(s)) = SubSeq(F, a, Len(F)) \o s
      BY <1>2, SubSeqConcat
    <3>7. SubSeq(F \o s, p[i] + 1, p[j + 1]) = SubSeq(F, o[i] + 1, o[n + 1]) \o s
      BY <1>0, <1>3, <3>1, <3>5, <3>6
    <3>8. p[i] <= p[j + 1]
      BY <1>3, <3>1, <3>3
    <3>. QED
      BY <2>2, <3>3, <3>4, <3>7, <3>8
  <2>3. CASE i = n + 2
    <3>1. j = n + 1 /\ j + 1 = n + 2 /\ i \in Int /\ j \in Int /\ j < i
      BY <2>3
    <3>2. SubSeq(tt, i, j) = <<>>
      BY <3>1, SubSeqEmpty
    <3>3. p[i] = p[j + 1] /\ p[i] \in Nat
      BY <1>6, <2>3, <3>1
    <3>4. PICK a \in Int, b \in Int : a = p[i] + 1 /\ b = p[j + 1] /\ b < a
      BY <3>3
    <3>5. SubSeq(F \o s, a, b) = <<>>
      BY <3>4, SubSeqEmpty
    <3>6. FlattenSeq(SubSeq(tt, i, j)) = <<>>
      BY <3>2, FlattenEmpty, Zenon
    <3>7. SubSeq(F \o s, p[i] + 1, p[j + 1]) = <<>>
      BY <3>4, <3>5, Zenon
    <3>. QED
      BY <3>3, <3>6, <3>7
  <2>4. j <= n \/ (j = n + 1 /\ i <= n + 1) \/ i = n + 2
    OBVIOUS
  <2>. QED
    BY <2>1, <2>2, <2>3, <2>4
<1>10. Parts(p, tt)
  <2>1. Len(F \o s) = p[n + 2]
    <3>1. Len(F \o s) = Len(F) + Len(s)
      BY <1>2, ConcatProperties
    <3>. QED
      BY <1>0, <1>3, <1>6, <3>1
  <2>2. n + 1 + 1 = n + 2
    OBVIOUS
  <2>. QED
    BY <1>2, <1>4, <1>9, <2>1, <2>2 DEF Parts
<1>. QED
  <2>1. n + 1 + 1 = n + 2
    OBVIOUS
  <2>. QED
    BY <1>4, <1>6, <1>7, <1>10, <2>1 DEF Placed, tt

LEMMA PiecesPlaced ==
  ASSUME NEW S, NEW ss \in Seq(Seq(S))
  PROVE  Placed(ss)
<1>. DEFINE V == Seq(S)  T == {tt \in Seq(V) : Placed(tt)}
<1>1. <<>> \in T
  BY PlacedEmpty, EmptySeq
<1>2. ASSUME NEW tt \in Seq(V), NEW e \in V, tt \in T PROVE Append(tt, e) \in T
  <2>1. Placed(Append(tt, e))
    BY <1>2, PlacedAppend
  <2>. QED
    BY <2>1, AppendProperties
<1>3. Seq(V) \subseteq T
  <2>. HIDE DEF T, V
  <2>. QED
    BY <1>1, <1>2, SequenceInduction
<1>. QED
  BY <1>3

LEMMA PieceAt ==
  ASSUME NEW ss, NEW n \in Nat, n = Len(ss), NEW o \in [1 .. n + 1 -> Nat], Offsets(o, ss), NEW x \in 1 .. o[n + 1]
  PROVE  \E k \in 1 .. n : o[k] < x /\ x <= o[k + 1]
<1>. DEFINE T == {k \in 1 .. n + 1 : x <= o[k]}
<1>1. n + 1 \in T /\ T \subseteq Nat
  OBVIOUS
<1>2. PICK k \in T : \A j \in T : k <= j
  <2>. HIDE DEF T
  <2>. QED
    BY <1>1, NatMinimum
<1>3. k # 1
  BY DEF Offsets
<1>4. PICK j \in 1 .. n : j + 1 = k
  <2>1. k - 1 \in 1 .. n /\ (k - 1) + 1 = k
    BY <1>3
  <2>. QED
    BY <2>1
<1>5. ~(x <= o[j])
  BY <1>2, <1>4
<1>. QED
  BY <1>2, <1>4, <1>5

LEMMA OffsetsGrow ==
  ASSUME NEW ss, NEW n \in Nat, n = Len(ss), NEW o \in [1 .. n + 1 -> Nat], Parts(o, ss),
         NEW i \in 1 .. n + 1, NEW k \in i .. n + 1
  PROVE  o[i] <= o[k]
<1>1. i \in 1 .. Len(ss) + 1 /\ k - 1 \in i - 1 .. Len(ss) /\ (k - 1) + 1 = k
  OBVIOUS
<1>2. o[i] <= o[(k - 1) + 1]
  BY <1>1 DEF Parts
<1>. QED
  BY <1>1, <1>2

LEMMA FlattenOne ==
  ASSUME NEW S, NEW s \in Seq(S)
  PROVE  FlattenSeq(<<s>>) = s
<1>1. Append(<<>>, s) = <<s>> /\ <<>> \in Seq(Seq(S))
  OBVIOUS
<1>2. FlattenSeq(Append(<<>>, s)) = FlattenSeq(<<>>) \o s
  BY <1>1, FlattenAppend
<1>3. <<>> \o s = s
  BY ConcatEmptySeq
<1>. QED
  BY <1>1, <1>2, <1>3, FlattenEmpty, Zenon
=============================================================================
