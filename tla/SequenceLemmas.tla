--------------------------- MODULE SequenceLemmas ---------------------------
(***************************************************************************)
(* What the operators of SequencesExt return that the models use on        *)
(* queues and histories, and what takes the place of an induction that has *)
(* an operator for a parameter: the facts that more than one component's   *)
(* proofs rest on.                                                         *)
(***************************************************************************)
EXTENDS Naturals, Sequences, SequencesExt, SequenceTheorems, WellFoundedInduction, TLAPS

\* A set of numbers that is not empty has a smallest one.
LEMMA SmallestOf ==
    ASSUME NEW T \in SUBSET Nat, T # {}
    PROVE  \E x \in T : \A y \in T : x <= y
<1> DEFINE R == OpToRel(<, Nat)
<1>1. \A x, y \in Nat : x < y => <<x, y>> \in R
  BY DEF OpToRel
<1>2. IsWellFoundedOn(R, Nat)
  BY NatLessThanWellFounded
<1> HIDE DEF R
<1>3. PICK x \in T : \A y \in T : <<y, x>> \notin R
  BY <1>2, WFMin
<1>4. ASSUME NEW y \in T PROVE x <= y
  <2>1. x \in Nat /\ y \in Nat /\ <<y, x>> \notin R
    BY <1>3
  <2>2. ~ (y < x)
    BY <1>1, <2>1
  <2> QED
    BY <2>1, <2>2
<1> QED
  BY <1>4

\* Induction up to n: what holds of 0, and of each number if of the one before.
LEMMA UpTo ==
    ASSUME NEW n \in Nat, NEW A, 0 \in A, \A i \in 1 .. n : i - 1 \in A => i \in A
    PROVE  \A i \in 0 .. n : i \in A
<1> DEFINE T == {i \in 0 .. n : i \notin A}
<1> SUFFICES ASSUME T # {}
             PROVE  FALSE
  OBVIOUS
<1>1. PICK i \in T : \A k \in T : i <= k
  <2>1. T \in SUBSET Nat
    OBVIOUS
  <2> HIDE DEF T
  <2> QED
    BY <2>1, SmallestOf
<1>2. i \in 1 .. n /\ i - 1 \in 0 .. n /\ i - 1 \notin T
  BY <1>1
<1> QED
  BY <1>1, <1>2

\* What is done n times over has a value after each time.
IsIteration(g, S, n, start, f) ==
    /\ g \in [0 .. n -> S]
    /\ g[0] = start /\ \A i \in 1 .. n : g[i] = f[i][g[i - 1]]

LEMMA Iterates ==
    ASSUME NEW S, NEW n \in Nat, NEW start \in S, NEW f \in [1 .. n -> [S -> S]]
    PROVE  \E g : IsIteration(g, S, n, start, f)
<1> DEFINE Has(m) == \E g \in [0 .. m -> S] :
                       g[0] = start /\ \A i \in 1 .. m : g[i] = f[i][g[i - 1]]
           A == {m \in 0 .. n : Has(m)}
<1>1. Has(0)
  <2> DEFINE g == [i \in 0 .. 0 |-> start]
  <2>1. g \in [0 .. 0 -> S] /\ g[0] = start
    OBVIOUS
  <2> HIDE DEF g
  <2> QED
    BY <2>1
<1>2. ASSUME NEW m \in 1 .. n, Has(m - 1)
      PROVE  Has(m)
  <2>1. PICK h \in [0 .. m - 1 -> S] :
          h[0] = start /\ \A i \in 1 .. m - 1 : h[i] = f[i][h[i - 1]]
    BY <1>2
  <2> DEFINE g == [i \in 0 .. m |-> IF i = m THEN f[m][h[m - 1]] ELSE h[i]]
  <2>2. h[m - 1] \in S /\ f[m] \in [S -> S]
    OBVIOUS
  <2>3. g \in [0 .. m -> S]
    BY <2>2
  <2>4. g[m] = f[m][h[m - 1]] /\ \A i \in 0 .. m - 1 : g[i] = h[i]
    OBVIOUS
  <2> HIDE DEF g
  <2>5. g[0] = start /\ \A i \in 1 .. m : g[i] = f[i][g[i - 1]]
    <3>1. g[0] = start
      BY <2>1, <2>4
    <3>2. ASSUME NEW i \in 1 .. m
          PROVE  g[i] = f[i][g[i - 1]]
      <4>1. CASE i = m
        BY <2>4, <4>1
      <4>2. CASE i # m
        <5>1. i \in 1 .. m - 1 /\ i - 1 \in 0 .. m - 1 /\ i \in 0 .. m - 1
          BY <4>2
        <5> QED
          BY <2>1, <2>4, <5>1
      <4> QED
        BY <4>1, <4>2
    <3> QED
      BY <3>1, <3>2
  <2> QED
    BY <2>3, <2>5
<1> HIDE DEF Has
<1>3. 0 \in A /\ \A i \in 1 .. n : i - 1 \in A => i \in A
  BY <1>1, <1>2
<1>4. n \in 0 .. n
  OBVIOUS
<1> HIDE DEF A
<1>5. \A i \in 0 .. n : i \in A
  BY <1>3, UpTo
<1>6. n \in A
  BY <1>4, <1>5
<1> QED
  BY <1>6 DEF A, Has, IsIteration

\* What a concatenation has.
LEMMA ConcatIs ==
    ASSUME NEW S, NEW s \in Seq(S), NEW t \in Seq(S)
    PROVE  /\ s \o t \in Seq(S) /\ Len(s \o t) = Len(s) + Len(t)
           /\ \A i \in 1 .. Len(s) : (s \o t)[i] = s[i]
           /\ \A i \in 1 .. Len(t) : (s \o t)[Len(s) + i] = t[i]
  OBVIOUS

\* A sequence that another one agrees with as far as it goes is a prefix of it.
LEMMA PrefixBy ==
    ASSUME NEW S, NEW s \in Seq(S), NEW t \in Seq(S),
           Len(s) <= Len(t), \A i \in 1 .. Len(s) : s[i] = t[i]
    PROVE  IsPrefix(s, t)
<1>1. Len(s) \in Nat /\ Len(t) \in Nat
  OBVIOUS
<1>2. SubSeq(s, 1, Len(s)) \in Seq(S) /\ SubSeq(t, 1, Len(s)) \in Seq(S)
  BY <1>1
<1>3. Len(SubSeq(s, 1, Len(s))) = Len(s) /\ Len(SubSeq(t, 1, Len(s))) = Len(s)
  BY <1>1
<1>4. \A i \in 1 .. Len(s) : SubSeq(s, 1, Len(s))[i] = SubSeq(t, 1, Len(s))[i]
  BY <1>1
<1>5. SubSeq(s, 1, Len(s)) = SubSeq(t, 1, Len(s))
  BY <1>2, <1>3, <1>4, SeqEqual
<1> QED
  BY <1>5 DEF IsPrefix

\* What a reversed sequence has.
LEMMA ReverseIs ==
    ASSUME NEW S, NEW s \in Seq(S)
    PROVE  /\ Reverse(s) \in Seq(S) /\ Len(Reverse(s)) = Len(s)
           /\ \A i \in 1 .. Len(s) : Reverse(s)[i] = s[Len(s) - i + 1]
<1>1. Len(s) \in Nat /\ \A i \in 1 .. Len(s) : s[i] \in S
  OBVIOUS
<1>2. \A i \in 1 .. Len(s) : Len(s) - i + 1 \in 1 .. Len(s)
  BY <1>1
<1>3. Reverse(s) \in [1 .. Len(s) -> S]
  BY <1>1, <1>2 DEF Reverse
<1> QED
  BY <1>1, <1>3 DEF Reverse

\* The same from the ends of the two.
LEMMA SuffixBy ==
    ASSUME NEW S, NEW s \in Seq(S), NEW t \in Seq(S), Len(s) <= Len(t),
           \A i \in 1 .. Len(s) : s[i] = t[Len(t) - Len(s) + i]
    PROVE  IsSuffix(s, t)
<1>1. Len(s) \in Nat /\ Len(t) \in Nat
  OBVIOUS
<1>2. ASSUME NEW i \in 1 .. Len(s)
      PROVE  Reverse(s)[i] = Reverse(t)[i]
  <2>1. Len(s) - i + 1 \in 1 .. Len(s) /\ i \in 1 .. Len(t)
    BY <1>1
  <2>2. Len(t) - Len(s) + (Len(s) - i + 1) = Len(t) - i + 1
    BY <1>1
  <2>3. s[Len(s) - i + 1] = t[Len(t) - i + 1]
    BY <2>1, <2>2
  <2> QED
    BY <2>1, <2>3, ReverseIs
<1>3. /\ Reverse(s) \in Seq(S) /\ Reverse(t) \in Seq(S)
      /\ Len(Reverse(s)) = Len(s) /\ Len(Reverse(t)) = Len(t)
  BY ReverseIs
<1>4. IsPrefix(Reverse(s), Reverse(t))
  BY <1>2, <1>3, PrefixBy
<1> QED
  BY <1>4 DEF IsSuffix

\* What is left of a sequence without one of its elements.
LEMMA RemoveAtIs ==
    ASSUME NEW S, NEW s \in Seq(S), NEW n \in 1 .. Len(s)
    PROVE  /\ RemoveAt(s, n) \in Seq(S) /\ Len(RemoveAt(s, n)) = Len(s) - 1
           /\ \A i \in 1 .. Len(s) - 1 : RemoveAt(s, n)[i] = IF i < n THEN s[i] ELSE s[i + 1]
<1> DEFINE a == SubSeq(s, 1, n - 1)
           b == SubSeq(s, n + 1, Len(s))
<1>1. Len(s) \in Nat /\ n \in Nat
  OBVIOUS
<1>2. /\ a \in Seq(S) /\ Len(a) = n - 1
      /\ \A i \in 1 .. n - 1 : a[i] = s[i]
  OBVIOUS
<1>3. /\ b \in Seq(S) /\ Len(b) = Len(s) - n
      /\ \A i \in 1 .. Len(s) - n : b[i] = s[n + i]
  OBVIOUS
<1> HIDE DEF a, b
<1>4. /\ a \o b \in Seq(S) /\ Len(a \o b) = Len(a) + Len(b)
      /\ \A i \in 1 .. Len(a) : (a \o b)[i] = a[i]
      /\ \A i \in 1 .. Len(b) : (a \o b)[Len(a) + i] = b[i]
  <2>1. a \in Seq(S) /\ b \in Seq(S)
    BY <1>2, <1>3
  <2> QED
    BY <2>1, ConcatIs
<1>5. ASSUME NEW i \in 1 .. Len(s) - 1
      PROVE  (a \o b)[i] = IF i < n THEN s[i] ELSE s[i + 1]
  <2>1. CASE i < n
    <3>1. i \in 1 .. n - 1
      BY <1>1, <2>1
    <3> QED
      BY <1>2, <1>4, <2>1, <3>1
  <2>2. CASE ~ (i < n)
    <3>1. /\ i - (n - 1) \in 1 .. Len(s) - n /\ (n - 1) + (i - (n - 1)) = i
          /\ n + (i - (n - 1)) = i + 1
      BY <1>1, <2>2
    <3>2. (a \o b)[(n - 1) + (i - (n - 1))] = b[i - (n - 1)]
      BY <1>2, <1>3, <1>4, <3>1
    <3>3. b[i - (n - 1)] = s[n + (i - (n - 1))]
      BY <1>3, <3>1
    <3> QED
      BY <2>2, <3>1, <3>2, <3>3
  <2> QED
    BY <2>1, <2>2
<1>6. Len(a \o b) = Len(s) - 1
  BY <1>1, <1>2, <1>3, <1>4
<1> QED
  BY <1>4, <1>5, <1>6 DEF RemoveAt, a, b

\* The concatenation of the first sequences of a sequence of sequences.
IsFlattening(h, S, seqs) ==
    /\ h[0] = <<>>
    /\ \A i \in 1 .. Len(seqs) : h[i] = h[i - 1] \o seqs[i]
    /\ \A i \in 0 .. Len(seqs) : h[i] \in Seq(S)

LEMMA FlattenIs ==
    ASSUME NEW S, NEW seqs \in Seq(Seq(S))
    PROVE  \E h : IsFlattening(h, S, seqs) /\ FlattenSeq(seqs) = h[Len(seqs)]
<1> DEFINE n == Len(seqs)
           f == [i \in 1 .. n |-> [s \in Seq(S) |-> s \o seqs[i]]]
           Eq(g) == g = [i \in 1 .. n |-> IF i = 1 THEN seqs[i] ELSE g[i - 1] \o seqs[i]]
           all == CHOOSE g : Eq(g)
<1>1. n \in Nat /\ \A i \in 1 .. n : seqs[i] \in Seq(S)
  OBVIOUS
<1>2. f \in [1 .. n -> [Seq(S) -> Seq(S)]]
  <2>1. ASSUME NEW i \in 1 .. n, NEW s \in Seq(S)
        PROVE  s \o seqs[i] \in Seq(S)
    <3>1. seqs[i] \in Seq(S)
      BY <1>1
    <3> QED
      BY <3>1
  <2> HIDE DEF n
  <2> QED
    BY <2>1
<1>3. <<>> \in Seq(S)
  OBVIOUS
<1>4. PICK g : IsIteration(g, Seq(S), n, <<>>, f)
  <2> HIDE DEF f, n
  <2> QED
    BY <1>1, <1>2, <1>3, Iterates
<1>5. /\ g[0] = <<>> /\ \A i \in 0 .. n : g[i] \in Seq(S)
      /\ \A i \in 1 .. n : g[i] = g[i - 1] \o seqs[i]
  <2> HIDE DEF n
  <2>1. g[0] = <<>> /\ g \in [0 .. n -> Seq(S)] /\ \A i \in 1 .. n : g[i] = f[i][g[i - 1]]
    BY <1>4 DEF IsIteration
  <2>2. ASSUME NEW i \in 1 .. n
        PROVE  g[i] = g[i - 1] \o seqs[i]
    <3>1. i - 1 \in 0 .. n
      BY <1>1
    <3>2. g[i - 1] \in Seq(S)
      BY <2>1, <3>1
    <3> QED
      BY <2>1, <3>2
  <2> HIDE DEF f
  <2> QED
    BY <2>1, <2>2
<1> HIDE DEF f
<1>6. CASE n = 0
  <2>1. FlattenSeq(seqs) = <<>>
    BY <1>6 DEF FlattenSeq
  <2> QED
    BY <1>5, <1>6, <2>1 DEF IsFlattening
<1>7. CASE n # 0
  <2> DEFINE h == [i \in 1 .. n |-> g[i]]
  <2>1. Eq(h)
    <3> HIDE DEF n
    <3>1. ASSUME NEW i \in 1 .. n
          PROVE  h[i] = IF i = 1 THEN seqs[i] ELSE h[i - 1] \o seqs[i]
      <4>1. h[i] = g[i - 1] \o seqs[i]
        BY <1>5
      <4>2. CASE i = 1
        <5>1. <<>> \o seqs[i] = seqs[i]
          BY <1>1, ConcatEmptySeq
        <5>2. g[i - 1] = <<>>
          BY <1>5, <4>2
        <5> QED
          BY <4>1, <4>2, <5>1, <5>2, Zenon
      <4>3. CASE i # 1
        <5>1. i - 1 \in 1 .. n
          BY <1>1, <4>3
        <5> QED
          BY <4>1, <4>3, <5>1
      <4> QED
        BY <4>2, <4>3
    <3>2. h = [i \in 1 .. n |-> h[i]]
      OBVIOUS
    <3> HIDE DEF h
    <3> QED
      BY <3>1, <3>2, Zenon
  <2>2. Eq(all)
    <3> HIDE DEF Eq, h
    <3> QED
      BY <2>1
  <2>3. FlattenSeq(seqs) = all[n]
    BY <1>7, Zenon DEF FlattenSeq
  <2> HIDE DEF all, n
  <2>4. \A i \in 1 .. n : all[i] = IF i = 1 THEN seqs[i] ELSE all[i - 1] \o seqs[i]
    BY <2>2, Zenon
  <2> DEFINE A == {i \in 0 .. n : i # 0 => all[i] = g[i]}
  <2>5. 0 \in A
    BY <1>1
  <2>6. ASSUME NEW i \in 1 .. n, i - 1 \in A
        PROVE  i \in A
    <3>1. CASE i = 1
      <4>1. <<>> \o seqs[i] = seqs[i]
        BY <1>1, ConcatEmptySeq
      <4>2. g[i - 1] = <<>>
        BY <1>5, <3>1
      <4>3. all[i] = g[i]
        BY <1>5, <2>4, <3>1, <4>1, <4>2, Zenon
      <4> QED
        BY <1>1, <4>3
    <3>2. CASE i # 1
      <4>1. all[i] = all[i - 1] \o seqs[i] /\ g[i] = g[i - 1] \o seqs[i]
        BY <1>5, <2>4, <3>2, Zenon
      <4>2. all[i - 1] = g[i - 1]
        BY <1>1, <2>6, <3>2
      <4>3. all[i] = g[i]
        BY <4>1, <4>2, Zenon
      <4> QED
        BY <1>1, <4>3
    <3> QED
      BY <3>1, <3>2
  <2>7. n \in A
    <3> HIDE DEF A
    <3>1. n \in 0 .. n
      BY <1>1
    <3> QED
      BY <1>1, <2>5, <2>6, <3>1, UpTo
  <2>8. FlattenSeq(seqs) = g[n]
    BY <1>7, <2>3, <2>7
  <2> QED
    BY <1>5, <2>8 DEF IsFlattening, n
<1> QED
  BY <1>6, <1>7

\* The concatenation is the one that runs through the same sequences.
LEMMA FlattenUnique ==
    ASSUME NEW S, NEW seqs \in Seq(Seq(S)), NEW h,
           h[0] = <<>>, \A i \in 1 .. Len(seqs) : h[i] = h[i - 1] \o seqs[i]
    PROVE  FlattenSeq(seqs) = h[Len(seqs)]
<1> DEFINE n == Len(seqs)
<1>1. PICK g : IsFlattening(g, S, seqs) /\ FlattenSeq(seqs) = g[n]
  BY FlattenIs
<1>2. n \in Nat /\ n \in 0 .. n
  OBVIOUS
<1> DEFINE A == {i \in 0 .. n : g[i] = h[i]}
<1>3. 0 \in A /\ \A i \in 1 .. n : i - 1 \in A => i \in A
  <2>1. 0 \in 0 .. n /\ \A i \in 1 .. n : i \in 0 .. n
    BY <1>2
  <2>2. ASSUME NEW i \in 1 .. n, g[i - 1] = h[i - 1]
        PROVE  g[i] = h[i]
    BY <1>1, <2>2, Zenon DEF IsFlattening
  <2> HIDE DEF n
  <2> QED
    BY <1>1, <2>1, <2>2, Zenon DEF IsFlattening
<1>4. n \in A
  <2> HIDE DEF A, n
  <2> QED
    BY <1>2, <1>3, UpTo
<1> QED
  BY <1>1, <1>4

LEMMA FlattenTyped ==
    ASSUME NEW S, NEW seqs \in Seq(Seq(S))
    PROVE  FlattenSeq(seqs) \in Seq(S)
<1>1. PICK g : IsFlattening(g, S, seqs) /\ FlattenSeq(seqs) = g[Len(seqs)]
  BY FlattenIs
<1>2. Len(seqs) \in 0 .. Len(seqs)
  OBVIOUS
<1> QED
  BY <1>1, <1>2 DEF IsFlattening

\* Flattening undoes what puts each element in a sequence of its own.
LEMMA FlattenSingles ==
    ASSUME NEW S, NEW list \in Seq(S)
    PROVE  FlattenSeq([i \in DOMAIN list |-> <<list[i]>>]) = list
<1> DEFINE n == Len(list)
           seqs == [i \in DOMAIN list |-> <<list[i]>>]
           h == [i \in 0 .. n |-> SubSeq(list, 1, i)]
<1>1. n \in Nat /\ DOMAIN list = 1 .. n
  OBVIOUS
<1>2. /\ seqs \in Seq(Seq(S)) /\ Len(seqs) = n
      /\ \A i \in 1 .. n : seqs[i] = <<list[i]>>
  <2>1. \A i \in 1 .. n : <<list[i]>> \in Seq(S)
    OBVIOUS
  <2> QED
    BY <1>1, <2>1
<1>3. /\ h \in [0 .. n -> Seq(S)] /\ h[0] = <<>> /\ h[n] = list
      /\ \A i \in 1 .. n : h[i] = h[i - 1] \o <<list[i]>>
  <2>1. h \in [0 .. n -> Seq(S)]
    OBVIOUS
  <2>2. h[0] = <<>> /\ h[n] = list
    BY <1>1
  <2>3. ASSUME NEW i \in 1 .. n
        PROVE  h[i] = h[i - 1] \o <<list[i]>>
    <3>1. h[i] = SubSeq(list, 1, i) /\ h[i - 1] = SubSeq(list, 1, i - 1)
      BY <1>1
    <3>2. SubSeq(list, 1, i) = SubSeq(list, 1, i - 1) \o <<list[i]>>
      BY <1>1
    <3> QED
      BY <3>1, <3>2
  <2> QED
    BY <2>1, <2>2, <2>3
<1> HIDE DEF seqs, h
<1> HIDE DEF n
<1>4. \A i \in 1 .. Len(seqs) : h[i] = h[i - 1] \o seqs[i]
  BY <1>2, <1>3, Zenon
<1>5. FlattenSeq(seqs) = h[Len(seqs)]
  BY <1>2, <1>3, <1>4, FlattenUnique, Zenon
<1> QED
  BY <1>2, <1>3, <1>5, Zenon DEF seqs

LEMMA FlattenEmpty == FlattenSeq(<<>>) = <<>>
<1> DEFINE S == {}
<1>1. <<>> \in Seq(Seq(S)) /\ Len(<<>>) = 0
  BY EmptySeq
<1>2. PICK h : IsFlattening(h, S, <<>>) /\ FlattenSeq(<<>>) = h[Len(<<>>)]
  BY <1>1, FlattenIs
<1> QED
  BY <1>1, <1>2 DEF IsFlattening

LEMMA FlattenAppend ==
    ASSUME NEW S, NEW seqs \in Seq(Seq(S)), NEW e \in Seq(S)
    PROVE  /\ FlattenSeq(seqs) \in Seq(S)
           /\ FlattenSeq(Append(seqs, e)) = FlattenSeq(seqs) \o e
<1> DEFINE n == Len(seqs)
           more == Append(seqs, e)
<1>1. PICK g : IsFlattening(g, S, seqs) /\ FlattenSeq(seqs) = g[n]
  BY FlattenIs
<1>2. /\ more \in Seq(Seq(S)) /\ Len(more) = n + 1 /\ more[n + 1] = e /\ n \in Nat
      /\ \A i \in 1 .. n : more[i] = seqs[i]
  OBVIOUS
<1> HIDE DEF more
<1> DEFINE h == [i \in 0 .. n + 1 |-> IF i = n + 1 THEN g[n] \o e ELSE g[i]]
<1>3. h[0] = <<>> /\ h[n + 1] = g[n] \o e
  BY <1>1, <1>2 DEF IsFlattening
<1>4. ASSUME NEW i \in 1 .. Len(more)
      PROVE  h[i] = h[i - 1] \o more[i]
  <2>1. i - 1 \in 0 .. n + 1 /\ i - 1 # n + 1
    BY <1>2
  <2>2. h[i - 1] = g[i - 1]
    BY <2>1
  <2>3. CASE i = n + 1
    <3>1. i - 1 = n /\ more[i] = e
      BY <1>2, <2>3
    <3> HIDE DEF h, n
    <3> QED
      BY <1>3, <2>2, <2>3, <3>1, Zenon
  <2>4. CASE i # n + 1
    <3>1. i \in 1 .. n /\ i \in 0 .. n + 1
      BY <1>2, <2>4
    <3>2. h[i] = g[i]
      BY <2>4, <3>1
    <3> QED
      BY <1>1, <1>2, <2>2, <3>1, <3>2 DEF IsFlattening
  <2> QED
    BY <2>3, <2>4
<1>5. FlattenSeq(more) = h[n + 1]
  <2> HIDE DEF h
  <2> QED
    BY <1>2, <1>3, <1>4, FlattenUnique
<1>6. g[n] \in Seq(S)
  BY <1>1, <1>2 DEF IsFlattening
<1> QED
  BY <1>1, <1>3, <1>5, <1>6 DEF more
=============================================================================
