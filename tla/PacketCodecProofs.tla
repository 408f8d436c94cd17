------------------------- MODULE PacketCodecProofs -------------------------
(***************************************************************************)
(* Theorems about PacketCodec, for words of any width and packets of any   *)
(* length.                                                                 *)
(***************************************************************************)
EXTENDS PacketCodec, SequenceLemmas

-----------------------------------------------------------------------------
(* Arithmetic of digits *)

LEMMA DivisionOf ==
    ASSUME NEW x \in Nat, NEW d \in Nat \ {0}
    PROVE  /\ x \div d \in Nat /\ x % d \in 0 .. d - 1
           /\ x = (x \div d) * d + (x % d)
  OBVIOUS

LEMMA DivisionIs ==
    ASSUME NEW d \in Nat \ {0}, NEW q \in Nat, NEW r \in 0 .. d - 1
    PROVE  (q * d + r) \div d = q /\ (q * d + r) % d = r
  OBVIOUS

LEMMA DivisionTwice ==
    ASSUME NEW x \in Nat, NEW a \in Nat \ {0}, NEW b \in Nat \ {0}
    PROVE  (x \div a) \div b = x \div (b * a)
  OBVIOUS

\* One more digit.
LEMMA DigitAdded ==
    ASSUME NEW b \in Nat \ {0}, NEW w \in Nat, NEW n \in 0 .. w - 1, NEW d \in 0 .. b - 1
    PROVE  n * b + d \in 0 .. b * w - 1
  OBVIOUS

LEMMA WeightIs ==
    /\ Weight \in [0 .. WordBytes -> Nat \ {0}]
    /\ Weight[0] = 1
    /\ \A n \in 1 .. WordBytes : Weight[n] = ByteModulus * Weight[n - 1]
<1> USE FormatAssumption
<1> DEFINE S == Nat \ {0}
           f == [i \in 1 .. WordBytes |-> [s \in S |-> ByteModulus * s]]
           Eq(w) == w = [n \in 0 .. WordBytes |-> IF n = 0 THEN 1 ELSE ByteModulus * w[n - 1]]
<1>1. f \in [1 .. WordBytes -> [S -> S]]
  OBVIOUS
<1>2. PICK g : IsIteration(g, S, WordBytes, 1, f)
  <2> HIDE DEF f
  <2>1. 1 \in S /\ WordBytes \in Nat
    OBVIOUS
  <2> HIDE DEF S
  <2> QED
    BY <1>1, <2>1, Iterates
<1> USE DEF IsIteration
<1>3. Eq(g)
  <2>1. ASSUME NEW i \in 0 .. WordBytes
        PROVE  g[i] = IF i = 0 THEN 1 ELSE ByteModulus * g[i - 1]
    <3>1. CASE i = 0
      BY <1>2, <3>1
    <3>2. CASE i # 0
      <4>1. i \in 1 .. WordBytes /\ i - 1 \in 0 .. WordBytes
        BY <3>2
      <4>2. g[i] = f[i][g[i - 1]] /\ g[i - 1] \in S
        BY <1>2, <4>1
      <4> QED
        BY <3>2, <4>1, <4>2
    <3> QED
      BY <3>1, <3>2
  <2>2. g = [i \in 0 .. WordBytes |-> g[i]]
    BY <1>2
  <2> QED
    BY <2>1, <2>2, Zenon
<1>4. Eq(Weight)
  <2>1. Weight = CHOOSE w : Eq(w)
    BY Zenon DEF Weight
  <2> HIDE DEF Eq
  <2> QED
    BY <1>3, <2>1
<1>5. /\ Weight[0] = 1
      /\ \A n \in 1 .. WordBytes : Weight[n] = ByteModulus * Weight[n - 1]
  <2>1. \A n \in 0 .. WordBytes : Weight[n] = IF n = 0 THEN 1 ELSE ByteModulus * Weight[n - 1]
    BY <1>4, Zenon
  <2>2. 0 \in 0 .. WordBytes /\ \A n \in 1 .. WordBytes : n \in 0 .. WordBytes /\ n # 0
    OBVIOUS
  <2> QED
    BY <2>1, <2>2, Zenon
<1> DEFINE A == {n \in 0 .. WordBytes : Weight[n] \in S}
<1>6. 0 \in A
  BY <1>5
<1>7. \A i \in 1 .. WordBytes : i - 1 \in A => i \in A
  BY <1>5
<1>8. \A i \in 0 .. WordBytes : i \in A
  <2> HIDE DEF A
  <2> QED
    BY <1>6, <1>7, UpTo
<1> QED
  BY <1>4, <1>5, <1>8

-----------------------------------------------------------------------------
(* Words *)

\* What WordAt runs through, byte by byte.
IsWord(w, bytes, offset) ==
    /\ w[0] = 0
    /\ \A i \in 1 .. WordBytes : w[i] = w[i - 1] * ByteModulus + bytes[offset + i]
    /\ \A i \in 0 .. WordBytes : w[i] \in 0 .. Weight[i] - 1

LEMMA WordRead ==
    ASSUME NEW bytes \in Seq(Byte), NEW offset \in Nat, CanRead(bytes, offset, WordBytes)
    PROVE  \E w : IsWord(w, bytes, offset) /\ WordAt(bytes, offset) = w[WordBytes]
<1> USE FormatAssumption
<1> DEFINE Longer(i, s) == s * ByteModulus + bytes[offset + i]
           f == [i \in 1 .. WordBytes |-> [s \in Nat |-> Longer(i, s)]]
           Eq(w) == w = [i \in 0 .. WordBytes |->
                           IF i = 0 THEN 0 ELSE w[i - 1] * ByteModulus + bytes[offset + i]]
           word == CHOOSE w : Eq(w)
<1>1. \A i \in 1 .. WordBytes : bytes[offset + i] \in Byte /\ bytes[offset + i] \in Nat
  BY DEF CanRead, Byte
<1>2. f \in [1 .. WordBytes -> [Nat -> Nat]]
  <2>1. ASSUME NEW i \in 1 .. WordBytes, NEW s \in Nat
        PROVE  Longer(i, s) \in Nat
    <3> DEFINE b == bytes[offset + i]
    <3>1. b \in Nat
      BY <1>1
    <3> HIDE DEF b
    <3>2. s * ByteModulus + b \in Nat
      BY <3>1
    <3> QED
      BY <3>2 DEF b
  <2> HIDE DEF Longer
  <2>2. \A i \in 1 .. WordBytes : [s \in Nat |-> Longer(i, s)] \in [Nat -> Nat]
    BY <2>1
  <2> QED
    BY <2>2, Zenon
<1>3. PICK g : IsIteration(g, Nat, WordBytes, 0, f)
  <2> HIDE DEF f
  <2> QED
    BY <1>2, Iterates
<1>4. Eq(g)
  <2>1. ASSUME NEW i \in 0 .. WordBytes
        PROVE  g[i] = IF i = 0 THEN 0 ELSE g[i - 1] * ByteModulus + bytes[offset + i]
    <3>1. CASE i = 0
      BY <1>3, <3>1 DEF IsIteration
    <3>2. CASE i # 0
      <4>1. i \in 1 .. WordBytes /\ i - 1 \in 0 .. WordBytes
        BY <3>2
      <4>2. g[i] = f[i][g[i - 1]] /\ g[i - 1] \in Nat
        BY <1>3, <4>1 DEF IsIteration
      <4> QED
        BY <3>2, <4>1, <4>2
    <3> QED
      BY <3>1, <3>2
  <2>2. g = [i \in 0 .. WordBytes |-> g[i]]
    BY <1>3 DEF IsIteration
  <2> QED
    BY <2>1, <2>2, Zenon
<1>5. Eq(word)
  <2> HIDE DEF Eq
  <2> QED
    BY <1>4
<1>6. WordAt(bytes, offset) = word[WordBytes]
  BY Zenon DEF WordAt
<1> HIDE DEF word
<1>7. /\ word[0] = 0
      /\ \A i \in 1 .. WordBytes : word[i] = word[i - 1] * ByteModulus + bytes[offset + i]
  <2>1. \A i \in 0 .. WordBytes :
          word[i] = IF i = 0 THEN 0 ELSE word[i - 1] * ByteModulus + bytes[offset + i]
    BY <1>5, Zenon
  <2>2. 0 \in 0 .. WordBytes /\ \A i \in 1 .. WordBytes : i \in 0 .. WordBytes /\ i # 0
    OBVIOUS
  <2> QED
    BY <2>1, <2>2, Zenon
<1> DEFINE A == {i \in 0 .. WordBytes : word[i] \in 0 .. Weight[i] - 1}
<1>8. 0 \in A
  BY SMTT(30), <1>7, WeightIs
<1>9. ASSUME NEW i \in 1 .. WordBytes, i - 1 \in A
      PROVE  i \in A
  <2>1. /\ Weight[i - 1] \in Nat /\ Weight[i] = ByteModulus * Weight[i - 1]
        /\ word[i - 1] \in 0 .. Weight[i - 1] - 1
    BY <1>9, WeightIs
  <2>2. word[i] = word[i - 1] * ByteModulus + bytes[offset + i]
    BY <1>7
  <2>3. bytes[offset + i] \in 0 .. ByteModulus - 1
    BY <1>1 DEF Byte
  <2>4. word[i] \in 0 .. ByteModulus * Weight[i - 1] - 1
    BY <2>1, <2>2, <2>3, DigitAdded
  <2> QED
    BY <2>1, <2>4
<1>10. \A i \in 0 .. WordBytes : i \in A
  <2> HIDE DEF A
  <2> QED
    BY <1>8, <1>9, UpTo
<1> QED
  BY <1>6, <1>7, <1>10 DEF IsWord

LEMMA WordsAre ==
    /\ WordModulus \in Nat \ {0} /\ WordBytes \in Nat \ {0}
    /\ Word \subseteq Nat /\ Byte \subseteq Nat
  BY FormatAssumption, WeightIs DEF WordModulus, Word, Byte

LEMMA WordAtIs ==
    ASSUME NEW bytes \in Seq(Byte), NEW offset \in Nat, CanRead(bytes, offset, WordBytes)
    PROVE  WordAt(bytes, offset) \in Word
<1>1. PICK w : IsWord(w, bytes, offset) /\ WordAt(bytes, offset) = w[WordBytes]
  BY WordRead
<1> QED
  BY <1>1, WordsAre DEF IsWord, Word, WordModulus

\* A word is told by its bytes.
LEMMA SameWord ==
    ASSUME NEW a \in Seq(Byte), NEW i \in Nat, CanRead(a, i, WordBytes),
           NEW b \in Seq(Byte), NEW j \in Nat, CanRead(b, j, WordBytes),
           \A k \in 1 .. WordBytes : a[i + k] = b[j + k]
    PROVE  WordAt(a, i) = WordAt(b, j)
<1>1. PICK v : IsWord(v, a, i) /\ WordAt(a, i) = v[WordBytes]
  BY WordRead
<1>2. PICK w : IsWord(w, b, j) /\ WordAt(b, j) = w[WordBytes]
  BY WordRead
<1> DEFINE A == {k \in 0 .. WordBytes : v[k] = w[k]}
<1>3. 0 \in A
  BY <1>1, <1>2, WordsAre DEF IsWord
<1>4. \A k \in 1 .. WordBytes : k - 1 \in A => k \in A
  BY <1>1, <1>2 DEF IsWord
<1>5. WordBytes \in 0 .. WordBytes
  BY WordsAre
<1> HIDE DEF A
<1>6. WordBytes \in A
  BY <1>3, <1>4, <1>5, UpTo, WordsAre
<1> QED
  BY <1>1, <1>2, <1>6 DEF A

\* Part of a sequence of bytes.
LEMMA PartIs ==
    ASSUME NEW bytes \in Seq(Byte), NEW offset \in Nat, NEW n \in Nat, CanRead(bytes, offset, n)
    PROVE  /\ BytesAt(bytes, offset, n) \in Seq(Byte)
           /\ Len(BytesAt(bytes, offset, n)) = n
           /\ \A i \in 1 .. n : BytesAt(bytes, offset, n)[i] = bytes[offset + i]
  BY SMTT(60) DEF BytesAt, CanRead

LEMMA WordOfPart ==
    ASSUME NEW bytes \in Seq(Byte), NEW offset \in Nat, NEW n \in Nat, CanRead(bytes, offset, n),
           NEW o \in Nat, o + WordBytes <= n
    PROVE  WordAt(BytesAt(bytes, offset, n), o) = WordAt(bytes, offset + o)
<1> DEFINE part == BytesAt(bytes, offset, n)
<1>1. /\ part \in Seq(Byte) /\ Len(part) = n
      /\ \A i \in 1 .. n : part[i] = bytes[offset + i]
  BY PartIs
<1> HIDE DEF part
<1>2. CanRead(part, o, WordBytes) /\ CanRead(bytes, offset + o, WordBytes) /\ offset + o \in Nat
  BY <1>1, WordsAre DEF CanRead
<1>3. ASSUME NEW k \in 1 .. WordBytes
      PROVE  part[o + k] = bytes[offset + o + k]
  <2>1. o + k \in 1 .. n /\ offset + (o + k) = offset + o + k
    BY WordsAre
  <2> QED
    BY <1>1, <2>1
<1>4. WordAt(part, o) = WordAt(bytes, offset + o)
  BY <1>1, <1>2, <1>3, SameWord
<1> QED
  BY <1>4 DEF part

-----------------------------------------------------------------------------
(* The loops *)

Offsets == Nat \cup {Ended}

LEMMA SkipIs ==
    ASSUME NEW offset \in Nat, NEW n \in Nat
    PROVE  /\ Skip(offset, n) \in Nat
           /\ offset + n < WordModulus => Skip(offset, n) = offset + n
  BY WordsAre DEF Skip

\* The offsets of the loop that validates the parameters of a command.
IsParameterOffsets(o, content, n) ==
    /\ o[0] = WordBytes
    /\ \A i \in 1 .. n : o[i] = ValidateParameter(content, o[i - 1])
    /\ \A i \in 0 .. n : o[i] \in Offsets

ParametersEnd(content, n) == Repeat(n, LAMBDA s : ValidateParameter(content, s), WordBytes)

LEMMA ParameterOffsets ==
    ASSUME NEW content \in Seq(Byte), NEW n \in Nat
    PROVE  \E o : IsParameterOffsets(o, content, n) /\ ParametersEnd(content, n) = o[n]
<1> DEFINE f == [i \in 1 .. n |-> [s \in Offsets |-> ValidateParameter(content, s)]]
           Eq(g) == g = [i \in 0 .. n |-> IF i = 0 THEN WordBytes ELSE ValidateParameter(content, g[i - 1])]
           o == CHOOSE g : Eq(g)
<1>1. WordBytes \in Offsets /\ \A s \in Offsets : ValidateParameter(content, s) \in Offsets
  <2>1. WordBytes \in Offsets
    BY WordsAre DEF Offsets
  <2>2. ASSUME NEW s \in Offsets
        PROVE  ValidateParameter(content, s) \in Offsets
    <3> DEFINE size == Skip(s, WordBytes)
    <3>1. CASE s # Ended /\ CanRead(content, size, WordBytes)
      <4>1. s \in Nat /\ size \in Nat
        BY <3>1, SkipIs, WordsAre DEF Offsets
      <4>2. WordAt(content, size) \in Nat
        BY <3>1, <4>1, WordAtIs, WordsAre
      <4>3. Skip(size + WordBytes, WordAt(content, size)) \in Nat
        <5> HIDE DEF size
        <5>1. size + WordBytes \in Nat
          BY <4>1, WordsAre
        <5> QED
          BY <4>2, <5>1, SkipIs
      <4> QED
        BY <3>1, <4>3 DEF ValidateParameter, Offsets
    <3>2. CASE ~ (s # Ended /\ CanRead(content, size, WordBytes))
      BY <3>2 DEF ValidateParameter, Offsets
    <3> QED
      BY <3>1, <3>2
  <2> QED
    BY <2>1, <2>2
<1>2. f \in [1 .. n -> [Offsets -> Offsets]]
  BY <1>1
<1>3. PICK g : IsIteration(g, Offsets, n, WordBytes, f)
  <2> HIDE DEF f
  <2> QED
    BY <1>1, <1>2, Iterates
<1>4. Eq(g)
  <2>1. ASSUME NEW i \in 0 .. n
        PROVE  g[i] = IF i = 0 THEN WordBytes ELSE ValidateParameter(content, g[i - 1])
    <3>1. CASE i = 0
      BY <1>3, <3>1 DEF IsIteration
    <3>2. CASE i # 0
      <4>1. i \in 1 .. n /\ i - 1 \in 0 .. n
        BY <3>2
      <4>2. g[i] = f[i][g[i - 1]] /\ g[i - 1] \in Offsets
        BY <1>3, <4>1 DEF IsIteration
      <4> QED
        BY <3>2, <4>1, <4>2
    <3> QED
      BY <3>1, <3>2
  <2>2. g = [i \in 0 .. n |-> g[i]]
    BY <1>3 DEF IsIteration
  <2> QED
    BY <2>1, <2>2, Zenon
<1>5. Eq(o)
  <2> HIDE DEF Eq
  <2> QED
    BY <1>4
<1>6. ParametersEnd(content, n) = o[n]
  BY Zenon DEF ParametersEnd, Repeat
<1> HIDE DEF o
<1>7. o[0] = WordBytes /\ \A i \in 1 .. n : o[i] = ValidateParameter(content, o[i - 1])
  <2>1. \A i \in 0 .. n : o[i] = IF i = 0 THEN WordBytes ELSE ValidateParameter(content, o[i - 1])
    BY <1>5, Zenon
  <2>2. 0 \in 0 .. n /\ \A i \in 1 .. n : i \in 0 .. n /\ i # 0
    OBVIOUS
  <2> QED
    BY <2>1, <2>2, Zenon
<1> DEFINE A == {i \in 0 .. n : o[i] \in Offsets}
<1>8. 0 \in A /\ \A i \in 1 .. n : i - 1 \in A => i \in A
  BY <1>1, <1>7
<1>9. \A i \in 0 .. n : i \in A
  <2> HIDE DEF A
  <2> QED
    BY <1>8, UpTo
<1> QED
  BY <1>6, <1>7, <1>9, Zenon DEF IsParameterOffsets

\* The offsets of the loop that validates the commands of a packet.
IsCommandOffsets(o, bytes, n) ==
    /\ o[0] = WordBytes
    /\ \A i \in 1 .. n : o[i] = ValidateCommand(bytes, o[i - 1])
    /\ \A i \in 0 .. n : o[i] \in Offsets

CommandsEnd(bytes, n) == Repeat(n, LAMBDA s : ValidateCommand(bytes, s), WordBytes)

LEMMA CommandOffsets ==
    ASSUME NEW bytes \in Seq(Byte), NEW n \in Nat
    PROVE  \E o : IsCommandOffsets(o, bytes, n) /\ CommandsEnd(bytes, n) = o[n]
<1> DEFINE f == [i \in 1 .. n |-> [s \in Offsets |-> ValidateCommand(bytes, s)]]
           Eq(g) == g = [i \in 0 .. n |-> IF i = 0 THEN WordBytes ELSE ValidateCommand(bytes, g[i - 1])]
           o == CHOOSE g : Eq(g)
<1>1. WordBytes \in Offsets /\ \A s \in Offsets : ValidateCommand(bytes, s) \in Offsets
  <2>1. WordBytes \in Offsets
    BY WordsAre DEF Offsets
  <2>2. ASSUME NEW s \in Offsets
        PROVE  ValidateCommand(bytes, s) \in Offsets
    <3>1. CASE s # Ended /\ CanRead(bytes, s, 2 * WordBytes)
      <4>1. s \in Nat /\ s + WordBytes \in Nat /\ CanRead(bytes, s + WordBytes, WordBytes)
        BY <3>1, WordsAre DEF Offsets, CanRead
      <4>2. WordAt(bytes, s + WordBytes) \in Nat
        BY <4>1, WordAtIs, WordsAre
      <4>3. s + 2 * WordBytes + WordAt(bytes, s + WordBytes) \in Nat
        BY <4>1, <4>2, WordsAre
      <4> QED
        BY <4>3 DEF ValidateCommand, Offsets
    <3>2. CASE ~ (s # Ended /\ CanRead(bytes, s, 2 * WordBytes))
      BY <3>2 DEF ValidateCommand, Offsets
    <3> QED
      BY <3>1, <3>2
  <2> QED
    BY <2>1, <2>2
<1>2. f \in [1 .. n -> [Offsets -> Offsets]]
  BY <1>1
<1>3. PICK g : IsIteration(g, Offsets, n, WordBytes, f)
  <2> HIDE DEF f
  <2> QED
    BY <1>1, <1>2, Iterates
<1>4. Eq(g)
  <2>1. ASSUME NEW i \in 0 .. n
        PROVE  g[i] = IF i = 0 THEN WordBytes ELSE ValidateCommand(bytes, g[i - 1])
    <3>1. CASE i = 0
      BY <1>3, <3>1 DEF IsIteration
    <3>2. CASE i # 0
      <4>1. i \in 1 .. n /\ i - 1 \in 0 .. n
        BY <3>2
      <4>2. g[i] = f[i][g[i - 1]] /\ g[i - 1] \in Offsets
        BY <1>3, <4>1 DEF IsIteration
      <4> QED
        BY <3>2, <4>1, <4>2
    <3> QED
      BY <3>1, <3>2
  <2>2. g = [i \in 0 .. n |-> g[i]]
    BY <1>3 DEF IsIteration
  <2> QED
    BY <2>1, <2>2, Zenon
<1>5. Eq(o)
  <2> HIDE DEF Eq
  <2> QED
    BY <1>4
<1>6. CommandsEnd(bytes, n) = o[n]
  BY Zenon DEF CommandsEnd, Repeat
<1> HIDE DEF o
<1>7. o[0] = WordBytes /\ \A i \in 1 .. n : o[i] = ValidateCommand(bytes, o[i - 1])
  <2>1. \A i \in 0 .. n : o[i] = IF i = 0 THEN WordBytes ELSE ValidateCommand(bytes, o[i - 1])
    BY <1>5, Zenon
  <2>2. 0 \in 0 .. n /\ \A i \in 1 .. n : i \in 0 .. n /\ i # 0
    OBVIOUS
  <2> QED
    BY <2>1, <2>2, Zenon
<1> DEFINE A == {i \in 0 .. n : o[i] \in Offsets}
<1>8. 0 \in A /\ \A i \in 1 .. n : i - 1 \in A => i \in A
  BY <1>1, <1>7
<1>9. \A i \in 0 .. n : i \in A
  <2> HIDE DEF A
  <2> QED
    BY <1>8, UpTo
<1> QED
  BY <1>6, <1>7, <1>9, Zenon DEF IsCommandOffsets

Outcomes == {"none", "out_of_range", "invalid_argument"}
ParameterReads == [offset : Nat, parameters : Seq(R2CPParameter), thrown : Outcomes]
CommandReads == [offset : Nat, commands : Seq(R2CPCommand), thrown : Outcomes]

\* The parameter at an offset, where it can be read.
LEMMA ParameterAt ==
    ASSUME NEW content \in Seq(Byte), NEW offset \in Nat,
           CanRead(content, offset, 2 * WordBytes),
           CanRead(content, offset + 2 * WordBytes, WordAt(content, offset + WordBytes))
    PROVE  LET size == WordAt(content, offset + WordBytes)
               data == offset + 2 * WordBytes
           IN  /\ size \in Word /\ size \in Nat /\ data \in Nat
               /\ data + size \in Nat /\ data + size <= Len(content)
               /\ [code |-> WordAt(content, offset), data |-> BytesAt(content, data, size)]
                    \in R2CPParameter
<1> DEFINE size == WordAt(content, offset + WordBytes)
           data == offset + 2 * WordBytes
<1>1. /\ CanRead(content, offset, WordBytes) /\ offset + WordBytes \in Nat /\ data \in Nat
      /\ CanRead(content, offset + WordBytes, WordBytes)
  BY WordsAre DEF CanRead
<1>2. WordAt(content, offset) \in Word /\ size \in Word
  BY <1>1, WordAtIs
<1>3. size \in Nat
  BY <1>2, WordsAre
<1>4. data + size \in Nat /\ data + size <= Len(content)
  BY <1>1, <1>3 DEF CanRead
<1>5. BytesAt(content, data, size) \in Seq(Byte)
  BY <1>1, <1>3, PartIs
<1> QED
  BY <1>1, <1>2, <1>3, <1>4, <1>5 DEF R2CPParameter

\* A turn that reads a parameter, and one that does not.
LEMMA ParameterTurn ==
    ASSUME NEW code, NEW content \in Seq(Byte), NEW s \in ParameterReads
    PROVE  LET t == ParseParameter(code, content, s)
               size == WordAt(content, s.offset + WordBytes)
               data == s.offset + 2 * WordBytes
           IN  /\ t \in ParameterReads
               /\ t.thrown = "none" =>
                    /\ s.thrown = "none"
                    /\ CanRead(content, s.offset, 2 * WordBytes) /\ CanRead(content, data, size)
                    /\ size \in Nat /\ t.offset = data + size
                    /\ WordAt(content, s.offset) \in getcommandparameters(code)
                    /\ t.parameters = Append(s.parameters,
                                             [code |-> WordAt(content, s.offset),
                                              data |-> BytesAt(content, data, size)])
               /\ t.thrown = "out_of_range" =>
                    \/ s.thrown = "out_of_range"
                    \/ s.thrown = "none" /\ ~ CanRead(content, s.offset, WordBytes)
                    \/ s.thrown = "none" /\ ~ CanRead(content, s.offset, 2 * WordBytes)
                    \/ s.thrown = "none" /\ ~ CanRead(content, data, size)
<1> DEFINE t == ParseParameter(code, content, s)
           size == WordAt(content, s.offset + WordBytes)
           data == s.offset + 2 * WordBytes
           p == [code |-> WordAt(content, s.offset), data |-> BytesAt(content, data, size)]
           Reads == /\ s.thrown = "none"
                    /\ CanRead(content, s.offset, WordBytes)
                    /\ WordAt(content, s.offset) \in getcommandparameters(code)
                    /\ CanRead(content, s.offset, 2 * WordBytes) /\ CanRead(content, data, size)
<1>1. s.offset \in Nat /\ s.parameters \in Seq(R2CPParameter) /\ s.thrown \in Outcomes
  BY DEF ParameterReads
<1>2. CASE Reads
  <2>1. t = [s EXCEPT !.offset = data + size, !.parameters = Append(@, p)]
    BY <1>2 DEF ParseParameter
  <2>2. size \in Nat /\ data + size \in Nat /\ p \in R2CPParameter
    BY <1>1, <1>2, ParameterAt
  <2> HIDE DEF p, size, data
  <2>3. t \in ParameterReads /\ t.thrown = "none" /\ t.offset = data + size
        /\ t.parameters = Append(s.parameters, p)
    <3> HIDE DEF t
    <3>1. Append(s.parameters, p) \in Seq(R2CPParameter)
      BY <1>1, <2>2
    <3>2. t = [offset |-> data + size, parameters |-> Append(s.parameters, p),
               thrown |-> "none"]
      BY <1>2, <2>1 DEF ParameterReads
    <3> QED
      BY <2>2, <3>1, <3>2 DEF ParameterReads, Outcomes
  <2> QED
    BY <1>2, <2>2, <2>3 DEF p, size, data
<1>3. CASE ~ Reads
  <2> DEFINE Ends == \/ ~ CanRead(content, s.offset, WordBytes)
                     \/ ~ CanRead(content, s.offset, 2 * WordBytes)
                     \/ ~ CanRead(content, data, size)
  <2>1. \/ t = s /\ s.thrown # "none"
        \/ t = Throw(s, "out_of_range") /\ s.thrown = "none" /\ Ends
        \/ t = Throw(s, "invalid_argument")
    BY <1>3 DEF ParseParameter
  <2> HIDE DEF t, Reads, Ends
  <2>2. /\ t \in ParameterReads /\ t.thrown # "none"
        /\ t.thrown = "out_of_range" => s.thrown = "out_of_range" \/ (s.thrown = "none" /\ Ends)
    BY <1>1, <2>1 DEF Throw, ParameterReads, Outcomes
  <2> QED
    BY <2>2 DEF t, Ends
<1> QED
  BY <1>2, <1>3

LEMMA ParameterTaken ==
    ASSUME NEW code, NEW content \in Seq(Byte), NEW s \in ParameterReads,
           ParseParameter(code, content, s).thrown = "none"
    PROVE  LET size == WordAt(content, s.offset + WordBytes)
               data == s.offset + 2 * WordBytes
           IN  /\ s.thrown = "none"
               /\ WordAt(content, s.offset) \in getcommandparameters(code)
               /\ ParseParameter(code, content, s).parameters =
                    Append(s.parameters, [code |-> WordAt(content, s.offset),
                                          data |-> BytesAt(content, data, size)])
  BY ParameterTurn

FirstParameter == [offset |-> WordBytes, parameters |-> <<>>, thrown |-> "none"]

\* The states of the loop that reads the parameters of a command.
IsParameterStates(p, code, content, n) ==
    /\ p[0] = FirstParameter
    /\ \A i \in 1 .. n : p[i] = ParseParameter(code, content, p[i - 1])
    /\ \A i \in 0 .. n : p[i] \in ParameterReads

ParametersRead(code, content, n) == Repeat(n, LAMBDA s : ParseParameter(code, content, s), FirstParameter)

LEMMA ParameterStates ==
    ASSUME NEW code, NEW content \in Seq(Byte), NEW n \in Nat
    PROVE  \E p : IsParameterStates(p, code, content, n) /\ ParametersRead(code, content, n) = p[n]
<1> DEFINE f == [i \in 1 .. n |-> [s \in ParameterReads |-> ParseParameter(code, content, s)]]
           Eq(g) == g = [i \in 0 .. n |-> IF i = 0 THEN FirstParameter ELSE ParseParameter(code, content, g[i - 1])]
           p == CHOOSE g : Eq(g)
<1>1. FirstParameter \in ParameterReads /\ \A s \in ParameterReads : ParseParameter(code, content, s) \in ParameterReads
  <2>1. FirstParameter \in ParameterReads
    BY WordsAre DEF FirstParameter, ParameterReads, Outcomes
  <2> QED
    BY <2>1, ParameterTurn
<1>2. f \in [1 .. n -> [ParameterReads -> ParameterReads]]
  BY <1>1
<1>3. PICK g : IsIteration(g, ParameterReads, n, FirstParameter, f)
  <2> HIDE DEF f
  <2> QED
    BY <1>1, <1>2, Iterates
<1>4. Eq(g)
  <2>1. ASSUME NEW i \in 0 .. n
        PROVE  g[i] = IF i = 0 THEN FirstParameter ELSE ParseParameter(code, content, g[i - 1])
    <3>1. CASE i = 0
      BY <1>3, <3>1 DEF IsIteration
    <3>2. CASE i # 0
      <4>1. i \in 1 .. n /\ i - 1 \in 0 .. n
        BY <3>2
      <4>2. g[i] = f[i][g[i - 1]] /\ g[i - 1] \in ParameterReads
        BY <1>3, <4>1 DEF IsIteration
      <4> QED
        BY <3>2, <4>1, <4>2
    <3> QED
      BY <3>1, <3>2
  <2>2. g = [i \in 0 .. n |-> g[i]]
    BY <1>3 DEF IsIteration
  <2> QED
    BY <2>1, <2>2, Zenon
<1>5. Eq(p)
  <2> HIDE DEF Eq
  <2> QED
    BY <1>4
<1>6. ParametersRead(code, content, n) = p[n]
  BY Zenon DEF ParametersRead, Repeat
<1> HIDE DEF p
<1>7. p[0] = FirstParameter /\ \A i \in 1 .. n : p[i] = ParseParameter(code, content, p[i - 1])
  <2>1. \A i \in 0 .. n : p[i] = IF i = 0 THEN FirstParameter ELSE ParseParameter(code, content, p[i - 1])
    BY <1>5, Zenon
  <2>2. 0 \in 0 .. n /\ \A i \in 1 .. n : i \in 0 .. n /\ i # 0
    OBVIOUS
  <2> QED
    BY <2>1, <2>2, Zenon
<1> DEFINE A == {i \in 0 .. n : p[i] \in ParameterReads}
<1>8. 0 \in A /\ \A i \in 1 .. n : i - 1 \in A => i \in A
  BY <1>1, <1>7
<1>9. \A i \in 0 .. n : i \in A
  <2> HIDE DEF A
  <2> QED
    BY <1>8, UpTo
<1> QED
  BY <1>6, <1>7, <1>9, Zenon DEF IsParameterStates

\* What the parameters read from a content are.
LEMMA ContentParsed ==
    ASSUME NEW code, NEW content \in Seq(Byte)
    PROVE  LET r == parsecommandcontent(code, content)
           IN  /\ r.parameters \in Seq(R2CPParameter) /\ r.thrown \in Outcomes
               /\ r.thrown = "none" =>
                    \A k \in DOMAIN r.parameters :
                        r.parameters[k].code \in getcommandparameters(code)
<1> DEFINE r == parsecommandcontent(code, content)
           n == WordAt(content, 0)
<1>1. CASE getcommandcontenttype(code) = DIRECTCONTENT
  <2> DEFINE all == <<[code |-> NOPARAMETERS, data |-> content]>>
  <2>1. r.parameters = all /\ r.thrown = "none"
    <3>1. r = [parameters |-> all, thrown |-> "none"]
      BY <1>1 DEF parsecommandcontent, DIRECTCONTENT, PARAMETERIZEDCONTENT
    <3> QED
      BY <3>1
  <2>2. NOPARAMETERS \in getcommandparameters(code)
    BY <1>1 DEF getcommandcontenttype, getcommandparameters, commandcontenttypemap,
                commandparametersmap, commandsset, DIRECTCONTENT, NOCONTENT,
                PARAMETERIZEDCONTENT, NOPARAMETERS, MOTORDUTYCYCLE, IMAGESEND, IMAGERECEIVE,
                PRINTMESSAGE, INVALIDCOMMAND
  <2>3. [code |-> NOPARAMETERS, data |-> content] \in R2CPParameter
    BY WordsAre DEF R2CPParameter, NOPARAMETERS, Word
  <2> QED
    BY <2>1, <2>2, <2>3 DEF Outcomes
<1>2. CASE getcommandcontenttype(code) = PARAMETERIZEDCONTENT
  <2>1. r = parseparameterizedcommandcontent(code, content)
    BY <1>2 DEF parsecommandcontent, PARAMETERIZEDCONTENT, DIRECTCONTENT
  <2>2. CASE CanRead(content, 0, WordBytes)
    <3>1. n \in Nat
      BY <2>2, WordAtIs, WordsAre
    <3> HIDE DEF n
    <3>2. PICK p : /\ IsParameterStates(p, code, content, n)
                   /\ ParametersRead(code, content, n) = p[n]
      BY <3>1, ParameterStates
    <3>3. r = p[n]
      <4>1. r = ParametersRead(code, content, n)
        BY <2>1, <2>2, Zenon DEF parseparameterizedcommandcontent, ParametersRead, FirstParameter, n
      <4> QED
        BY <3>2, <4>1
    <3> USE DEF IsParameterStates
    <3> DEFINE Known(i) == p[i].thrown = "none" =>
                             \A k \in DOMAIN p[i].parameters :
                                 p[i].parameters[k].code \in getcommandparameters(code)
               A == {i \in 0 .. n : Known(i)}
    <3>4. Known(0)
      BY <3>2 DEF FirstParameter
    <3>5. ASSUME NEW i \in 1 .. n, Known(i - 1)
          PROVE  Known(i)
      <4> DEFINE s == p[i - 1]
                 t == p[i]
                 e == [code |-> WordAt(content, s.offset),
                       data |-> BytesAt(content, s.offset + 2 * WordBytes,
                                        WordAt(content, s.offset + WordBytes))]
      <4>1. i - 1 \in 0 .. n /\ s \in ParameterReads /\ t = ParseParameter(code, content, s)
        <5>1. i - 1 \in 0 .. n
          BY <3>1
        <5> QED
          BY <3>2, <5>1
      <4> SUFFICES ASSUME t.thrown = "none"
                   PROVE  \A k \in DOMAIN t.parameters :
                              t.parameters[k].code \in getcommandparameters(code)
        OBVIOUS
      <4>2. /\ s.thrown = "none" /\ e.code \in getcommandparameters(code)
            /\ t.parameters = Append(s.parameters, e)
        <5> HIDE DEF s, t
        <5> QED
          BY <4>1, ParameterTaken DEF t
      <4>3. s.parameters \in Seq(R2CPParameter)
        BY <4>1 DEF ParameterReads
      <4> HIDE DEF s, t, e
      <4> QED
        BY <3>5, <4>2, <4>3 DEF s
    <3>6. 0 \in A /\ \A i \in 1 .. n : i - 1 \in A => i \in A
      <4> HIDE DEF Known
      <4> QED
        BY <3>1, <3>4, <3>5
    <3>7. n \in A
      <4> HIDE DEF A
      <4>1. \A i \in 0 .. n : i \in A
        BY <3>1, <3>6, UpTo
      <4> QED
        BY <3>1, <4>1
    <3> QED
      BY <3>1, <3>2, <3>3, <3>7 DEF ParameterReads
  <2>3. CASE ~ CanRead(content, 0, WordBytes)
    <3>1. r = Throw(FirstParameter, "out_of_range")
      BY <2>1, <2>3 DEF parseparameterizedcommandcontent, FirstParameter
    <3> QED
      BY <3>1 DEF Throw, FirstParameter, Outcomes
  <2> QED
    BY <2>2, <2>3
<1>3. CASE getcommandcontenttype(code) \notin {DIRECTCONTENT, PARAMETERIZEDCONTENT}
  <2>1. r.parameters = <<>> /\ r.thrown = "none"
    BY <1>3 DEF parsecommandcontent
  <2> QED
    BY <2>1 DEF Outcomes
<1> QED
  BY <1>1, <1>2, <1>3

\* A turn that reads a command, one that passes over it, and one that throws.
LEMMA CommandTurn ==
    ASSUME NEW bytes \in Seq(Byte), NEW s \in CommandReads
    PROVE  LET t == ParseCommand(bytes, s)
               code == WordAt(bytes, s.offset)
               size == WordAt(bytes, s.offset + WordBytes)
               start == s.offset + 2 * WordBytes
               content == parsecommandcontent(code, BytesAt(bytes, start, size))
               k == [code |-> code, parameters |-> content.parameters]
           IN  /\ t \in CommandReads
               /\ t.thrown = "none" =>
                    /\ s.thrown = "none" /\ CanRead(bytes, s.offset, 2 * WordBytes)
                    /\ code \in Word /\ size \in Word
                    /\ \/ /\ ~ checkifvalidcommand(code)
                          /\ t.offset = Skip(start, size) /\ t.commands = s.commands
                       \/ /\ checkifvalidcommand(code)
                          /\ CanRead(bytes, start, size) /\ t.offset = start + size
                          /\ content.thrown # "out_of_range"
                          /\ content.thrown = "none" => t.commands = Append(s.commands, k)
                          /\ content.thrown # "none" => t.commands = s.commands
               /\ t.thrown # "none" => t.commands = s.commands
               /\ t.thrown # "none" =>
                    \/ s.thrown # "none"
                    \/ ~ CanRead(bytes, s.offset, 2 * WordBytes)
                    \/ /\ checkifvalidcommand(code)
                       /\ ~ CanRead(bytes, start, size) \/ content.thrown = "out_of_range"
<1> DEFINE t == ParseCommand(bytes, s)
           code == WordAt(bytes, s.offset)
           size == WordAt(bytes, s.offset + WordBytes)
           start == s.offset + 2 * WordBytes
           content == parsecommandcontent(code, BytesAt(bytes, start, size))
           k == [code |-> code, parameters |-> content.parameters]
<1>1. /\ s.offset \in Nat /\ s.commands \in Seq(R2CPCommand) /\ s.thrown \in Outcomes
      /\ s = [offset |-> s.offset, commands |-> s.commands, thrown |-> s.thrown]
  BY DEF CommandReads
<1>2. CASE s.thrown # "none"
  <2>1. t = s
    BY <1>2 DEF ParseCommand
  <2> HIDE DEF t
  <2> QED
    BY <1>2, <2>1 DEF t
<1>3. CASE s.thrown = "none" /\ ~ CanRead(bytes, s.offset, 2 * WordBytes)
  <2>1. t = Throw(s, "out_of_range")
    BY <1>3 DEF ParseCommand
  <2> HIDE DEF t, code, size, start, content, k
  <2>2. t = [offset |-> s.offset, commands |-> s.commands, thrown |-> "out_of_range"]
    BY <1>1, <2>1 DEF Throw
  <2>3. t \in CommandReads
    BY <1>1, <2>2 DEF CommandReads, Outcomes
  <2> QED
    BY <1>3, <2>2, <2>3 DEF t
<1>4. CASE s.thrown = "none" /\ CanRead(bytes, s.offset, 2 * WordBytes)
  <2>1. /\ CanRead(bytes, s.offset, WordBytes) /\ s.offset + WordBytes \in Nat /\ start \in Nat
        /\ CanRead(bytes, s.offset + WordBytes, WordBytes)
    BY <1>1, <1>4, WordsAre DEF CanRead
  <2>2. code \in Word /\ size \in Word /\ size \in Nat
    BY <1>1, <2>1, WordAtIs, WordsAre
  <2>3. Skip(start, size) \in Nat /\ start + size \in Nat
    <3> HIDE DEF start, size
    <3>1. Skip(start, size) \in Nat
      BY <2>1, <2>2, SkipIs
    <3>2. start + size \in Nat
      BY <2>1, <2>2
    <3> QED
      BY <3>1, <3>2
  <2>4. CASE ~ checkifvalidcommand(code)
    <3>1. t = [s EXCEPT !.offset = Skip(start, size)]
      BY <1>4, <2>4 DEF ParseCommand
    <3> HIDE DEF t, code, size, start
    <3>2. t = [offset |-> Skip(start, size), commands |-> s.commands, thrown |-> "none"]
      BY <1>1, <1>4, <3>1
    <3>3. t \in CommandReads
      BY <1>1, <2>3, <3>2 DEF CommandReads, Outcomes
    <3> QED
      BY <1>4, <2>2, <2>4, <3>2, <3>3 DEF t, code, size, start
  <2>5. CASE checkifvalidcommand(code)
             /\ (~ CanRead(bytes, start, size) \/ content.thrown = "out_of_range")
    <3>1. t = Throw(s, "out_of_range")
      BY <1>4, <2>5 DEF ParseCommand
    <3> HIDE DEF t, code, size, start, content
    <3>2. t = [offset |-> s.offset, commands |-> s.commands, thrown |-> "out_of_range"]
      BY <1>1, <3>1 DEF Throw
    <3>3. t \in CommandReads
      BY <1>1, <3>2 DEF CommandReads, Outcomes
    <3> QED
      BY <2>5, <3>2, <3>3 DEF t, code, size, start, content
  <2>6. CASE checkifvalidcommand(code) /\ CanRead(bytes, start, size)
             /\ content.thrown # "out_of_range"
    <3>1. t = [s EXCEPT !.offset = start + size,
                        !.commands = IF content.thrown = "none" THEN Append(@, k) ELSE @]
      BY <1>4, <2>6 DEF ParseCommand
    <3>2. content.parameters \in Seq(R2CPParameter)
      <4>1. BytesAt(bytes, start, size) \in Seq(Byte)
        BY <2>1, <2>2, <2>6, PartIs
      <4> HIDE DEF code, size, start
      <4> QED
        BY <4>1, ContentParsed
    <3>3. k \in R2CPCommand
      <4> HIDE DEF code, content
      <4> QED
        BY <2>2, <3>2 DEF R2CPCommand
    <3> HIDE DEF t, code, size, start, content, k
    <3>4. Append(s.commands, k) \in Seq(R2CPCommand)
      BY <1>1, <3>3
    <3>5. t = [offset |-> start + size,
               commands |-> IF content.thrown = "none" THEN Append(s.commands, k)
                            ELSE s.commands,
               thrown |-> "none"]
      BY <1>1, <1>4, <3>1
    <3>6. t \in CommandReads
      BY <1>1, <2>3, <3>4, <3>5 DEF CommandReads, Outcomes
    <3> QED
      BY <1>4, <2>2, <2>6, <3>5, <3>6 DEF t, code, size, start, content, k
  <2> QED
    BY <2>4, <2>5, <2>6
<1> QED
  BY <1>2, <1>3, <1>4

FirstCommand ==
    [offset |-> MINR2CPPACKETSIZE + WordBytes, commands |-> <<>>, thrown |-> "none"]

\* The states of the loop that reads the commands of a packet.
IsCommandStates(p, bytes, n) ==
    /\ p[0] = FirstCommand
    /\ \A i \in 1 .. n : p[i] = ParseCommand(bytes, p[i - 1])
    /\ \A i \in 0 .. n : p[i] \in CommandReads

CommandsRead(bytes, n) == Repeat(n, LAMBDA s : ParseCommand(bytes, s), FirstCommand)

LEMMA CommandStates ==
    ASSUME NEW bytes \in Seq(Byte), NEW n \in Nat
    PROVE  \E p : IsCommandStates(p, bytes, n) /\ CommandsRead(bytes, n) = p[n]
<1> DEFINE f == [i \in 1 .. n |-> [s \in CommandReads |-> ParseCommand(bytes, s)]]
           Eq(g) == g = [i \in 0 .. n |-> IF i = 0 THEN FirstCommand ELSE ParseCommand(bytes, g[i - 1])]
           p == CHOOSE g : Eq(g)
<1>1. FirstCommand \in CommandReads /\ \A s \in CommandReads : ParseCommand(bytes, s) \in CommandReads
  <2>1. FirstCommand \in CommandReads
    BY WordsAre DEF FirstCommand, CommandReads, Outcomes, MINR2CPPACKETSIZE
  <2> QED
    BY <2>1, CommandTurn
<1>2. f \in [1 .. n -> [CommandReads -> CommandReads]]
  BY <1>1
<1>3. PICK g : IsIteration(g, CommandReads, n, FirstCommand, f)
  <2> HIDE DEF f
  <2> QED
    BY <1>1, <1>2, Iterates
<1>4. Eq(g)
  <2>1. ASSUME NEW i \in 0 .. n
        PROVE  g[i] = IF i = 0 THEN FirstCommand ELSE ParseCommand(bytes, g[i - 1])
    <3>1. CASE i = 0
      BY <1>3, <3>1 DEF IsIteration
    <3>2. CASE i # 0
      <4>1. i \in 1 .. n /\ i - 1 \in 0 .. n
        BY <3>2
      <4>2. g[i] = f[i][g[i - 1]] /\ g[i - 1] \in CommandReads
        BY <1>3, <4>1 DEF IsIteration
      <4> QED
        BY <3>2, <4>1, <4>2
    <3> QED
      BY <3>1, <3>2
  <2>2. g = [i \in 0 .. n |-> g[i]]
    BY <1>3 DEF IsIteration
  <2> QED
    BY <2>1, <2>2, Zenon
<1>5. Eq(p)
  <2> HIDE DEF Eq
  <2> QED
    BY <1>4
<1>6. CommandsRead(bytes, n) = p[n]
  BY Zenon DEF CommandsRead, Repeat
<1> HIDE DEF p
<1>7. p[0] = FirstCommand /\ \A i \in 1 .. n : p[i] = ParseCommand(bytes, p[i - 1])
  <2>1. \A i \in 0 .. n : p[i] = IF i = 0 THEN FirstCommand ELSE ParseCommand(bytes, p[i - 1])
    BY <1>5, Zenon
  <2>2. 0 \in 0 .. n /\ \A i \in 1 .. n : i \in 0 .. n /\ i # 0
    OBVIOUS
  <2> QED
    BY <2>1, <2>2, Zenon
<1> DEFINE A == {i \in 0 .. n : p[i] \in CommandReads}
<1>8. 0 \in A /\ \A i \in 1 .. n : i - 1 \in A => i \in A
  BY <1>1, <1>7
<1>9. \A i \in 0 .. n : i \in A
  <2> HIDE DEF A
  <2> QED
    BY <1>8, UpTo
<1> QED
  BY <1>6, <1>7, <1>9, Zenon DEF IsCommandStates

-----------------------------------------------------------------------------
(* What the packets are made of *)

LEMMA WordBytesAre ==
    ASSUME NEW n \in Nat
    PROVE  /\ WordToBytes(n) \in Seq(Byte) /\ Len(WordToBytes(n)) = WordBytes
           /\ \A i \in 1 .. WordBytes :
                WordToBytes(n)[i] = (n \div Weight[WordBytes - i]) % ByteModulus
<1>1. ASSUME NEW i \in 1 .. WordBytes
      PROVE  (n \div Weight[WordBytes - i]) % ByteModulus \in Byte
  <2>1. WordBytes - i \in 0 .. WordBytes
    BY WordsAre
  <2>2. Weight[WordBytes - i] \in Nat \ {0}
    BY <2>1, WeightIs
  <2>3. n \div Weight[WordBytes - i] \in Nat
    BY <2>2, DivisionOf
  <2> QED
    BY <2>3, FormatAssumption DEF Byte
<1> QED
  BY <1>1, WordsAre DEF WordToBytes

LEMMA ParameterIs ==
    ASSUME NEW p \in R2CPParameter
    PROVE  p.code \in Word /\ p.code \in Nat /\ p.data \in Seq(Byte) /\ Len(p.data) \in Nat
<1>1. p.code \in Word /\ p.data \in Seq(Byte)
  BY DEF R2CPParameter
<1>2. p.code \in Nat
  BY <1>1, WordsAre
<1>3. Len(p.data) \in Nat
  BY <1>1, LenProperties
<1> QED
  BY <1>1, <1>2, <1>3

LEMMA CommandIs ==
    ASSUME NEW k \in R2CPCommand
    PROVE  /\ k.code \in Word /\ k.code \in Nat
           /\ k.parameters \in Seq(R2CPParameter) /\ Len(k.parameters) \in Nat
<1>1. k.code \in Word /\ k.parameters \in Seq(R2CPParameter)
  BY DEF R2CPCommand
<1>2. k.code \in Nat
  BY <1>1, WordsAre
<1>3. Len(k.parameters) \in Nat
  BY <1>1, LenProperties
<1> QED
  BY <1>1, <1>2, <1>3

LEMMA ParameterBytesAre ==
    ASSUME NEW p \in R2CPParameter
    PROVE  ParameterBytes(p) \in Seq(Byte)
<1>1. p.code \in Nat /\ p.data \in Seq(Byte) /\ Len(p.data) \in Nat
  BY ParameterIs
<1>2. WordToBytes(p.code) \in Seq(Byte) /\ WordToBytes(Len(p.data)) \in Seq(Byte)
  BY <1>1, WordBytesAre
<1> QED
  BY <1>1, <1>2, ConcatIs DEF ParameterBytes

\* The parts of which a content is the concatenation.
ContentParts(k) ==
    IF getcommandcontenttype(k.code) = PARAMETERIZEDCONTENT
    THEN [i \in DOMAIN k.parameters |-> ParameterBytes(k.parameters[i])]
    ELSE [i \in DOMAIN k.parameters |-> k.parameters[i].data]

LEMMA ContentIs ==
    ASSUME NEW k \in R2CPCommand
    PROVE  /\ ContentParts(k) \in Seq(Seq(Byte))
           /\ Len(ContentParts(k)) = Len(k.parameters)
           /\ FlattenSeq(ContentParts(k)) \in Seq(Byte)
           /\ Content(k) = IF getcommandcontenttype(k.code) = PARAMETERIZEDCONTENT
                           THEN WordToBytes(Len(k.parameters)) \o FlattenSeq(ContentParts(k))
                           ELSE FlattenSeq(ContentParts(k))
           /\ Content(k) \in Seq(Byte)
<1>1. k.code \in Nat /\ k.parameters \in Seq(R2CPParameter) /\ Len(k.parameters) \in Nat
  BY CommandIs
<1>2. \A i \in DOMAIN k.parameters :
        ParameterBytes(k.parameters[i]) \in Seq(Byte) /\ k.parameters[i].data \in Seq(Byte)
  <2> TAKE i \in DOMAIN k.parameters
  <2>1. k.parameters[i] \in R2CPParameter
    BY <1>1
  <2> QED
    BY <2>1, ParameterBytesAre DEF R2CPParameter
<1>3. DOMAIN k.parameters = 1 .. Len(k.parameters)
  BY <1>1
<1>4. /\ ContentParts(k) \in Seq(Seq(Byte))
      /\ Len(ContentParts(k)) = Len(k.parameters)
  BY <1>1, <1>2, <1>3 DEF ContentParts
<1>5. FlattenSeq(ContentParts(k)) \in Seq(Byte)
  BY <1>4, FlattenTyped
<1>6. Content(k) = IF getcommandcontenttype(k.code) = PARAMETERIZEDCONTENT
                   THEN WordToBytes(Len(k.parameters)) \o FlattenSeq(ContentParts(k))
                   ELSE FlattenSeq(ContentParts(k))
  BY Zenon DEF Content, ContentParts
<1>7. WordToBytes(Len(k.parameters)) \in Seq(Byte)
  BY <1>1, WordBytesAre
<1> QED
  BY <1>4, <1>5, <1>6, <1>7, ConcatIs

LEMMA CommandBytesAre ==
    ASSUME NEW k \in R2CPCommand
    PROVE  CommandBytes(k) \in Seq(Byte)
<1>1. k.code \in Nat /\ Content(k) \in Seq(Byte) /\ Len(Content(k)) \in Nat
  BY CommandIs, ContentIs
<1>2. WordToBytes(k.code) \in Seq(Byte) /\ WordToBytes(Len(Content(k))) \in Seq(Byte)
  BY <1>1, WordBytesAre
<1> QED
  BY <1>1, <1>2, ConcatIs DEF CommandBytes

\* The commands as bytes, one sequence for each.
CommandParts(list) == [i \in DOMAIN list |-> CommandBytes(list[i])]

LEMMA PacketBytesAre ==
    ASSUME NEW list \in Seq(R2CPCommand), NEW m \in Nat
    PROVE  LET body == WordToBytes(Len(list)) \o FlattenSeq(CommandParts(list))
           IN  /\ CommandParts(list) \in Seq(Seq(Byte)) /\ Len(CommandParts(list)) = Len(list)
               /\ FlattenSeq(CommandParts(list)) \in Seq(Byte)
               /\ body \in Seq(Byte)
               /\ PacketBytes(m, list) = WordToBytes(m) \o WordToBytes(Len(body)) \o body
               /\ PacketBytes(m, list) \in Seq(Byte)
<1> DEFINE body == WordToBytes(Len(list)) \o FlattenSeq(CommandParts(list))
<1>1. \A i \in DOMAIN list : CommandBytes(list[i]) \in Seq(Byte)
  BY CommandBytesAre
<1>2. Len(list) \in Nat /\ DOMAIN list = 1 .. Len(list)
  OBVIOUS
<1>3. CommandParts(list) \in Seq(Seq(Byte)) /\ Len(CommandParts(list)) = Len(list)
  BY <1>1, <1>2 DEF CommandParts
<1>4. FlattenSeq(CommandParts(list)) \in Seq(Byte)
  BY <1>3, FlattenTyped
<1>5. body \in Seq(Byte)
  BY <1>2, <1>4, WordBytesAre, ConcatIs
<1>6. PacketBytes(m, list) = WordToBytes(m) \o WordToBytes(Len(body)) \o body
  BY Zenon DEF PacketBytes, CommandParts
<1> HIDE DEF body
<1>7. Len(body) \in Nat
  BY <1>5
<1>8. WordToBytes(m) \in Seq(Byte) /\ WordToBytes(Len(body)) \in Seq(Byte)
  BY <1>7, WordBytesAre
<1>9. WordToBytes(m) \o WordToBytes(Len(body)) \o body \in Seq(Byte)
  BY <1>5, <1>8, ConcatIs
<1> QED
  BY <1>3, <1>4, <1>5, <1>6, <1>9 DEF body

-----------------------------------------------------------------------------
(* The states *)

\* The client's commands, the bytes it sends, and that they are those of the
\* format as long as nothing differs.
IInv ==
    /\ magic \in Magics /\ commands \in CommandLists
    /\ packet \in Seq(Byte) /\ changes \in Nat
    /\ changes = 0 => packet = PacketBytes(magic, commands)

LEMMA Inductive == Spec => []IInv
<1>1. Init => IInv
  <2> SUFFICES ASSUME Init
               PROVE  IInv
    OBVIOUS
  <2>1. magic \in Magics /\ magic \in Nat
    BY FormatAssumption, CodecAssumption, WordsAre DEF Init
  <2>2. commands \in Seq(R2CPCommand) /\ commands \in CommandLists
    BY CodecAssumption DEF Init
  <2>3. packet \in Seq(Byte)
    BY <2>1, <2>2, PacketBytesAre DEF Init
  <2> QED
    BY <2>1, <2>2, <2>3 DEF Init, IInv
<1>2. IInv /\ [Next]_vars => IInv'
  <2> SUFFICES ASSUME IInv, [Next]_vars
               PROVE  IInv'
    OBVIOUS
  <2>1. ASSUME NEW bytes \in Seq(Byte), Change(bytes)
        PROVE  IInv'
    BY <2>1 DEF IInv, Change
  <2>2. ASSUME NEW i \in DOMAIN packet, NEW b \in Bytes, Replace(i, b)
        PROVE  IInv'
    <3>1. [packet EXCEPT ![i] = b] \in Seq(Byte)
      BY CodecAssumption DEF IInv
    <3> QED
      BY <2>1, <2>2, <3>1 DEF Replace
  <2>3. CASE Lose
    <3>1. Front(packet) \in Seq(Byte)
      BY <2>3 DEF IInv, Lose, Front
    <3> QED
      BY <2>1, <2>3, <3>1 DEF Lose
  <2>4. ASSUME NEW b \in Bytes, Gain(b)
        PROVE  IInv'
    <3>1. Append(packet, b) \in Seq(Byte)
      BY CodecAssumption DEF IInv
    <3> QED
      BY <2>1, <2>4, <3>1 DEF Gain
  <2>5. CASE UNCHANGED vars
    BY <2>5 DEF vars, IInv
  <2> QED
    BY <2>2, <2>3, <2>4, <2>5 DEF Next
<1> QED
  BY <1>1, <1>2, PTL DEF Spec

-----------------------------------------------------------------------------
(* Parse and validation *)

LEMMA PartOfPart ==
    ASSUME NEW bytes \in Seq(Byte), NEW offset \in Nat, NEW n \in Nat, CanRead(bytes, offset, n),
           NEW o \in Nat, NEW m \in Nat, o + m <= n
    PROVE  BytesAt(BytesAt(bytes, offset, n), o, m) = BytesAt(bytes, offset + o, m)
<1> DEFINE part == BytesAt(bytes, offset, n)
<1>1. /\ part \in Seq(Byte) /\ Len(part) = n
      /\ \A i \in 1 .. n : part[i] = bytes[offset + i]
  BY PartIs
<1> HIDE DEF part
<1>2. CanRead(part, o, m) /\ CanRead(bytes, offset + o, m) /\ offset + o \in Nat
  BY <1>1 DEF CanRead
<1>3. /\ BytesAt(part, o, m) \in Seq(Byte) /\ Len(BytesAt(part, o, m)) = m
      /\ \A i \in 1 .. m : BytesAt(part, o, m)[i] = part[o + i]
  BY SMTT(30), <1>1, <1>2, PartIs
<1>4. /\ BytesAt(bytes, offset + o, m) \in Seq(Byte) /\ Len(BytesAt(bytes, offset + o, m)) = m
      /\ \A i \in 1 .. m : BytesAt(bytes, offset + o, m)[i] = bytes[offset + o + i]
  BY <1>2, PartIs
<1>5. ASSUME NEW i \in 1 .. m
      PROVE  part[o + i] = bytes[offset + o + i]
  <2>1. o + i \in 1 .. n /\ offset + (o + i) = offset + o + i
    OBVIOUS
  <2> QED
    BY <1>1, <2>1
<1>6. BytesAt(part, o, m) = BytesAt(bytes, offset + o, m)
  BY <1>3, <1>4, <1>5, SeqEqual
<1> QED
  BY <1>6 DEF part

\* What the validation has found when it accepts a packet.
LEMMA ValidatedIs ==
    ASSUME NEW bytes \in Seq(Byte), validater2cppacket(bytes)
    PROVE  LET size == WordAt(bytes, WordBytes)
               body == BytesAt(bytes, MINR2CPPACKETSIZE, size)
           IN  /\ size \in Nat /\ Len(bytes) = MINR2CPPACKETSIZE + size
               /\ Len(bytes) < WordModulus
               /\ WordAt(bytes, 0) \in {R2CPMAGICNUMBER, RRCPMAGICNUMBER}
               /\ CanRead(bytes, MINR2CPPACKETSIZE, size)
               /\ body \in Seq(Byte) /\ Len(body) = size
               /\ size # 0 =>
                    /\ CanRead(body, 0, WordBytes) /\ CanRead(bytes, MINR2CPPACKETSIZE, WordBytes)
                    /\ WordAt(bytes, MINR2CPPACKETSIZE) \in Nat
                    /\ WordAt(body, 0) = WordAt(bytes, MINR2CPPACKETSIZE)
                    /\ CommandsEnd(body, WordAt(body, 0)) = Len(body)
<1> DEFINE size == WordAt(bytes, WordBytes)
           body == BytesAt(bytes, MINR2CPPACKETSIZE, size)
<1>1. /\ Len(bytes) \in Nat /\ Len(bytes) >= 2 * WordBytes
      /\ Len(bytes) = (2 * WordBytes + size) % WordModulus
      /\ WordAt(bytes, 0) \in {R2CPMAGICNUMBER, RRCPMAGICNUMBER}
      /\ size # 0 => validatecommandsfromr2cppacket(body)
  BY DEF validater2cppacket, MINR2CPPACKETSIZE
<1>2. CanRead(bytes, WordBytes, WordBytes) /\ WordBytes \in Nat
  BY <1>1, WordsAre DEF CanRead
<1>3. size \in 0 .. WordModulus - 1
  BY <1>2, WordAtIs DEF Word
<1>4. Len(bytes) = 2 * WordBytes + size /\ Len(bytes) < WordModulus
  <2> HIDE DEF size
  <2> DEFINE d == WordModulus
             m == 2 * WordBytes
  <2>1. d \in Nat \ {0} /\ m \in Nat /\ Len(bytes) = (m + size) % d /\ Len(bytes) >= m
    BY <1>1, <1>3, WordsAre
  <2> HIDE DEF d, m
  <2>2. m + size < d
    <3>1. CASE m >= d
      BY <1>3, <2>1, <3>1 DEF d
    <3>2. CASE m < d /\ m + size >= d
      <4>1. m + size - d \in 0 .. d - 1
        BY <1>3, <2>1, <3>2 DEF d
      <4>2. (m + size) % d = m + size - d
        <5> DEFINE r == m + size - d
        <5>1. m + size = 1 * d + r
          BY <1>3, <2>1
        <5>2. r \in 0 .. d - 1
          BY <4>1
        <5> HIDE DEF r
        <5>3. (1 * d + r) % d = r
          BY <2>1, <5>2, DivisionIs
        <5> QED
          BY <5>1, <5>3 DEF r
      <4> QED
        BY <1>3, <2>1, <3>2, <4>2 DEF d
    <3> QED
      BY <1>3, <2>1, <3>1, <3>2
  <2>3. (m + size) % d = m + size
    BY <1>3, <2>1, <2>2
  <2> QED
    BY <2>1, <2>2, <2>3 DEF d, m
<1>5. size \in Nat /\ MINR2CPPACKETSIZE \in Nat /\ MINR2CPPACKETSIZE = 2 * WordBytes
  BY <1>3, WordsAre DEF MINR2CPPACKETSIZE
<1>6. CanRead(bytes, MINR2CPPACKETSIZE, size)
  BY <1>1, <1>4, <1>5 DEF CanRead
<1>7. body \in Seq(Byte) /\ Len(body) = size
  <2> HIDE DEF size
  <2> QED
    BY <1>5, <1>6, PartIs
<1>8. ASSUME size # 0
      PROVE  /\ CanRead(body, 0, WordBytes) /\ CanRead(bytes, MINR2CPPACKETSIZE, WordBytes)
             /\ WordAt(bytes, MINR2CPPACKETSIZE) \in Nat
             /\ WordAt(body, 0) = WordAt(bytes, MINR2CPPACKETSIZE)
             /\ CommandsEnd(body, WordAt(body, 0)) = Len(body)
  <2> HIDE DEF size, body
  <2>1. CanRead(body, 0, WordBytes)
    BY <1>1, <1>8 DEF validatecommandsfromr2cppacket
  <2>2. CommandsEnd(body, WordAt(body, 0)) = Len(body)
    BY <1>1, <1>8, Zenon DEF validatecommandsfromr2cppacket, CommandsEnd
  <2>3. WordBytes <= size
    BY <1>7, <2>1, WordsAre DEF CanRead
  <2>4. CanRead(bytes, MINR2CPPACKETSIZE, WordBytes)
    BY <1>4, <1>5, <2>3, WordsAre DEF CanRead
  <2>5. WordAt(bytes, MINR2CPPACKETSIZE) \in Nat
    BY <1>5, <2>4, WordAtIs, WordsAre
  <2>6. WordAt(body, 0) = WordAt(bytes, MINR2CPPACKETSIZE)
    <3>1. WordAt(BytesAt(bytes, MINR2CPPACKETSIZE, size), 0) = WordAt(bytes, MINR2CPPACKETSIZE + 0)
      BY <1>5, <1>6, <2>3, WordOfPart, WordsAre
    <3>2. MINR2CPPACKETSIZE + 0 = MINR2CPPACKETSIZE
      BY <1>5
    <3> QED
      BY <3>1, <3>2 DEF body
  <2> QED
    BY <2>1, <2>2, <2>4, <2>5, <2>6
<1> HIDE DEF size, body
<1>9. Len(bytes) = MINR2CPPACKETSIZE + size
  BY <1>4, <1>5
<1> QED
  BY <1>1, <1>4, <1>5, <1>6, <1>7, <1>8, <1>9 DEF size, body

LEMMA ParserIs ==
    ASSUME NEW bytes \in Seq(Byte)
    PROVE  LET n == WordAt(bytes, MINR2CPPACKETSIZE)
               r == parser2cppacket(bytes)
           IN  IF validater2cppacket(bytes) /\ CanRead(bytes, MINR2CPPACKETSIZE, WordBytes)
               THEN n \in Nat /\ r = CommandsRead(bytes, n)
               ELSE r.thrown # "none" /\ r.commands = <<>>
<1> DEFINE n == WordAt(bytes, MINR2CPPACKETSIZE)
           r == parser2cppacket(bytes)
<1>1. CASE validater2cppacket(bytes) /\ CanRead(bytes, MINR2CPPACKETSIZE, WordBytes)
  <2>1. MINR2CPPACKETSIZE \in Nat
    BY WordsAre DEF MINR2CPPACKETSIZE
  <2>2. n \in Nat
    BY <1>1, <2>1, WordAtIs, WordsAre
  <2>3. r = CommandsRead(bytes, n)
    BY <1>1, Zenon DEF parser2cppacket, CommandsRead, FirstCommand
  <2> HIDE DEF r, n
  <2> QED
    BY <1>1, <2>2, <2>3 DEF r, n
<1>2. CASE ~ (validater2cppacket(bytes) /\ CanRead(bytes, MINR2CPPACKETSIZE, WordBytes))
  <2>1. \/ r = Throw(FirstCommand, "invalid_argument")
        \/ r = Throw(FirstCommand, "out_of_range")
    BY <1>2, Zenon DEF parser2cppacket, FirstCommand
  <2> HIDE DEF r
  <2>2. r.thrown # "none" /\ r.commands = <<>>
    BY <2>1 DEF Throw, FirstCommand
  <2> QED
    BY <1>2, <2>2 DEF r
<1> QED
  BY <1>1, <1>2

\* A loop that has not ended by the last turn had not ended at any.
LEMMA CommandOffsetsStay ==
    ASSUME NEW bytes, NEW n \in Nat, NEW o, IsCommandOffsets(o, bytes, n), o[n] # Ended,
           NEW m \in 0 .. n
    PROVE  o[m] \in Nat
<1> SUFFICES ASSUME o[m] = Ended
             PROVE  FALSE
  BY DEF IsCommandOffsets, Offsets
<1> DEFINE A == {j \in 0 .. n : j >= m => o[j] = Ended}
<1>1. 0 \in A
  OBVIOUS
<1>2. ASSUME NEW j \in 1 .. n, j - 1 \in A
      PROVE  j \in A
  <2>1. CASE j <= m
    BY <2>1
  <2>2. CASE j > m
    <3>1. o[j - 1] = Ended
      BY <1>2, <2>2
    <3>2. o[j] = Ended
      BY <3>1 DEF IsCommandOffsets, ValidateCommand
    <3> QED
      BY <3>2
  <2> QED
    BY <2>1, <2>2
<1>3. n \in A
  <2> HIDE DEF A
  <2>1. n \in 0 .. n
    OBVIOUS
  <2> QED
    BY <1>1, <1>2, <2>1, UpTo
<1> QED
  BY <1>3

LEMMA ParameterOffsetsStay ==
    ASSUME NEW content, NEW n \in Nat, NEW o, IsParameterOffsets(o, content, n), o[n] # Ended,
           NEW m \in 0 .. n
    PROVE  o[m] \in Nat
<1> SUFFICES ASSUME o[m] = Ended
             PROVE  FALSE
  BY DEF IsParameterOffsets, Offsets
<1> DEFINE A == {j \in 0 .. n : j >= m => o[j] = Ended}
<1>1. 0 \in A
  OBVIOUS
<1>2. ASSUME NEW j \in 1 .. n, j - 1 \in A
      PROVE  j \in A
  <2>1. CASE j <= m
    BY <2>1
  <2>2. CASE j > m
    <3>1. o[j - 1] = Ended
      BY <1>2, <2>2
    <3>2. o[j] = Ended
      BY <3>1 DEF IsParameterOffsets, ValidateParameter
    <3> QED
      BY <3>2
  <2> QED
    BY <2>1, <2>2
<1>3. n \in A
  <2> HIDE DEF A
  <2>1. n \in 0 .. n
    OBVIOUS
  <2> QED
    BY <1>1, <1>2, <2>1, UpTo
<1> QED
  BY <1>3

\* Where the parse reads a parameter the validation has passed over the same.
FollowsTheOffsets(p, o, n) ==
    \A m \in 0 .. n : p[m].thrown = "none" => p[m].offset = o[m]

LEMMA ParametersFollow ==
    ASSUME NEW code, NEW content \in Seq(Byte), Len(content) < WordModulus, NEW n \in Nat,
           NEW o, IsParameterOffsets(o, content, n),
           NEW p, IsParameterStates(p, code, content, n)
    PROVE  FollowsTheOffsets(p, o, n)
<1> DEFINE A == {j \in 0 .. n : p[j].thrown = "none" => p[j].offset = o[j]}
<1>1. 0 \in A
  BY DEF IsParameterOffsets, IsParameterStates, FirstParameter
<1>2. ASSUME NEW j \in 1 .. n, j - 1 \in A
      PROVE  j \in A
  <2> DEFINE s == p[j - 1]
             size == WordAt(content, s.offset + WordBytes)
             data == s.offset + 2 * WordBytes
  <2>1. /\ s \in ParameterReads /\ p[j] = ParseParameter(code, content, s)
        /\ o[j] = ValidateParameter(content, o[j - 1])
    <3>1. j - 1 \in 0 .. n
      OBVIOUS
    <3> QED
      BY <3>1 DEF IsParameterOffsets, IsParameterStates
  <2> SUFFICES ASSUME p[j].thrown = "none"
               PROVE  p[j].offset = o[j]
    OBVIOUS
  <2>2. /\ s.thrown = "none" /\ CanRead(content, s.offset, 2 * WordBytes)
        /\ CanRead(content, data, size) /\ size \in Nat /\ p[j].offset = data + size
    <3>1. ParseParameter(code, content, s).thrown = "none"
      BY <2>1
    <3> HIDE DEF s
    <3>2. LET t == ParseParameter(code, content, s)
          IN  /\ s.thrown = "none" /\ CanRead(content, s.offset, 2 * WordBytes)
              /\ CanRead(content, data, size) /\ size \in Nat /\ t.offset = data + size
      BY <2>1, <3>1, ParameterTurn
    <3> QED
      BY <2>1, <3>2
  <2>3. s.offset = o[j - 1] /\ s.offset \in Nat
    BY <1>2, <2>1, <2>2 DEF ParameterReads
  <2> HIDE DEF s
  <2>4. /\ s.offset + WordBytes < WordModulus /\ data + size < WordModulus
        /\ s.offset + WordBytes \in Nat /\ data \in Nat
        /\ CanRead(content, s.offset + WordBytes, WordBytes)
        /\ s.offset + WordBytes + WordBytes = data
    BY SMTT(60), <2>2, <2>3, WordsAre DEF CanRead
  <2>5. Skip(s.offset, WordBytes) = s.offset + WordBytes
    BY <2>3, <2>4, SkipIs, WordsAre
  <2>6. Skip(data, size) = data + size
    BY <2>2, <2>4, SkipIs
  <2>7. s.offset # Ended
    BY <2>3 DEF Ended
  <2>8. ValidateParameter(content, s.offset) = Skip(s.offset + WordBytes + WordBytes, size)
    <3> HIDE DEF size, data
    <3> QED
      BY <2>4, <2>5, <2>7 DEF ValidateParameter, size
  <2>9. o[j] = data + size
    BY <2>1, <2>3, <2>4, <2>6, <2>8
  <2> QED
    BY <2>2, <2>9
<1>3. \A m \in 0 .. n : m \in A
  <2> HIDE DEF A
  <2> QED
    BY <1>1, <1>2, UpTo
<1> QED
  BY <1>3 DEF FollowsTheOffsets

\* No size in a content is so large that adding it to an offset wraps.
ContentFits(content) ==
    \A o \in 0 .. Len(content) - WordBytes :
        WordAt(content, o) + Len(content) + WordBytes < WordModulus

\* The offsets of a validation that accepts go up, and do not leave the content.
OffsetsInside(o, content, n) ==
    \A j \in 1 .. n :
        /\ o[j - 1] \in Nat /\ o[j] \in Nat /\ o[j] <= Len(content)
        /\ CanRead(content, o[j - 1], 2 * WordBytes)
        /\ o[j] = o[j - 1] + 2 * WordBytes + WordAt(content, o[j - 1] + WordBytes)

LEMMA ParametersInside ==
    ASSUME NEW content \in Seq(Byte), ContentFits(content), NEW n \in Nat, CanRead(content, 0, WordBytes),
           NEW o, IsParameterOffsets(o, content, n), o[n] = Len(content)
    PROVE  OffsetsInside(o, content, n)
<1>1. Len(content) \in Nat /\ WordBytes \in Nat \ {0} /\ WordModulus \in Nat
  BY WordsAre
<1>2. \A j \in 0 .. n : o[j] \in Nat
  <2>1. o[n] # Ended
    BY <1>1 DEF Ended
  <2> QED
    BY <2>1, ParameterOffsetsStay
<1> DEFINE Turn(j) == /\ CanRead(content, o[j - 1], 2 * WordBytes)
                      /\ o[j] = o[j - 1] + 2 * WordBytes + WordAt(content, o[j - 1] + WordBytes)
                      /\ o[j - 1] <= o[j]
           Low(j) == o[j] + WordBytes < WordModulus
           A == {j \in 0 .. n : Low(j) /\ (j # 0 => Turn(j))}
<1>3. 0 \in A
  <2>1. 0 \in 0 .. Len(content) - WordBytes
    BY <1>1 DEF CanRead
  <2>2. WordAt(content, 0) \in Nat
    BY WordAtIs, WordsAre
  <2>3. WordAt(content, 0) + Len(content) + WordBytes < WordModulus /\ WordBytes <= Len(content)
    BY <1>1, <2>1 DEF ContentFits, CanRead
  <2>4. o[0] = WordBytes
    BY DEF IsParameterOffsets
  <2> QED
    BY <1>1, <2>2, <2>3, <2>4
<1>4. ASSUME NEW j \in 1 .. n, j - 1 \in A
      PROVE  j \in A
  <2> DEFINE from == o[j - 1]
             word == WordAt(content, from + WordBytes)
  <2>1. /\ j - 1 \in 0 .. n /\ j \in 0 .. n /\ from \in Nat /\ o[j] \in Nat
        /\ o[j] = ValidateParameter(content, from) /\ from + WordBytes < WordModulus
    BY <1>2, <1>4 DEF IsParameterOffsets
  <2> HIDE DEF from
  <2>2. Skip(from, WordBytes) = from + WordBytes /\ from + WordBytes \in Nat
    BY <1>1, <2>1, SkipIs
  <2>3. o[j] # Ended
    BY <2>1 DEF Ended
  <2>4. /\ CanRead(content, from + WordBytes, WordBytes)
        /\ o[j] = Skip(from + WordBytes + WordBytes, word)
    BY <2>1, <2>2, <2>3 DEF ValidateParameter
  <2>5. word \in Nat
    BY <2>2, <2>4, WordAtIs, WordsAre
  <2>6. from + WordBytes \in 0 .. Len(content) - WordBytes
    BY <1>1, <2>2, <2>4 DEF CanRead
  <2>7. word + Len(content) + WordBytes < WordModulus
    BY <2>6 DEF ContentFits
  <2> HIDE DEF word
  <2>8. /\ from + WordBytes + WordBytes \in Nat /\ from + WordBytes + WordBytes = from + 2 * WordBytes
        /\ from + WordBytes + WordBytes <= Len(content)
    BY <1>1, <2>1, <2>4 DEF CanRead
  <2>9. from + WordBytes + WordBytes + word < WordModulus
    BY <1>1, <2>5, <2>7, <2>8
  <2>10. o[j] = from + 2 * WordBytes + word
    BY <2>4, <2>5, <2>8, <2>9, SkipIs
  <2>11. CanRead(content, from, 2 * WordBytes)
    BY <1>1, <2>1, <2>8 DEF CanRead
  <2>12. o[j] + WordBytes < WordModulus /\ from <= o[j]
    BY <1>1, <2>1, <2>5, <2>7, <2>8, <2>10
  <2> QED
    BY <2>1, <2>10, <2>11, <2>12 DEF from, word
<1>5. \A j \in 0 .. n : j \in A
  <2> HIDE DEF A
  <2> QED
    BY <1>3, <1>4, UpTo
<1>6. \A j \in 1 .. n : Turn(j)
  <2> HIDE DEF Turn, Low
  <2> QED
    BY <1>5
<1> DEFINE B == {j \in 0 .. n : \A i \in 0 .. j : o[i] <= o[j]}
<1>7. 0 \in B
  BY <1>2
<1>8. ASSUME NEW j \in 1 .. n, j - 1 \in B
      PROVE  j \in B
  <2>1. o[j - 1] <= o[j]
    BY <1>6
  <2>2. ASSUME NEW i \in 0 .. j
        PROVE  o[i] <= o[j]
    <3>1. CASE i = j
      BY <1>2, <3>1
    <3>2. CASE i # j
      <4>1. i \in 0 .. j - 1 /\ i \in 0 .. n /\ j \in 0 .. n /\ j - 1 \in 0 .. n
        BY <3>2
      <4>2. o[i] <= o[j - 1]
        BY <1>8, <4>1
      <4>3. o[i] \in Nat /\ o[j] \in Nat /\ o[j - 1] \in Nat
        BY <1>2, <4>1
      <4> QED
        BY <2>1, <4>2, <4>3
    <3> QED
      BY <3>1, <3>2
  <2> QED
    BY <2>2
<1>9. n \in B
  <2> HIDE DEF B
  <2>1. n \in 0 .. n
    OBVIOUS
  <2> QED
    BY <1>7, <1>8, <2>1, UpTo
<1>10. \A j \in 0 .. n : o[j] <= Len(content)
  BY <1>9
<1> HIDE DEF A, B, Low
<1> QED
  BY <1>2, <1>6, <1>10 DEF OffsetsInside

\* The loops behind the two functions on a parameterized content.
LEMMA ParameterizedIs ==
    ASSUME NEW code, NEW content \in Seq(Byte), CanRead(content, 0, WordBytes)
    PROVE  LET n == WordAt(content, 0)
           IN  /\ n \in Nat
               /\ validateparameterizedcommandcontent(content)
                    <=> ParametersEnd(content, n) = Len(content)
               /\ parseparameterizedcommandcontent(code, content)
                    = ParametersRead(code, content, n)
<1> DEFINE n == WordAt(content, 0)
<1>1. n \in Nat
  BY WordAtIs, WordsAre
<1>2. validateparameterizedcommandcontent(content) <=> ParametersEnd(content, n) = Len(content)
  BY Zenon DEF validateparameterizedcommandcontent, ParametersEnd
<1>3. parseparameterizedcommandcontent(code, content) = ParametersRead(code, content, n)
  BY Zenon DEF parseparameterizedcommandcontent, ParametersRead, FirstParameter
<1> HIDE DEF n
<1> QED
  BY <1>1, <1>2, <1>3 DEF n

\* A content that the validation accepts is read without std::out_of_range.
LEMMA ContentReads ==
    ASSUME NEW code, NEW content \in Seq(Byte), Len(content) < WordModulus, ContentFits(content),
           validatecommandcontent(code, content)
    PROVE  parsecommandcontent(code, content).thrown # "out_of_range"
<1>1. CASE getcommandcontenttype(code) = PARAMETERIZEDCONTENT
  <2> DEFINE n == WordAt(content, 0)
             r == parsecommandcontent(code, content)
  <2>1. validateparameterizedcommandcontent(content)
    BY <1>1 DEF validatecommandcontent, PARAMETERIZEDCONTENT, NOCONTENT
  <2>2. CanRead(content, 0, WordBytes)
    BY <2>1 DEF validateparameterizedcommandcontent
  <2>3. r = parseparameterizedcommandcontent(code, content)
    BY <1>1 DEF parsecommandcontent, PARAMETERIZEDCONTENT, DIRECTCONTENT
  <2>4. n \in Nat /\ ParametersEnd(content, n) = Len(content) /\ r = ParametersRead(code, content, n)
    BY <2>1, <2>2, <2>3, ParameterizedIs
  <2> HIDE DEF n, r
  <2>5. PICK o : IsParameterOffsets(o, content, n) /\ ParametersEnd(content, n) = o[n]
    BY <2>4, ParameterOffsets
  <2>6. PICK p : IsParameterStates(p, code, content, n) /\ ParametersRead(code, content, n) = p[n]
    BY <2>4, ParameterStates
  <2>7. \A j \in 1 .. n :
             /\ o[j - 1] \in Nat /\ o[j] \in Nat /\ o[j] <= Len(content)
             /\ CanRead(content, o[j - 1], 2 * WordBytes)
             /\ o[j] = o[j - 1] + 2 * WordBytes + WordAt(content, o[j - 1] + WordBytes)
    <3>1. n \in Nat /\ IsParameterOffsets(o, content, n) /\ o[n] = Len(content)
      BY <2>4, <2>5
    <3>2. OffsetsInside(o, content, n)
      BY <2>2, <3>1, ParametersInside
    <3> QED
      BY <3>2 DEF OffsetsInside
  <2>11. \A m \in 0 .. n : p[m].thrown = "none" => p[m].offset = o[m]
    <3>1. /\ n \in Nat /\ IsParameterOffsets(o, content, n)
          /\ IsParameterStates(p, code, content, n)
      BY <2>4, <2>5, <2>6
    <3>2. FollowsTheOffsets(p, o, n)
      BY <3>1, ParametersFollow
    <3> QED
      BY <3>2 DEF FollowsTheOffsets
  <2> DEFINE A == {j \in 0 .. n : p[j].thrown # "out_of_range"}
  <2>8. 0 \in A
    BY <2>4, <2>6 DEF IsParameterStates, FirstParameter
  <2>9. ASSUME NEW j \in 1 .. n, j - 1 \in A
        PROVE  j \in A
    <3> DEFINE s == p[j - 1]
               size == WordAt(content, s.offset + WordBytes)
               data == s.offset + 2 * WordBytes
    <3>1. j - 1 \in 0 .. n
      BY <2>4
    <3>2. s \in ParameterReads /\ p[j] = ParseParameter(code, content, s)
      BY <2>6, <3>1 DEF IsParameterStates
    <3>3. s.thrown = "none" => s.offset = o[j - 1]
      BY <3>1, <2>11
    <3>4. s.thrown # "out_of_range"
      BY <2>9
    <3> HIDE DEF s
    <3> SUFFICES ASSUME p[j].thrown = "out_of_range"
                 PROVE  FALSE
      BY <2>4
    <3>5. /\ s.thrown = "none"
          /\ \/ ~ CanRead(content, s.offset, WordBytes)
             \/ ~ CanRead(content, s.offset, 2 * WordBytes)
             \/ ~ CanRead(content, data, size)
      <4> HIDE DEF size, data
      <4>1. /\ ParseParameter(code, content, s).thrown = "out_of_range" => 
                    \/ s.thrown = "out_of_range"
                    \/ s.thrown = "none" /\ ~ CanRead(content, s.offset, WordBytes)
                    \/ s.thrown = "none" /\ ~ CanRead(content, s.offset, 2 * WordBytes)
                    \/ s.thrown = "none" /\ ~ CanRead(content, data, size)
        BY <3>2, ParameterTurn DEF size, data
      <4> QED
        BY <3>2, <3>4, <4>1
    <3>6. s.offset = o[j - 1]
      BY <3>3, <3>5
    <3>7. /\ s.offset \in Nat /\ data + size <= Len(content)
          /\ CanRead(content, s.offset, 2 * WordBytes)
      BY <2>7, <3>6
    <3>8. CanRead(content, s.offset, WordBytes) /\ CanRead(content, data, size)
      BY <3>7, WordsAre DEF CanRead
    <3> QED
      BY <3>5, <3>7, <3>8
  <2>10. n \in A
    <3> HIDE DEF A
    <3>1. n \in 0 .. n
      BY <2>4
    <3> QED
      BY <2>4, <2>8, <2>9, <3>1, UpTo
  <2> QED
    BY <2>4, <2>6, <2>10 DEF r
<1>2. CASE getcommandcontenttype(code) # PARAMETERIZEDCONTENT
  <2>1. parsecommandcontent(code, content).thrown = "none"
    BY <1>2 DEF parsecommandcontent
  <2> QED
    BY <2>1
<1> QED
  BY <1>1, <1>2

\* Where the parse comes to a command the validation has read the same one.
LEMMA CommandFollows ==
    ASSUME NEW bytes \in Seq(Byte), Len(bytes) < WordModulus,
           NEW from \in Nat, NEW n \in Nat, CanRead(bytes, from, n),
           NEW o \in Nat, ValidateCommand(BytesAt(bytes, from, n), o) # Ended
    PROVE  LET code == WordAt(bytes, from + o)
               size == WordAt(bytes, from + o + WordBytes)
               start == from + o + 2 * WordBytes
           IN  /\ CanRead(bytes, from + o, 2 * WordBytes) /\ CanRead(bytes, start, size)
               /\ code \in Word /\ size \in Word /\ size \in Nat
               /\ validatecommandcontent(code, BytesAt(bytes, start, size))
               /\ start + size = from + ValidateCommand(BytesAt(bytes, from, n), o)
               /\ start + size < WordModulus
<1> DEFINE code == WordAt(bytes, from + o)
           size == WordAt(bytes, from + o + WordBytes)
           start == from + o + 2 * WordBytes
           body == BytesAt(bytes, from, n)
           a == WordAt(body, o)
           b == WordAt(body, o + WordBytes)
<1>1. body \in Seq(Byte) /\ Len(body) = n
  BY PartIs
<1>2. /\ CanRead(body, o, 2 * WordBytes) /\ CanRead(body, o + 2 * WordBytes, b)
      /\ validatecommandcontent(a, BytesAt(body, o + 2 * WordBytes, b))
      /\ ValidateCommand(body, o) = o + 2 * WordBytes + b
  BY DEF ValidateCommand
<1>3. o + 2 * WordBytes <= n /\ o + 2 * WordBytes + b <= n
  <2> HIDE DEF body, b
  <2> QED
    BY <1>1, <1>2 DEF CanRead
<1>4. /\ o + WordBytes <= n /\ o + WordBytes + WordBytes <= n /\ o + WordBytes \in Nat
      /\ from + (o + WordBytes) = from + o + WordBytes
      /\ o + 2 * WordBytes \in Nat /\ from + (o + 2 * WordBytes) = start
  <2> HIDE DEF b
  <2> QED
    BY <1>3, WordsAre
<1>5. a = code /\ b = size
  <2>1. a = WordAt(bytes, from + o)
    BY <1>4, WordOfPart
  <2>2. b = WordAt(bytes, from + (o + WordBytes))
    BY <1>4, WordOfPart
  <2> QED
    BY <1>4, <2>1, <2>2
<1>6. CanRead(bytes, from + o, 2 * WordBytes)
  BY <1>3, WordsAre DEF CanRead
<1>7. code \in Word /\ size \in Word
  <2>1. /\ CanRead(bytes, from + o, WordBytes) /\ CanRead(bytes, from + o + WordBytes, WordBytes)
        /\ from + o \in Nat /\ from + o + WordBytes \in Nat
    BY <1>6, WordsAre DEF CanRead
  <2> QED
    BY <2>1, WordAtIs
<1>8. size \in Nat
  BY <1>7, WordsAre
<1> HIDE DEF a, b, code, size, body
<1>9. CanRead(bytes, start, size)
  BY <1>3, <1>4, <1>5, <1>8 DEF CanRead
<1>10. BytesAt(body, o + 2 * WordBytes, size) = BytesAt(bytes, start, size)
  <2>1. BytesAt(body, o + 2 * WordBytes, size) = BytesAt(bytes, from + (o + 2 * WordBytes), size)
    BY <1>3, <1>4, <1>5, <1>8, PartOfPart DEF body
  <2> QED
    BY <1>4, <2>1
<1>11. validatecommandcontent(code, BytesAt(bytes, start, size))
  BY <1>2, <1>5, <1>10
<1>12. start + size = from + (o + 2 * WordBytes + size) /\ start + size < WordModulus
  BY <1>3, <1>4, <1>5, <1>8, <1>9, WordsAre DEF CanRead
<1> QED
  BY <1>2, <1>5, <1>6, <1>7, <1>8, <1>9, <1>11, <1>12 DEF code, size, body

\* What a turn of the loop over the commands does, told from the packet.
LEMMA CommandTaken ==
    ASSUME NEW bytes \in Seq(Byte), NEW s \in CommandReads, ParseCommand(bytes, s).thrown = "none"
    PROVE  LET code == WordAt(bytes, s.offset)
               size == WordAt(bytes, s.offset + WordBytes)
               start == s.offset + 2 * WordBytes
           IN  /\ s.thrown = "none"
               /\ \/ ParseCommand(bytes, s).offset = Skip(start, size)
                  \/ ParseCommand(bytes, s).offset = start + size
  BY CommandTurn

LEMMA CommandFaults ==
    ASSUME NEW bytes \in Seq(Byte), NEW s \in CommandReads,
           s.thrown = "none", ParseCommand(bytes, s).thrown # "none"
    PROVE  LET code == WordAt(bytes, s.offset)
               size == WordAt(bytes, s.offset + WordBytes)
               start == s.offset + 2 * WordBytes
           IN  \/ ~ CanRead(bytes, s.offset, 2 * WordBytes)
               \/ ~ CanRead(bytes, start, size)
               \/ parsecommandcontent(code, BytesAt(bytes, start, size)).thrown = "out_of_range"
  BY CommandTurn

LEMMA CommandsFollow ==
    ASSUME NEW bytes \in Seq(Byte), Len(bytes) < WordModulus, NEW size \in Nat,
           CanRead(bytes, MINR2CPPACKETSIZE, size), NEW n \in Nat,
           NEW o, IsCommandOffsets(o, BytesAt(bytes, MINR2CPPACKETSIZE, size), n), o[n] # Ended,
           NEW p, IsCommandStates(p, bytes, n), NEW m \in 0 .. n
    PROVE  p[m].thrown = "none" => p[m].offset = MINR2CPPACKETSIZE + o[m]
<1> DEFINE from == MINR2CPPACKETSIZE
           body == BytesAt(bytes, from, size)
           A == {j \in 0 .. n : p[j].thrown = "none" => p[j].offset = from + o[j]}
<1>1. from \in Nat
  BY WordsAre DEF MINR2CPPACKETSIZE
<1>2. \A j \in 0 .. n : o[j] \in Nat
  BY CommandOffsetsStay
<1> HIDE DEF from, body
<1>3. 0 \in A
  BY <1>1, WordsAre DEF IsCommandOffsets, IsCommandStates, FirstCommand, from
<1>4. ASSUME NEW j \in 1 .. n, j - 1 \in A
      PROVE  j \in A
  <2> DEFINE s == p[j - 1]
             code == WordAt(bytes, s.offset)
             sz == WordAt(bytes, s.offset + WordBytes)
             start == s.offset + 2 * WordBytes
  <2>1. /\ j - 1 \in 0 .. n /\ s \in CommandReads /\ p[j] = ParseCommand(bytes, s)
        /\ o[j] = ValidateCommand(body, o[j - 1]) /\ o[j - 1] \in Nat
        /\ o[j] \in Nat
    BY <1>2 DEF IsCommandOffsets, IsCommandStates, from, body
  <2> SUFFICES ASSUME p[j].thrown = "none"
               PROVE  p[j].offset = from + o[j]
    OBVIOUS
  <2> HIDE DEF s
  <2>2. /\ s.thrown = "none"
        /\ p[j].offset = Skip(start, sz) \/ p[j].offset = start + sz
    BY <2>1, CommandTaken
  <2>3. s.offset = from + o[j - 1]
    BY <1>4, <2>1, <2>2 DEF s
  <2>4. ValidateCommand(body, o[j - 1]) # Ended
    BY <2>1 DEF Ended
  <2>5. start + sz = from + o[j] /\ start + sz < WordModulus /\ sz \in Nat
    <3> DEFINE v == o[j - 1]
    <3>1. /\ from + v + 2 * WordBytes + WordAt(bytes, from + v + WordBytes)
               = from + ValidateCommand(body, v)
          /\ from + v + 2 * WordBytes + WordAt(bytes, from + v + WordBytes) < WordModulus
          /\ WordAt(bytes, from + v + WordBytes) \in Nat
      <4> HIDE DEF v
      <4> QED
        BY <1>1, <2>1, <2>4, CommandFollows DEF body, from, v
    <3> QED
      BY <2>1, <2>3, <3>1
  <2>6. start \in Nat
    BY <1>1, <2>1, <2>3, WordsAre
  <2> HIDE DEF start, sz
  <2>7. Skip(start, sz) = start + sz
    BY <2>5, <2>6, SkipIs
  <2> QED
    BY <2>2, <2>5, <2>7
<1>5. m \in A
  <2> HIDE DEF A
  <2> QED
    BY <1>3, <1>4, UpTo
<1> QED
  BY <1>5 DEF from

\* A packet that the validation accepts is read without an exception.
LEMMA PacketReads ==
    ASSUME NEW bytes \in Seq(Byte), validater2cppacket(bytes),
           Len(bytes) # MINR2CPPACKETSIZE,
           \A o \in MINR2CPPACKETSIZE .. Len(bytes) - WordBytes :
               WordAt(bytes, o) + Len(bytes) < WordModulus
    PROVE  parser2cppacket(bytes).thrown = "none"
<1> DEFINE from == MINR2CPPACKETSIZE
           size == WordAt(bytes, WordBytes)
           body == BytesAt(bytes, from, size)
           n == WordAt(bytes, from)
<1>1. /\ size \in Nat /\ Len(bytes) = from + size /\ Len(bytes) < WordModulus
      /\ CanRead(bytes, from, size) /\ body \in Seq(Byte) /\ Len(body) = size
  BY ValidatedIs
<1>2. from \in Nat /\ from = 2 * WordBytes /\ WordBytes \in Nat \ {0} /\ Len(bytes) \in Nat
  BY WordsAre DEF MINR2CPPACKETSIZE
<1>3. size # 0
  BY <1>1, <1>2
<1>4. /\ n \in Nat /\ CanRead(bytes, from, WordBytes)
      /\ CommandsEnd(body, n) = Len(body)
  BY <1>3, ValidatedIs
<1>5. parser2cppacket(bytes) = CommandsRead(bytes, n)
  BY <1>4, ParserIs
<1> HIDE DEF from, size, body, n
<1>6. PICK o : IsCommandOffsets(o, body, n) /\ CommandsEnd(body, n) = o[n]
  BY <1>1, <1>4, CommandOffsets
<1>7. PICK p : IsCommandStates(p, bytes, n) /\ CommandsRead(bytes, n) = p[n]
  BY <1>4, CommandStates
<1>8. o[n] # Ended /\ \A j \in 0 .. n : o[j] \in Nat
  <2>1. o[n] # Ended
    BY <1>1, <1>4, <1>6 DEF Ended
  <2> QED
    BY <1>4, <1>6, <2>1, CommandOffsetsStay
<1>9. \A m \in 0 .. n : p[m].thrown = "none" => p[m].offset = from + o[m]
  <2>1. IsCommandOffsets(o, BytesAt(bytes, MINR2CPPACKETSIZE, size), n)
    BY <1>6 DEF body, from
  <2>2. CanRead(bytes, MINR2CPPACKETSIZE, size)
    BY <1>1 DEF from
  <2> TAKE m \in 0 .. n
  <2>3. p[m].thrown = "none" => p[m].offset = MINR2CPPACKETSIZE + o[m]
    BY <1>1, <1>4, <1>7, <1>8, <2>1, <2>2, CommandsFollow
  <2> QED
    BY <2>3 DEF from
<1> DEFINE A == {j \in 0 .. n : p[j].thrown = "none"}
<1>10. 0 \in A
  BY <1>4, <1>7 DEF IsCommandStates, FirstCommand
<1>11. ASSUME NEW j \in 1 .. n, j - 1 \in A
       PROVE  j \in A
  <2> DEFINE s == p[j - 1]
             code == WordAt(bytes, s.offset)
             sz == WordAt(bytes, s.offset + WordBytes)
             start == s.offset + 2 * WordBytes
             content == BytesAt(bytes, start, sz)
  <2>1. /\ j - 1 \in 0 .. n /\ s \in CommandReads /\ p[j] = ParseCommand(bytes, s)
        /\ o[j] = ValidateCommand(body, o[j - 1]) /\ o[j - 1] \in Nat
        /\ o[j] # Ended
    BY <1>4, <1>6, <1>7, <1>8 DEF IsCommandOffsets, IsCommandStates, Ended
  <2>2. s.thrown = "none" /\ s.offset = from + o[j - 1]
    BY <1>9, <1>11, <2>1
  <2> SUFFICES ASSUME p[j].thrown # "none"
               PROVE  FALSE
    BY <1>4
  <2> HIDE DEF s
  <2>3. /\ CanRead(bytes, s.offset, 2 * WordBytes) /\ CanRead(bytes, start, sz) /\ sz \in Nat
        /\ validatecommandcontent(code, content)
    <3> DEFINE v == o[j - 1]
    <3>1. /\ CanRead(bytes, from + v, 2 * WordBytes)
          /\ CanRead(bytes, from + v + 2 * WordBytes, WordAt(bytes, from + v + WordBytes))
          /\ WordAt(bytes, from + v + WordBytes) \in Nat
          /\ validatecommandcontent(WordAt(bytes, from + v),
                                    BytesAt(bytes, from + v + 2 * WordBytes,
                                            WordAt(bytes, from + v + WordBytes)))
      <4> HIDE DEF v
      <4> QED
        BY <1>1, <1>2, <2>1, ZenonT(60), CommandFollows DEF body, v
    <3> QED
      BY <2>2, <3>1
  <2>4. \/ ~ CanRead(bytes, s.offset, 2 * WordBytes)
        \/ ~ CanRead(bytes, start, sz)
        \/ parsecommandcontent(code, content).thrown = "out_of_range"
    BY <2>1, <2>2, CommandFaults
  <2>5. start \in Nat /\ start >= WordBytes + from /\ start + sz <= Len(bytes)
    <3> DEFINE v == o[j - 1]
    <3>1. v \in Nat /\ s.offset = from + v
      BY <2>1, <2>2
    <3>2. sz \in Nat /\ start + sz <= Len(bytes)
      BY <2>3 DEF CanRead
    <3> HIDE DEF sz, v
    <3>3. s.offset \in Nat /\ s.offset >= from
      BY <1>2, <3>1
    <3> QED
      BY <1>2, <3>2, <3>3
  <2> HIDE DEF start, sz, code
  <2>6. content \in Seq(Byte) /\ Len(content) = sz
    BY <2>3, <2>5, PartIs
  <2> HIDE DEF content
  <2>7. ContentFits(content)
    <3> SUFFICES ASSUME NEW i \in 0 .. Len(content) - WordBytes
                 PROVE  WordAt(content, i) + Len(content) + WordBytes < WordModulus
      BY DEF ContentFits
    <3>1. i \in Nat /\ i + WordBytes <= sz
      BY <1>2, <2>3, <2>6
    <3>2. WordAt(content, i) = WordAt(bytes, start + i)
      BY <2>3, <2>5, <3>1, WordOfPart DEF content
    <3>3. start + i \in from .. Len(bytes) - WordBytes
      <4>1. sz \in Nat
        BY <2>3
      <4> QED
        BY SMTT(60), <1>2, <2>5, <3>1, <4>1
    <3>4. WordAt(bytes, start + i) + Len(bytes) < WordModulus
      BY <3>3 DEF from
    <3>5. WordAt(bytes, start + i) \in Nat
      <4>1. start + i \in Nat /\ CanRead(bytes, start + i, WordBytes)
        BY <1>2, <2>5, <3>3 DEF CanRead
      <4> QED
        BY <4>1, WordAtIs, WordsAre
    <3>6. sz + WordBytes <= Len(bytes)
      BY <1>2, <2>3, <2>5
    <3> QED
      BY <1>2, <2>3, <2>6, <3>2, <3>4, <3>5, <3>6, WordsAre
  <2>8. Len(content) < WordModulus
    BY <1>1, <1>2, <2>3, <2>5, <2>6, WordsAre
  <2>9. parsecommandcontent(code, content).thrown # "out_of_range"
    BY <2>3, <2>6, <2>7, <2>8, ContentReads
  <2> QED
    BY <2>3, <2>4, <2>9
<1>12. n \in A
  <2> HIDE DEF A
  <2>1. n \in 0 .. n
    BY <1>4
  <2> QED
    BY <1>4, <1>10, <1>11, <2>1, UpTo
<1> QED
  BY <1>5, <1>7, <1>12

-----------------------------------------------------------------------------
(* What is read is known *)

KnownCommand(k) ==
    /\ k.code \in commandsset \ {INVALIDCOMMAND}
    /\ \A i \in DOMAIN k.parameters : k.parameters[i].code \in getcommandparameters(k.code)

LEMMA CommandAdded ==
    ASSUME NEW bytes \in Seq(Byte), NEW s \in CommandReads
    PROVE  \/ ParseCommand(bytes, s).commands = s.commands
           \/ \E k \in R2CPCommand : /\ KnownCommand(k)
                                     /\ ParseCommand(bytes, s).commands = Append(s.commands, k)
<1> DEFINE t == ParseCommand(bytes, s)
           code == WordAt(bytes, s.offset)
           size == WordAt(bytes, s.offset + WordBytes)
           start == s.offset + 2 * WordBytes
           content == parsecommandcontent(code, BytesAt(bytes, start, size))
           k == [code |-> code, parameters |-> content.parameters]
<1> SUFFICES ASSUME t.commands # s.commands
             PROVE  k \in R2CPCommand /\ KnownCommand(k) /\ t.commands = Append(s.commands, k)
  OBVIOUS
<1>1. /\ t.thrown = "none" /\ CanRead(bytes, s.offset, 2 * WordBytes)
      /\ code \in Word /\ size \in Word /\ checkifvalidcommand(code)
      /\ CanRead(bytes, start, size)
      /\ content.thrown = "none" /\ t.commands = Append(s.commands, k)
  BY CommandTurn
<1>2. start \in Nat /\ size \in Nat
  <2>1. s.offset \in Nat
    BY DEF CommandReads
  <2>2. size \in Nat
    <3> HIDE DEF size, code, start, content, k, t
    <3> QED
      BY <1>1, WordsAre
  <2> QED
    BY <2>1, <2>2, WordsAre
<1>3. BytesAt(bytes, start, size) \in Seq(Byte)
  BY <1>1, <1>2, PartIs
<1>4. /\ content.parameters \in Seq(R2CPParameter)
      /\ \A i \in DOMAIN content.parameters :
            content.parameters[i].code \in getcommandparameters(code)
  <2> HIDE DEF code, size, start
  <2> QED
    BY <1>1, <1>3, ContentParsed
<1> HIDE DEF t, code, content
<1> QED
  BY <1>1, <1>4 DEF R2CPCommand, KnownCommand, checkifvalidcommand

LEMMA PacketKnown ==
    ASSUME NEW bytes \in Seq(Byte), NEW k \in ToSet(parser2cppacket(bytes).commands)
    PROVE  KnownCommand(k)
<1> DEFINE n == WordAt(bytes, MINR2CPPACKETSIZE)
           r == parser2cppacket(bytes)
<1>1. CASE r.commands = <<>>
  BY <1>1 DEF ToSet
<1>2. CASE n \in Nat /\ r = CommandsRead(bytes, n)
  <2> HIDE DEF n, r
  <2>1. PICK p : IsCommandStates(p, bytes, n) /\ CommandsRead(bytes, n) = p[n]
    BY <1>2, CommandStates
  <2> DEFINE Known(list) == \A j \in DOMAIN list : KnownCommand(list[j])
             A == {i \in 0 .. n : Known(p[i].commands)}
  <2>2. 0 \in A
    BY <1>2, <2>1 DEF IsCommandStates, FirstCommand
  <2>3. ASSUME NEW i \in 1 .. n, i - 1 \in A
        PROVE  i \in A
    <3> DEFINE s == p[i - 1]
    <3>1. s \in CommandReads /\ p[i] = ParseCommand(bytes, s) /\ Known(s.commands)
      <4>1. i - 1 \in 0 .. n
        BY <1>2
      <4> QED
        BY <2>1, <2>3, <4>1 DEF IsCommandStates
    <3>2. s.commands \in Seq(R2CPCommand)
      BY <3>1 DEF CommandReads
    <3> HIDE DEF s
    <3>3. CASE p[i].commands = s.commands
      BY <1>2, <3>1, <3>3
    <3>4. ASSUME NEW c \in R2CPCommand, KnownCommand(c), p[i].commands = Append(s.commands, c)
          PROVE  i \in A
      <4>1. Known(Append(s.commands, c))
        BY <3>1, <3>2, <3>4
      <4>2. Known(p[i].commands)
        BY <3>4, <4>1
      <4> QED
        BY <1>2, <4>2
    <3> QED
      BY <3>1, <3>3, <3>4, CommandAdded
  <2>4. n \in A
    <3> HIDE DEF A
    <3>1. n \in 0 .. n
      BY <1>2
    <3> QED
      BY <1>2, <2>2, <2>3, <3>1, UpTo
  <2> QED
    BY <1>2, <2>1, <2>4 DEF ToSet, r
<1> QED
  BY <1>1, <1>2, ParserIs

-----------------------------------------------------------------------------
(* Words and their bytes *)

\* The bytes that are written for a word are the ones it was read from.
LEMMA WordBack ==
    ASSUME NEW bytes \in Seq(Byte), NEW offset \in Nat, CanRead(bytes, offset, WordBytes)
    PROVE  WordToBytes(WordAt(bytes, offset)) = BytesAt(bytes, offset, WordBytes)
<1> USE FormatAssumption
<1>1. PICK w : IsWord(w, bytes, offset) /\ WordAt(bytes, offset) = w[WordBytes]
  BY WordRead
<1> DEFINE n == w[WordBytes]
           A == {j \in 0 .. WordBytes : n \div Weight[j] = w[WordBytes - j]}
<1>2. \A i \in 0 .. WordBytes : w[i] \in Nat
  BY <1>1, WeightIs DEF IsWord
<1>3. 0 \in A
  BY SMTT(30), <1>2, WeightIs
<1>4. ASSUME NEW i \in 1 .. WordBytes
      PROVE  w[i] \div ByteModulus = w[i - 1] /\ w[i] % ByteModulus = bytes[offset + i]
  <2>1. w[i] = w[i - 1] * ByteModulus + bytes[offset + i]
    BY <1>1 DEF IsWord
  <2>2. w[i - 1] \in Nat /\ bytes[offset + i] \in 0 .. ByteModulus - 1
    BY <1>2 DEF CanRead, Byte
  <2>3. ByteModulus \in Nat \ {0}
    OBVIOUS
  <2> DEFINE q == w[i - 1]
             r == bytes[offset + i]
  <2>4. w[i] = q * ByteModulus + r /\ q \in Nat /\ r \in 0 .. ByteModulus - 1
    BY <2>1, <2>2
  <2> HIDE DEF q, r
  <2>5. (q * ByteModulus + r) \div ByteModulus = q /\ (q * ByteModulus + r) % ByteModulus = r
    BY <2>3, <2>4, DivisionIs
  <2> QED
    BY <2>4, <2>5, Zenon DEF q, r
<1>5. ASSUME NEW j \in 1 .. WordBytes, j - 1 \in A
      PROVE  j \in A
  <2>1. /\ Weight[j - 1] \in Nat \ {0} /\ Weight[j] = ByteModulus * Weight[j - 1]
        /\ n \in Nat /\ WordBytes - j + 1 \in 1 .. WordBytes
        /\ WordBytes - (j - 1) = WordBytes - j + 1 /\ WordBytes - j + 1 - 1 = WordBytes - j
    BY SMTT(30), <1>2, WeightIs
  <2> HIDE DEF n
  <2>2. n \div Weight[j] = (n \div Weight[j - 1]) \div ByteModulus
    BY <2>1, DivisionTwice
  <2>3. n \div Weight[j - 1] = w[WordBytes - j + 1]
    BY <1>5, <2>1
  <2>4. w[WordBytes - j + 1] \div ByteModulus = w[WordBytes - j]
    BY <1>4, <2>1
  <2> QED
    BY <2>2, <2>3, <2>4
<1>6. \A j \in 0 .. WordBytes : n \div Weight[j] = w[WordBytes - j]
  <2>1. \A j \in 0 .. WordBytes : j \in A
    <3> HIDE DEF A
    <3> QED
      BY <1>3, <1>5, UpTo
  <2> QED
    BY <2>1
<1> DEFINE a == WordToBytes(n)
           b == BytesAt(bytes, offset, WordBytes)
<1>7. /\ a \in Seq(Byte) /\ Len(a) = WordBytes
      /\ \A i \in 1 .. WordBytes : a[i] = (n \div Weight[WordBytes - i]) % ByteModulus
  <2>1. n \in Nat
    BY <1>2
  <2> HIDE DEF n
  <2> QED
    BY <2>1, WordBytesAre
<1>8. b \in Seq(Byte) /\ Len(b) = WordBytes /\ \A i \in 1 .. WordBytes : b[i] = bytes[offset + i]
  BY PartIs
<1> HIDE DEF a, b, n
<1>9. ASSUME NEW i \in 1 .. WordBytes
      PROVE  a[i] = b[i]
  <2>1. WordBytes - i \in 0 .. WordBytes /\ WordBytes - (WordBytes - i) = i
    OBVIOUS
  <2>2. n \div Weight[WordBytes - i] = w[i]
    BY <1>6, <2>1
  <2> QED
    BY <1>4, <1>7, <1>8, <2>2
<1>10. a = b
  BY <1>7, <1>8, <1>9, SeqEqual
<1> QED
  BY <1>1, <1>10 DEF a, b, n

\* Two parts that follow each other are one.
LEMMA PartsJoin ==
    ASSUME NEW bytes \in Seq(Byte), NEW offset \in Nat, NEW n \in Nat, NEW m \in Nat,
           CanRead(bytes, offset, n + m)
    PROVE  BytesAt(bytes, offset, n) \o BytesAt(bytes, offset + n, m) = BytesAt(bytes, offset, n + m)
<1> DEFINE a == BytesAt(bytes, offset, n)
           b == BytesAt(bytes, offset + n, m)
           c == BytesAt(bytes, offset, n + m)
           ab == a \o b
<1>1. CanRead(bytes, offset, n) /\ CanRead(bytes, offset + n, m) /\ offset + n \in Nat /\ n + m \in Nat
  BY DEF CanRead
<1>2. a \in Seq(Byte) /\ Len(a) = n /\ \A i \in 1 .. n : a[i] = bytes[offset + i]
  BY <1>1, PartIs
<1>3. b \in Seq(Byte) /\ Len(b) = m /\ \A i \in 1 .. m : b[i] = bytes[offset + n + i]
  BY <1>1, PartIs
<1>4. c \in Seq(Byte) /\ Len(c) = n + m /\ \A i \in 1 .. n + m : c[i] = bytes[offset + i]
  BY <1>1, PartIs
<1> HIDE DEF a, b, c
<1>5. /\ ab \in Seq(Byte) /\ Len(ab) = n + m
      /\ \A i \in 1 .. n : ab[i] = a[i]
      /\ \A i \in 1 .. m : ab[n + i] = b[i]
  <2>1. /\ a \o b \in Seq(Byte) /\ Len(a \o b) = Len(a) + Len(b)
        /\ \A i \in 1 .. Len(a) : (a \o b)[i] = a[i]
        /\ \A i \in 1 .. Len(b) : (a \o b)[Len(a) + i] = b[i]
    <3>1. a \in Seq(Byte) /\ b \in Seq(Byte)
      BY <1>2, <1>3
    <3> QED
      BY <3>1, ConcatIs
  <2>2. Len(a) = n /\ Len(b) = m
    BY <1>2, <1>3
  <2> QED
    BY <2>1, <2>2, Zenon
<1> HIDE DEF ab
<1>6. ASSUME NEW i \in 1 .. n + m
      PROVE  ab[i] = c[i]
  <2>1. CASE i <= n
    <3>1. i \in 1 .. n
      BY <2>1
    <3>2. ab[i] = a[i] /\ a[i] = bytes[offset + i] /\ c[i] = bytes[offset + i]
      BY <1>2, <1>4, <1>5, <3>1, Zenon
    <3> QED
      BY <3>2
  <2>2. CASE i > n
    <3>1. i - n \in 1 .. m /\ n + (i - n) = i /\ offset + n + (i - n) = offset + i
      BY <2>2
    <3>2. ab[n + (i - n)] = b[i - n] /\ b[i - n] = bytes[offset + n + (i - n)]
      BY <1>3, <1>5, <3>1
    <3> QED
      BY <1>4, <3>1, <3>2
  <2> QED
    BY <2>1, <2>2
<1>7. ab = c
  BY <1>4, <1>5, <1>6, SeqEqual
<1> QED
  BY <1>7 DEF a, b, c, ab

\* A head of two words and what they head, as they were read.
LEMMA HeadedBack ==
    ASSUME NEW bytes \in Seq(Byte), NEW offset \in Nat, NEW size \in Nat,
           CanRead(bytes, offset, 2 * WordBytes + size)
    PROVE  WordToBytes(WordAt(bytes, offset)) \o WordToBytes(WordAt(bytes, offset + WordBytes))
             \o BytesAt(bytes, offset + 2 * WordBytes, size)
               = BytesAt(bytes, offset, 2 * WordBytes + size)
<1>1. /\ WordBytes \in Nat /\ 2 * WordBytes \in Nat /\ WordBytes + WordBytes = 2 * WordBytes
      /\ offset + WordBytes \in Nat /\ CanRead(bytes, offset, WordBytes)
      /\ CanRead(bytes, offset + WordBytes, WordBytes)
      /\ CanRead(bytes, offset, WordBytes + WordBytes)
  BY WordsAre DEF CanRead
<1>2. /\ WordToBytes(WordAt(bytes, offset)) = BytesAt(bytes, offset, WordBytes)
      /\ WordToBytes(WordAt(bytes, offset + WordBytes)) = BytesAt(bytes, offset + WordBytes, WordBytes)
  BY <1>1, WordBack
<1>3. BytesAt(bytes, offset, WordBytes) \o BytesAt(bytes, offset + WordBytes, WordBytes)
        = BytesAt(bytes, offset, 2 * WordBytes)
  <2>1. BytesAt(bytes, offset, WordBytes) \o BytesAt(bytes, offset + WordBytes, WordBytes)
          = BytesAt(bytes, offset, WordBytes + WordBytes)
    BY <1>1, PartsJoin
  <2> QED
    BY <1>1, <2>1
<1>4. BytesAt(bytes, offset, 2 * WordBytes) \o BytesAt(bytes, offset + 2 * WordBytes, size)
        = BytesAt(bytes, offset, 2 * WordBytes + size)
  BY <1>1, PartsJoin
<1> QED
  BY <1>2, <1>3, <1>4, Zenon

-----------------------------------------------------------------------------
(* What is read, as bytes *)

ParameterParts(list) == [i \in DOMAIN list |-> ParameterBytes(list[i])]

LEMMA ParameterPartsAre ==
    ASSUME NEW list \in Seq(R2CPParameter)
    PROVE  /\ ParameterParts(list) \in Seq(Seq(Byte)) /\ Len(ParameterParts(list)) = Len(list)
           /\ FlattenSeq(ParameterParts(list)) \in Seq(Byte)
<1>1. \A i \in DOMAIN list : ParameterBytes(list[i]) \in Seq(Byte)
  BY ParameterBytesAre
<1>2. Len(list) \in Nat /\ DOMAIN list = 1 .. Len(list)
  OBVIOUS
<1>3. ParameterParts(list) \in Seq(Seq(Byte)) /\ Len(ParameterParts(list)) = Len(list)
  BY <1>1, <1>2 DEF ParameterParts
<1> QED
  BY <1>3, FlattenTyped

LEMMA ParameterPartsAppend ==
    ASSUME NEW list \in Seq(R2CPParameter), NEW e \in R2CPParameter
    PROVE  FlattenSeq(ParameterParts(Append(list, e)))
             = FlattenSeq(ParameterParts(list)) \o ParameterBytes(e)
<1> DEFINE a == ParameterParts(Append(list, e))
           b == Append(ParameterParts(list), ParameterBytes(e))
           n == Len(list) + 1
<1>1. ParameterParts(list) \in Seq(Seq(Byte)) /\ ParameterBytes(e) \in Seq(Byte)
  BY ParameterPartsAre, ParameterBytesAre
<1>2. Append(list, e) \in Seq(R2CPParameter) /\ Len(Append(list, e)) = n /\ Len(list) \in Nat
  OBVIOUS
<1>3. a \in Seq(Seq(Byte)) /\ Len(a) = n
  BY <1>2, ParameterPartsAre
<1>4. Len(ParameterParts(list)) = Len(list)
  BY ParameterPartsAre
<1>5. b \in Seq(Seq(Byte)) /\ Len(b) = n
  BY <1>1, <1>4
<1>6. ASSUME NEW i \in 1 .. n
      PROVE  a[i] = b[i]
  <2>1. a[i] = ParameterBytes(Append(list, e)[i])
    BY <1>2 DEF ParameterParts
  <2>2. CASE i = n
    <3>1. Append(list, e)[i] = e /\ b[i] = ParameterBytes(e)
      BY <1>1, <1>4, <2>2
    <3> QED
      BY <2>1, <3>1
  <2>3. CASE i # n
    <3>1. i \in 1 .. Len(list)
      BY <2>3
    <3>2. Append(list, e)[i] = list[i] /\ b[i] = ParameterParts(list)[i]
      BY <1>1, <1>4, <3>1
    <3>3. ParameterParts(list)[i] = ParameterBytes(list[i])
      BY <3>1 DEF ParameterParts
    <3> QED
      BY <2>1, <3>2, <3>3
  <2> QED
    BY <2>2, <2>3
<1> HIDE DEF n
<1>7. a = b
  <2> HIDE DEF a, b
  <2> QED
    BY <1>3, <1>5, <1>6, SeqEqual
<1>8. FlattenSeq(b) = FlattenSeq(ParameterParts(list)) \o ParameterBytes(e)
  BY <1>1, FlattenAppend
<1> QED
  BY <1>7, <1>8

LEMMA ParameterBack ==
    ASSUME NEW content \in Seq(Byte), NEW offset \in Nat, CanRead(content, offset, 2 * WordBytes),
           CanRead(content, offset + 2 * WordBytes, WordAt(content, offset + WordBytes))
    PROVE  LET size == WordAt(content, offset + WordBytes)
               e == [code |-> WordAt(content, offset),
                     data |-> BytesAt(content, offset + 2 * WordBytes, size)]
           IN  /\ size \in Nat /\ e \in R2CPParameter
               /\ CanRead(content, offset, 2 * WordBytes + size)
               /\ ParameterBytes(e) = BytesAt(content, offset, 2 * WordBytes + size)
<1> DEFINE size == WordAt(content, offset + WordBytes)
           e == [code |-> WordAt(content, offset),
                 data |-> BytesAt(content, offset + 2 * WordBytes, size)]
<1>1. size \in Nat /\ e \in R2CPParameter
  <2>1. CanRead(content, offset, WordBytes)
    BY WordsAre DEF CanRead
  <2> QED
    BY <2>1, ParameterAt
<1> HIDE DEF size
<1>2. offset + 2 * WordBytes \in Nat /\ CanRead(content, offset, 2 * WordBytes + size)
  BY <1>1, WordsAre DEF CanRead, size
<1>3. Len(e.data) = size
  <2>1. Len(BytesAt(content, offset + 2 * WordBytes, size)) = size
    BY <1>1, <1>2, PartIs DEF size
  <2> QED
    BY <2>1
<1>4. WordToBytes(WordAt(content, offset)) \o WordToBytes(size)
        \o BytesAt(content, offset + 2 * WordBytes, size)
          = BytesAt(content, offset, 2 * WordBytes + size)
  BY <1>1, <1>2, HeadedBack DEF size
<1>5. ParameterBytes(e) = WordToBytes(e.code) \o WordToBytes(Len(e.data)) \o e.data
  BY DEF ParameterBytes
<1>6. /\ e.code = WordAt(content, offset)
      /\ e.data = BytesAt(content, offset + 2 * WordBytes, size)
  OBVIOUS
<1> HIDE DEF e
<1>7. ParameterBytes(e) = BytesAt(content, offset, 2 * WordBytes + size)
  BY <1>3, <1>4, <1>5, <1>6, Zenon
<1> QED
  BY <1>1, <1>2, <1>7 DEF e, size

\* The parameters that j turns have read are the content up to the offset.
ParametersAre(content, s, j) ==
    /\ Len(s.parameters) = j
    /\ s.offset - WordBytes \in Nat
    /\ CanRead(content, WordBytes, s.offset - WordBytes)
    /\ FlattenSeq(ParameterParts(s.parameters)) = BytesAt(content, WordBytes, s.offset - WordBytes)

LEMMA ParametersBack ==
    ASSUME NEW code, NEW content \in Seq(Byte), CanRead(content, 0, WordBytes), NEW n \in Nat,
           NEW p, IsParameterStates(p, code, content, n), NEW m \in 0 .. n
    PROVE  p[m].thrown = "none" => ParametersAre(content, p[m], m)
<1> DEFINE A == {j \in 0 .. n : p[j].thrown = "none" => ParametersAre(content, p[j], j)}
<1>1. ParametersAre(content, FirstParameter, 0)
  <2>1. FirstParameter.parameters = <<>> /\ FirstParameter.offset = WordBytes
    BY DEF FirstParameter
  <2>2. WordBytes - WordBytes = 0 /\ CanRead(content, WordBytes, 0)
    BY WordsAre DEF CanRead
  <2>3. BytesAt(content, WordBytes, 0) = <<>>
    <3>1. BytesAt(content, WordBytes, 0) \in Seq(Byte) /\ Len(BytesAt(content, WordBytes, 0)) = 0
      BY <2>2, PartIs, WordsAre
    <3> QED
      BY <3>1, EmptySeq
  <2>4. FlattenSeq(ParameterParts(<<>>)) = <<>>
    <3>1. ParameterParts(<<>>) = <<>>
      BY DEF ParameterParts
    <3> QED
      BY <3>1, FlattenEmpty
  <2>5. FirstParameter.offset - WordBytes = 0
    BY <2>1, <2>2
  <2> QED
    BY <2>1, <2>2, <2>3, <2>4, <2>5 DEF ParametersAre
<1>2. 0 \in A
  BY <1>1 DEF IsParameterStates
<1>3. ASSUME NEW j \in 1 .. n, j - 1 \in A
      PROVE  j \in A
  <2> DEFINE s == p[j - 1]
             t == p[j]
             size == WordAt(content, s.offset + WordBytes)
             data == s.offset + 2 * WordBytes
             e == [code |-> WordAt(content, s.offset), data |-> BytesAt(content, data, size)]
  <2>1. s \in ParameterReads /\ t = ParseParameter(code, content, s)
    <3>1. j - 1 \in 0 .. n
      OBVIOUS
    <3> QED
      BY <3>1 DEF IsParameterStates
  <2> SUFFICES ASSUME t.thrown = "none"
               PROVE  ParametersAre(content, t, j)
    BY <1>3
  <2>2. s.parameters \in Seq(R2CPParameter) /\ s.offset \in Nat
    BY <2>1 DEF ParameterReads
  <2> HIDE DEF s, t
  <2>3. /\ s.thrown = "none" /\ CanRead(content, s.offset, 2 * WordBytes)
        /\ CanRead(content, data, size) /\ t.offset = data + size
        /\ t.parameters = Append(s.parameters, e)
    <3>1. ParseParameter(code, content, s).thrown = "none"
      BY <2>1
    <3> QED
      BY <2>1, <3>1, ParameterTurn
  <2>4. /\ Len(s.parameters) = j - 1
        /\ s.offset - WordBytes \in Nat
        /\ CanRead(content, WordBytes, s.offset - WordBytes)
        /\ FlattenSeq(ParameterParts(s.parameters))
             = BytesAt(content, WordBytes, s.offset - WordBytes)
    BY <1>3, <2>3 DEF ParametersAre, s
  <2>5. /\ size \in Nat /\ e \in R2CPParameter
        /\ CanRead(content, s.offset, 2 * WordBytes + size)
        /\ ParameterBytes(e) = BytesAt(content, s.offset, 2 * WordBytes + size)
    BY <2>2, <2>3, ParameterBack
  <2> DEFINE a == s.offset - WordBytes
             b == 2 * WordBytes + size
  <2> HIDE DEF size, e, data
  <2>6. /\ Len(t.parameters) = j
        /\ FlattenSeq(ParameterParts(t.parameters))
             = FlattenSeq(ParameterParts(s.parameters)) \o ParameterBytes(e)
    <3>1. Len(t.parameters) = j
      BY <2>2, <2>3, <2>4, <2>5
    <3> QED
      BY <2>2, <2>3, <2>5, <3>1, ParameterPartsAppend
  <2>7. /\ a \in Nat /\ b \in Nat /\ a + b = t.offset - WordBytes /\ s.offset = WordBytes + a
        /\ CanRead(content, WordBytes, a + b)
    BY SMTT(60), <2>2, <2>3, <2>4, <2>5, WordsAre DEF CanRead, data
  <2> HIDE DEF a, b
  <2>8. BytesAt(content, WordBytes, a) \o BytesAt(content, WordBytes + a, b)
          = BytesAt(content, WordBytes, a + b)
    BY <2>7, PartsJoin, WordsAre
  <2>9. FlattenSeq(ParameterParts(s.parameters)) = BytesAt(content, WordBytes, a)
    BY <2>4 DEF a
  <2>10. ParameterBytes(e) = BytesAt(content, WordBytes + a, b)
    BY <2>5, <2>7 DEF b
  <2>11. a + b \in Nat
    BY <2>7
  <2> QED
    BY <2>6, <2>7, <2>8, <2>9, <2>10, <2>11, Zenon DEF ParametersAre
<1>4. m \in A
  <2> HIDE DEF A
  <2> QED
    BY <1>2, <1>3, UpTo
<1> QED
  BY <1>4

LEMMA ContentTypes ==
    ASSUME NEW code
    PROVE  getcommandcontenttype(code) \in {NOCONTENT, DIRECTCONTENT, PARAMETERIZEDCONTENT}
  BY DEF getcommandcontenttype, commandcontenttypemap

\* A content that is valid and has been read is made of what was read.
LEMMA ContentBack ==
    ASSUME NEW code, NEW content \in Seq(Byte), Len(content) < WordModulus,
           validatecommandcontent(code, content),
           parsecommandcontent(code, content).thrown = "none"
    PROVE  Content([code |-> code, parameters |-> parsecommandcontent(code, content).parameters])
             = content
<1> DEFINE r == parsecommandcontent(code, content)
           k == [code |-> code, parameters |-> r.parameters]
<1>0. k.code = code /\ k.parameters = r.parameters
  OBVIOUS
<1>1. CASE getcommandcontenttype(code) = PARAMETERIZEDCONTENT
  <2> DEFINE n == WordAt(content, 0)
  <2>1. validateparameterizedcommandcontent(content)
    BY <1>1 DEF validatecommandcontent, PARAMETERIZEDCONTENT, NOCONTENT
  <2>2. CanRead(content, 0, WordBytes)
    BY <2>1 DEF validateparameterizedcommandcontent
  <2>3. r = parseparameterizedcommandcontent(code, content)
    BY <1>1 DEF parsecommandcontent, PARAMETERIZEDCONTENT, DIRECTCONTENT
  <2>4. n \in Nat /\ ParametersEnd(content, n) = Len(content) /\ r = ParametersRead(code, content, n)
    BY <2>1, <2>2, <2>3, ParameterizedIs
  <2>5. r.thrown = "none"
    OBVIOUS
  <2>6. WordToBytes(n) = BytesAt(content, 0, WordBytes)
    BY <2>2, WordBack
  <2> HIDE DEF n, r, k
  <2>7. PICK o : IsParameterOffsets(o, content, n) /\ ParametersEnd(content, n) = o[n]
    BY <2>4, ParameterOffsets
  <2>8. PICK p : IsParameterStates(p, code, content, n) /\ ParametersRead(code, content, n) = p[n]
    BY <2>4, ParameterStates
  <2>9. n \in 0 .. n /\ p[n].thrown = "none" /\ p[n] = r /\ o[n] = Len(content)
    BY <2>4, <2>5, <2>7, <2>8
  <2>10. r.offset = Len(content)
    <3>1. \A m \in 0 .. n : p[m].thrown = "none" => p[m].offset = o[m]
      <4>1. /\ n \in Nat /\ IsParameterOffsets(o, content, n)
            /\ IsParameterStates(p, code, content, n)
        BY <2>4, <2>7, <2>8
      <4>2. FollowsTheOffsets(p, o, n)
        BY <4>1, ParametersFollow
      <4> QED
        BY <4>2 DEF FollowsTheOffsets
    <3> QED
      BY <2>9, <3>1
  <2>11. /\ Len(r.parameters) = n
         /\ r.offset - WordBytes \in Nat
         /\ CanRead(content, WordBytes, r.offset - WordBytes)
         /\ FlattenSeq(ParameterParts(r.parameters))
              = BytesAt(content, WordBytes, r.offset - WordBytes)
    <3>1. \A m \in 0 .. n : p[m].thrown = "none" => ParametersAre(content, p[m], m)
      <4>1. n \in Nat /\ IsParameterStates(p, code, content, n)
        BY <2>4, <2>8
      <4> TAKE m \in 0 .. n
      <4> QED
        BY <2>2, <4>1, ParametersBack
    <3>2. ParametersAre(content, r, n)
      BY <2>9, <3>1
    <3> QED
      BY <3>2 DEF ParametersAre
  <2> DEFINE rest == Len(content) - WordBytes
  <2>12. /\ rest \in Nat /\ 0 + WordBytes = WordBytes /\ WordBytes \in Nat /\ 0 \in Nat
         /\ WordBytes + rest = Len(content) /\ CanRead(content, 0, WordBytes + rest)
    BY <2>10, <2>11, WordsAre DEF CanRead
  <2>13. FlattenSeq(ParameterParts(r.parameters)) = BytesAt(content, WordBytes, rest)
    BY <2>10, <2>11
  <2> HIDE DEF rest
  <2>14. BytesAt(content, 0, WordBytes) \o BytesAt(content, 0 + WordBytes, rest)
           = BytesAt(content, 0, WordBytes + rest)
    BY <2>12, PartsJoin
  <2>15. BytesAt(content, 0, Len(content)) = content
    BY DEF BytesAt
  <2>16. Content(k) = WordToBytes(Len(k.parameters)) \o FlattenSeq(ParameterParts(k.parameters))
    BY <1>0, <1>1, Zenon DEF Content, ParameterParts
  <2> QED
    BY <1>0, <2>6, <2>11, <2>12, <2>13, <2>14, <2>15, <2>16, Zenon DEF k, r
<1>2. CASE getcommandcontenttype(code) = DIRECTCONTENT
  <2> DEFINE e == [code |-> NOPARAMETERS, data |-> content]
  <2>1. r.parameters = <<e>>
    <3>1. r = [parameters |-> <<e>>, thrown |-> "none"]
      BY <1>2 DEF parsecommandcontent, DIRECTCONTENT, PARAMETERIZEDCONTENT
    <3> QED
      BY <3>1
  <2> HIDE DEF r
  <2>2. Content(k) = FlattenSeq([i \in DOMAIN k.parameters |-> k.parameters[i].data])
    BY <1>0, <1>2 DEF Content, DIRECTCONTENT, PARAMETERIZEDCONTENT
  <2>3. [i \in DOMAIN k.parameters |-> k.parameters[i].data] = Append(<<>>, content)
    <3> DEFINE a == [i \in DOMAIN k.parameters |-> k.parameters[i].data]
    <3>1. k.parameters = <<e>> /\ DOMAIN <<e>> = 1 .. 1 /\ <<e>>[1] = e /\ e.data = content
      BY <2>1
    <3>2. a = [i \in 1 .. 1 |-> content]
      BY <3>1
    <3>3. a \in Seq(Seq(Byte)) /\ Len(a) = 1 /\ a[1] = content
      BY <3>2
    <3>4. /\ Append(<<>>, content) \in Seq(Seq(Byte)) /\ Len(Append(<<>>, content)) = 1
          /\ Append(<<>>, content)[1] = content
      OBVIOUS
    <3> HIDE DEF a
    <3>5. a = Append(<<>>, content)
      BY <3>3, <3>4, SeqEqual
    <3> QED
      BY <3>5 DEF a
  <2>4. FlattenSeq(Append(<<>>, content)) = FlattenSeq(<<>>) \o content
    BY FlattenAppend, EmptySeq
  <2>5. FlattenSeq(<<>>) = <<>>
    BY FlattenEmpty
  <2>6. <<>> \o content = content
    BY ConcatEmptySeq
  <2> QED
    BY <2>2, <2>3, <2>4, <2>5, <2>6, Zenon DEF k, r
<1>3. CASE getcommandcontenttype(code) = NOCONTENT
  <2>1. r.parameters = <<>> /\ content = <<>>
    BY <1>3 DEF parsecommandcontent, validatecommandcontent, NOCONTENT, DIRECTCONTENT,
                PARAMETERIZEDCONTENT
  <2> HIDE DEF r
  <2>2. Content(k) = FlattenSeq([i \in DOMAIN k.parameters |-> k.parameters[i].data])
    BY <1>0, <1>3 DEF Content, NOCONTENT, PARAMETERIZEDCONTENT
  <2>3. [i \in DOMAIN k.parameters |-> k.parameters[i].data] = <<>>
    BY <1>0, <2>1
  <2> QED
    BY <2>1, <2>2, <2>3, FlattenEmpty DEF r
<1> QED
  BY <1>1, <1>2, <1>3, ContentTypes

-----------------------------------------------------------------------------
(* The commands that are read, as bytes *)

LEMMA CommandPartsTyped ==
    ASSUME NEW list \in Seq(R2CPCommand)
    PROVE  /\ CommandParts(list) \in Seq(Seq(Byte)) /\ Len(CommandParts(list)) = Len(list)
           /\ FlattenSeq(CommandParts(list)) \in Seq(Byte)
  BY PacketBytesAre

LEMMA CommandPartsAppend ==
    ASSUME NEW list \in Seq(R2CPCommand), NEW e \in R2CPCommand
    PROVE  FlattenSeq(CommandParts(Append(list, e)))
             = FlattenSeq(CommandParts(list)) \o CommandBytes(e)
<1> DEFINE a == CommandParts(Append(list, e))
           b == Append(CommandParts(list), CommandBytes(e))
           n == Len(list) + 1
<1>1. CommandParts(list) \in Seq(Seq(Byte)) /\ CommandBytes(e) \in Seq(Byte)
  BY CommandPartsTyped, CommandBytesAre
<1>2. Append(list, e) \in Seq(R2CPCommand) /\ Len(Append(list, e)) = n /\ Len(list) \in Nat
  OBVIOUS
<1>3. a \in Seq(Seq(Byte)) /\ Len(a) = n
  BY <1>2, CommandPartsTyped
<1>4. Len(CommandParts(list)) = Len(list)
  BY CommandPartsTyped
<1>5. b \in Seq(Seq(Byte)) /\ Len(b) = n
  BY <1>1, <1>4
<1>6. ASSUME NEW i \in 1 .. n
      PROVE  a[i] = b[i]
  <2>1. a[i] = CommandBytes(Append(list, e)[i])
    BY <1>2 DEF CommandParts
  <2>2. CASE i = n
    <3>1. Append(list, e)[i] = e /\ b[i] = CommandBytes(e)
      BY <1>1, <1>4, <2>2
    <3> QED
      BY <2>1, <3>1
  <2>3. CASE i # n
    <3>1. i \in 1 .. Len(list)
      BY <2>3
    <3>2. Append(list, e)[i] = list[i] /\ b[i] = CommandParts(list)[i]
      BY <1>1, <1>4, <3>1
    <3>3. CommandParts(list)[i] = CommandBytes(list[i])
      BY <3>1 DEF CommandParts
    <3> QED
      BY <2>1, <3>2, <3>3
  <2> QED
    BY <2>2, <2>3
<1> HIDE DEF n
<1>7. a = b
  <2> HIDE DEF a, b
  <2> QED
    BY <1>3, <1>5, <1>6, SeqEqual
<1>8. FlattenSeq(b) = FlattenSeq(CommandParts(list)) \o CommandBytes(e)
  BY <1>1, FlattenAppend
<1> QED
  BY <1>7, <1>8

\* A command whose content is valid and has been read is what it was read from.
LEMMA CommandBack ==
    ASSUME NEW bytes \in Seq(Byte), Len(bytes) < WordModulus, NEW offset \in Nat,
           CanRead(bytes, offset, 2 * WordBytes),
           NEW size \in Nat, size = WordAt(bytes, offset + WordBytes),
           NEW start \in Nat, start = offset + 2 * WordBytes, CanRead(bytes, start, size),
           NEW code, code = WordAt(bytes, offset),
           NEW content, content = BytesAt(bytes, start, size),
           validatecommandcontent(code, content), parsecommandcontent(code, content).thrown = "none"
    PROVE  LET k == [code |-> code, parameters |-> parsecommandcontent(code, content).parameters]
           IN  k \in R2CPCommand /\ CommandBytes(k) = BytesAt(bytes, offset, 2 * WordBytes + size)
<1> DEFINE k == [code |-> code, parameters |-> parsecommandcontent(code, content).parameters]
<1>1. content \in Seq(Byte) /\ Len(content) = size
  BY PartIs
<1>2. Len(content) < WordModulus
  BY <1>1, WordsAre DEF CanRead
<1>3. parsecommandcontent(code, content).parameters \in Seq(R2CPParameter)
  BY <1>1, ContentParsed
<1>4. code \in Word
  <2>1. CanRead(bytes, offset, WordBytes)
    BY WordsAre DEF CanRead
  <2> QED
    BY <2>1, WordAtIs
<1>5. Content(k) = content
  BY <1>1, <1>2, ContentBack
<1>6. k \in R2CPCommand /\ k.code = code
  <2> DEFINE list == parsecommandcontent(code, content).parameters
  <2> HIDE DEF list
  <2> QED
    BY <1>3, <1>4 DEF R2CPCommand, list
<1> HIDE DEF k
<1>7. CommandBytes(k) = WordToBytes(code) \o WordToBytes(size) \o content
  BY <1>1, <1>5, <1>6, Zenon DEF CommandBytes
<1>8. CanRead(bytes, offset, 2 * WordBytes + size)
  BY WordsAre DEF CanRead
<1>9. WordToBytes(code) \o WordToBytes(size) \o content
        = BytesAt(bytes, offset, 2 * WordBytes + size)
  BY <1>8, HeadedBack
<1> QED
  BY <1>6, <1>7, <1>9 DEF k

\* What a turn of the loop over the commands has read.
LEMMA CommandGrown ==
    ASSUME NEW bytes \in Seq(Byte), NEW s \in CommandReads, ParseCommand(bytes, s).thrown = "none"
    PROVE  LET t == ParseCommand(bytes, s)
               code == WordAt(bytes, s.offset)
               size == WordAt(bytes, s.offset + WordBytes)
               start == s.offset + 2 * WordBytes
               content == parsecommandcontent(code, BytesAt(bytes, start, size))
               k == [code |-> code, parameters |-> content.parameters]
           IN  /\ s.thrown = "none"
               /\ \/ t.commands = s.commands
                  \/ /\ content.thrown = "none" /\ t.offset = start + size
                     /\ t.commands = Append(s.commands, k)
  BY CommandTurn

\* If each of j turns has read a command, the commands are the packet from
\* after their number up to the offset.
FirstOffset == MINR2CPPACKETSIZE + WordBytes

CommandsAre(bytes, s, j) ==
    /\ Len(s.commands) <= j
    /\ Len(s.commands) = j =>
         /\ s.offset - FirstOffset \in Nat
         /\ CanRead(bytes, FirstOffset, s.offset - FirstOffset)
         /\ FlattenSeq(CommandParts(s.commands))
              = BytesAt(bytes, FirstOffset, s.offset - FirstOffset)

LEMMA CommandsBegin ==
    ASSUME NEW bytes \in Seq(Byte), CanRead(bytes, MINR2CPPACKETSIZE, WordBytes)
    PROVE  FirstOffset \in Nat /\ CommandsAre(bytes, FirstCommand, 0)
<1>1. FirstCommand.commands = <<>> /\ FirstCommand.offset = FirstOffset
  BY DEF FirstCommand, FirstOffset
<1>2. FirstOffset \in Nat /\ FirstOffset - FirstOffset = 0 /\ CanRead(bytes, FirstOffset, 0)
  BY WordsAre DEF CanRead, FirstOffset, MINR2CPPACKETSIZE
<1>3. BytesAt(bytes, FirstOffset, 0) = <<>>
  <2>1. BytesAt(bytes, FirstOffset, 0) \in Seq(Byte) /\ Len(BytesAt(bytes, FirstOffset, 0)) = 0
    BY <1>2, PartIs
  <2> QED
    BY <2>1, EmptySeq
<1>4. FlattenSeq(CommandParts(<<>>)) = <<>>
  <2>1. CommandParts(<<>>) = <<>>
    BY DEF CommandParts
  <2> QED
    BY <2>1, FlattenEmpty
<1>5. FirstCommand.offset - FirstOffset = 0 /\ Len(FirstCommand.commands) = 0
  BY <1>1, <1>2
<1> QED
  BY <1>1, <1>2, <1>3, <1>4, <1>5 DEF CommandsAre

LEMMA CommandsBack ==
    ASSUME NEW bytes \in Seq(Byte), Len(bytes) < WordModulus, NEW size \in Nat,
           CanRead(bytes, MINR2CPPACKETSIZE, size),
           CanRead(bytes, MINR2CPPACKETSIZE, WordBytes), NEW n \in Nat,
           NEW o, IsCommandOffsets(o, BytesAt(bytes, MINR2CPPACKETSIZE, size), n), o[n] # Ended,
           NEW p, IsCommandStates(p, bytes, n), NEW m \in 0 .. n
    PROVE  p[m].thrown = "none" => CommandsAre(bytes, p[m], m)
<1> DEFINE from == MINR2CPPACKETSIZE
           body == BytesAt(bytes, from, size)
           A == {j \in 0 .. n : p[j].thrown = "none" => CommandsAre(bytes, p[j], j)}
<1>1. from \in Nat /\ FirstOffset \in Nat
  BY WordsAre DEF MINR2CPPACKETSIZE, FirstOffset
<1>2. \A j \in 0 .. n : o[j] \in Nat
  BY CommandOffsetsStay
<1>3. \A i \in 0 .. n : p[i].thrown = "none" => p[i].offset = from + o[i]
  <2> TAKE i \in 0 .. n
  <2> QED
    BY CommandsFollow
<1>4. 0 \in A
  BY CommandsBegin DEF IsCommandStates
<1>5. ASSUME NEW j \in 1 .. n, j - 1 \in A
      PROVE  j \in A
  <2> DEFINE s == p[j - 1]
             t == p[j]
             v == o[j - 1]
             code == WordAt(bytes, s.offset)
             sz == WordAt(bytes, s.offset + WordBytes)
             start == s.offset + 2 * WordBytes
             part == BytesAt(bytes, start, sz)
             content == parsecommandcontent(code, part)
             k == [code |-> code, parameters |-> content.parameters]
  <2>1. /\ j - 1 \in 0 .. n /\ s \in CommandReads /\ t = ParseCommand(bytes, s)
        /\ v \in Nat /\ ValidateCommand(body, v) # Ended
    BY <1>2 DEF IsCommandOffsets, IsCommandStates, Ended
  <2> SUFFICES ASSUME t.thrown = "none"
               PROVE  CommandsAre(bytes, t, j)
    BY <1>5
  <2> HIDE DEF t
  <2>2. /\ s.thrown = "none" /\ s.commands \in Seq(R2CPCommand)
        /\ s.offset = from + v /\ s.offset \in Nat
        /\ CommandsAre(bytes, s, j - 1)
    <3>1. s.thrown = "none"
      <4>1. ParseCommand(bytes, s).thrown = "none"
        BY <2>1
      <4> HIDE DEF s
      <4> QED
        BY <2>1, <4>1, CommandGrown
    <3>2. CommandsAre(bytes, s, j - 1)
      BY <1>5, <3>1
    <3>3. s.offset = from + v
      BY <1>3, <2>1, <3>1
    <3>4. s.commands \in Seq(R2CPCommand) /\ s.offset \in Nat
      BY <2>1 DEF CommandReads
    <3> QED
      BY <3>1, <3>2, <3>3, <3>4
  <2>3. \/ t.commands = s.commands
        \/ /\ content.thrown = "none" /\ t.offset = start + sz
           /\ t.commands = Append(s.commands, k)
    <3>1. ParseCommand(bytes, s).thrown = "none"
      BY <2>1
    <3> HIDE DEF s
    <3> QED
      BY <2>1, <3>1, CommandGrown
  <2> HIDE DEF s
  <2>4. Len(s.commands) <= j - 1 /\ Len(s.commands) \in Nat
    BY <2>2 DEF CommandsAre
  <2>5. CASE t.commands = s.commands
    BY <2>4, <2>5 DEF CommandsAre
  <2>6. CASE content.thrown = "none" /\ t.offset = start + sz /\ t.commands = Append(s.commands, k)
    <3>1. /\ CanRead(bytes, s.offset, 2 * WordBytes) /\ CanRead(bytes, start, sz) /\ sz \in Nat
          /\ validatecommandcontent(code, part)
      <4>1. /\ CanRead(bytes, from + v, 2 * WordBytes)
            /\ CanRead(bytes, from + v + 2 * WordBytes, WordAt(bytes, from + v + WordBytes))
            /\ WordAt(bytes, from + v + WordBytes) \in Nat
            /\ validatecommandcontent(WordAt(bytes, from + v),
                                      BytesAt(bytes, from + v + 2 * WordBytes,
                                              WordAt(bytes, from + v + WordBytes)))
        <5> HIDE DEF v
        <5> QED
          BY <1>1, <2>1, CommandFollows
      <4> QED
        BY <2>2, <4>1
    <3>2. start \in Nat
      BY <2>2, WordsAre
    <3>3. k \in R2CPCommand /\ CommandBytes(k) = BytesAt(bytes, s.offset, 2 * WordBytes + sz)
      <4> HIDE DEF code, sz, start, part
      <4> QED
        BY <2>2, <2>6, <3>1, <3>2, CommandBack DEF code, sz, start, part
    <3> HIDE DEF k, content, part, code
    <3>4. Len(t.commands) = Len(s.commands) + 1
      BY <2>2, <2>6, <3>3
    <3>5. CASE Len(s.commands) # j - 1
      BY <2>4, <3>4, <3>5 DEF CommandsAre
    <3>6. CASE Len(s.commands) = j - 1
      <4> DEFINE a == s.offset - FirstOffset
                 b == 2 * WordBytes + sz
      <4>1. /\ a \in Nat /\ CanRead(bytes, FirstOffset, a)
            /\ FlattenSeq(CommandParts(s.commands)) = BytesAt(bytes, FirstOffset, a)
        BY <2>2, <3>6 DEF CommandsAre
      <4>2. FlattenSeq(CommandParts(t.commands))
              = FlattenSeq(CommandParts(s.commands)) \o CommandBytes(k)
        BY <2>2, <2>6, <3>3, CommandPartsAppend
      <4>3. /\ b \in Nat /\ a + b = t.offset - FirstOffset /\ s.offset = FirstOffset + a
            /\ CanRead(bytes, FirstOffset, a + b) /\ a + b \in Nat
        <5>1. /\ WordBytes \in Nat /\ t.offset = s.offset + 2 * WordBytes + sz
              /\ s.offset + 2 * WordBytes + sz <= Len(bytes)
          BY <2>6, <3>1, WordsAre DEF CanRead
        <5>2. sz \in Nat /\ s.offset \in Nat /\ FirstOffset \in Nat /\ a \in Nat /\ Len(bytes) \in Nat
          BY <1>1, <2>2, <3>1, <4>1
        <5> HIDE DEF sz, start
        <5>3. b \in Nat /\ s.offset = FirstOffset + a
          BY <5>1, <5>2
        <5>4. a + b = t.offset - FirstOffset /\ FirstOffset + (a + b) <= Len(bytes)
          BY <5>1, <5>2
        <5> QED
          BY SMTT(60), <5>2, <5>3, <5>4 DEF CanRead
      <4> HIDE DEF a, sz
      <4>4. CommandBytes(k) = BytesAt(bytes, FirstOffset + a, b)
        BY <3>3, <4>3
      <4> HIDE DEF b
      <4>5. BytesAt(bytes, FirstOffset, a) \o BytesAt(bytes, FirstOffset + a, b)
              = BytesAt(bytes, FirstOffset, a + b)
        BY <1>1, <4>1, <4>3, PartsJoin
      <4>6. FlattenSeq(CommandParts(t.commands))
              = BytesAt(bytes, FirstOffset, t.offset - FirstOffset)
        BY <4>1, <4>2, <4>3, <4>4, <4>5, Zenon
      <4>7. Len(t.commands) <= j
        BY <2>4, <3>4
      <4> QED
        BY <4>3, <4>6, <4>7, Zenon DEF CommandsAre
    <3> QED
      BY <3>5, <3>6
  <2> QED
    BY <2>3, <2>5, <2>6
<1>6. m \in A
  <2> HIDE DEF A
  <2> QED
    BY <1>4, <1>5, UpTo
<1> QED
  BY <1>6

\* A packet of which every command has been kept is what the commands give.
LEMMA PacketBack ==
    ASSUME NEW bytes \in Seq(Byte), parser2cppacket(bytes).thrown = "none",
           Len(parser2cppacket(bytes).commands) = WordAt(bytes, MINR2CPPACKETSIZE)
    PROVE  bytes = PacketBytes(WordAt(bytes, 0), parser2cppacket(bytes).commands)
<1> DEFINE from == MINR2CPPACKETSIZE
           size == WordAt(bytes, WordBytes)
           body == BytesAt(bytes, from, size)
           n == WordAt(bytes, from)
           r == parser2cppacket(bytes)
           rest == size - WordBytes
           list == r.commands
<1>1. /\ validater2cppacket(bytes) /\ CanRead(bytes, from, WordBytes)
      /\ n \in Nat /\ r = CommandsRead(bytes, n)
  BY ParserIs
<1>2. /\ size \in Nat /\ Len(bytes) = from + size /\ Len(bytes) < WordModulus
      /\ CanRead(bytes, from, size) /\ body \in Seq(Byte) /\ Len(body) = size
  BY <1>1, ValidatedIs
<1>3. from \in Nat /\ from = 2 * WordBytes /\ WordBytes \in Nat \ {0} /\ Len(bytes) \in Nat
  BY WordsAre DEF MINR2CPPACKETSIZE
<1>4. /\ size # 0 /\ rest \in Nat /\ WordBytes + rest = size
      /\ FirstOffset = from + WordBytes /\ Len(bytes) - FirstOffset = rest
  <2> HIDE DEF size
  <2> QED
    BY <1>1, <1>2, <1>3 DEF CanRead, FirstOffset
<1>5. CommandsEnd(body, n) = Len(body)
  BY <1>1, <1>4, ValidatedIs
<1>6. r.thrown = "none" /\ Len(list) = n
  OBVIOUS
<1> HIDE DEF from, size, body, n, r, rest
<1>7. PICK o : IsCommandOffsets(o, body, n) /\ CommandsEnd(body, n) = o[n]
  BY <1>1, <1>2, CommandOffsets
<1>8. PICK p : IsCommandStates(p, bytes, n) /\ CommandsRead(bytes, n) = p[n]
  BY <1>1, CommandStates
<1>9. o[n] # Ended /\ o[n] = size /\ p[n] = r /\ n \in 0 .. n
  BY <1>1, <1>2, <1>5, <1>7, <1>8 DEF Ended
<1>10. /\ IsCommandOffsets(o, BytesAt(bytes, MINR2CPPACKETSIZE, size), n)
       /\ CanRead(bytes, MINR2CPPACKETSIZE, size)
       /\ CanRead(bytes, MINR2CPPACKETSIZE, WordBytes)
  BY <1>1, <1>2, <1>7 DEF body, from
<1>11. r.offset = Len(bytes)
  <2>1. \A m \in 0 .. n : p[m].thrown = "none" => p[m].offset = MINR2CPPACKETSIZE + o[m]
    <3> TAKE m \in 0 .. n
    <3> QED
      BY <1>1, <1>2, <1>8, <1>9, <1>10, CommandsFollow
  <2> QED
    BY <1>2, <1>6, <1>9, <2>1 DEF from
<1>12. CommandsAre(bytes, r, n)
  <2>1. \A m \in 0 .. n : p[m].thrown = "none" => CommandsAre(bytes, p[m], m)
    <3> TAKE m \in 0 .. n
    <3> QED
      BY <1>1, <1>2, <1>8, <1>9, <1>10, CommandsBack
  <2> QED
    BY <1>6, <1>9, <2>1
<1>13. FlattenSeq(CommandParts(list)) = BytesAt(bytes, FirstOffset, rest)
  BY <1>4, <1>6, <1>11, <1>12 DEF CommandsAre
<1>14. list \in Seq(R2CPCommand)
  BY <1>8, <1>9 DEF IsCommandStates, CommandReads
<1> HIDE DEF list
<1>15. WordToBytes(n) \o BytesAt(bytes, FirstOffset, rest) = body
  <2>1. WordToBytes(n) = BytesAt(bytes, from, WordBytes)
    BY <1>1, <1>3, WordBack DEF n
  <2>2. /\ CanRead(bytes, from, WordBytes + rest)
        /\ WordBytes \in Nat /\ from \in Nat /\ rest \in Nat
    BY <1>2, <1>3, <1>4
  <2>3. BytesAt(bytes, from, WordBytes) \o BytesAt(bytes, from + WordBytes, rest)
          = BytesAt(bytes, from, WordBytes + rest)
    BY <2>2, PartsJoin
  <2> QED
    BY <1>4, <2>1, <2>3 DEF body
<1>16. CanRead(bytes, 0, WordBytes) /\ WordAt(bytes, 0) \in Nat
  <2>1. CanRead(bytes, 0, WordBytes)
    BY <1>2, <1>3 DEF CanRead
  <2> QED
    BY <2>1, WordAtIs, WordsAre
<1>17. PacketBytes(WordAt(bytes, 0), list) = WordToBytes(WordAt(bytes, 0)) \o WordToBytes(size) \o body
  <2> DEFINE b == WordToBytes(Len(list)) \o FlattenSeq(CommandParts(list))
  <2>1. PacketBytes(WordAt(bytes, 0), list) = WordToBytes(WordAt(bytes, 0)) \o WordToBytes(Len(b)) \o b
    BY <1>14, <1>16, PacketBytesAre
  <2>2. b = body
    BY <1>6, <1>13, <1>15 DEF list
  <2> HIDE DEF b
  <2> QED
    BY <1>2, <2>1, <2>2
<1>18. WordToBytes(WordAt(bytes, 0)) \o WordToBytes(size) \o body = bytes
  <2>1. CanRead(bytes, 0, 2 * WordBytes + size) /\ 0 + WordBytes = WordBytes /\ 0 + 2 * WordBytes = from
    BY <1>2, <1>3 DEF CanRead
  <2>2. WordToBytes(WordAt(bytes, 0)) \o WordToBytes(WordAt(bytes, 0 + WordBytes))
          \o BytesAt(bytes, 0 + 2 * WordBytes, size) = BytesAt(bytes, 0, 2 * WordBytes + size)
    BY <1>2, <2>1, HeadedBack
  <2>3. BytesAt(bytes, 0, Len(bytes)) = bytes
    BY DEF BytesAt
  <2>4. 2 * WordBytes + size = Len(bytes)
    BY <1>2, <1>3
  <2> QED
    BY <2>1, <2>2, <2>3, <2>4 DEF size, body
<1> QED
  BY <1>17, <1>18 DEF list, r

-----------------------------------------------------------------------------
(* What lies in a sequence of bytes *)

Holds(bytes, offset, part) ==
    /\ offset \in Nat /\ offset + Len(part) <= Len(bytes)
    /\ \A i \in 1 .. Len(part) : bytes[offset + i] = part[i]

LEMMA HoldsItself ==
    ASSUME NEW bytes \in Seq(Byte)
    PROVE  Holds(bytes, 0, bytes)
  BY DEF Holds

LEMMA HoldsBytes ==
    ASSUME NEW bytes \in Seq(Byte), NEW part \in Seq(Byte), NEW offset, Holds(bytes, offset, part)
    PROVE  CanRead(bytes, offset, Len(part)) /\ BytesAt(bytes, offset, Len(part)) = part
<1> DEFINE n == Len(part)
           b == BytesAt(bytes, offset, n)
<1>1. n \in Nat /\ offset \in Nat /\ CanRead(bytes, offset, n)
  BY DEF Holds, CanRead
<1> HIDE DEF n
<1>2. b \in Seq(Byte) /\ Len(b) = n /\ \A i \in 1 .. n : b[i] = bytes[offset + i]
  BY <1>1, PartIs
<1> HIDE DEF b
<1>3. \A i \in 1 .. n : b[i] = part[i]
  BY <1>2 DEF Holds, n
<1>4. b = part
  BY <1>2, <1>3, SeqEqual DEF n
<1> QED
  BY <1>1, <1>4 DEF b, n

LEMMA HoldsPart ==
    ASSUME NEW bytes \in Seq(Byte), NEW a \in Seq(Byte), NEW b \in Seq(Byte),
           NEW o, NEW q, Holds(bytes, o, a), Holds(a, q, b)
    PROVE  Holds(bytes, o + q, b)
<1>1. /\ o \in Nat /\ q \in Nat /\ Len(a) \in Nat /\ Len(b) \in Nat /\ Len(bytes) \in Nat
      /\ o + Len(a) <= Len(bytes) /\ q + Len(b) <= Len(a)
      /\ \A i \in 1 .. Len(a) : bytes[o + i] = a[i]
      /\ \A i \in 1 .. Len(b) : a[q + i] = b[i]
  BY DEF Holds
<1>2. o + q \in Nat /\ o + q + Len(b) <= Len(bytes)
  BY <1>1
<1>3. ASSUME NEW i \in 1 .. Len(b)
      PROVE  bytes[o + q + i] = b[i]
  <2>1. q + i \in 1 .. Len(a) /\ o + (q + i) = o + q + i
    BY <1>1
  <2>2. bytes[o + (q + i)] = a[q + i] /\ a[q + i] = b[i]
    BY <1>1, <2>1
  <2> QED
    BY <2>1, <2>2
<1> QED
  BY <1>2, <1>3 DEF Holds

LEMMA HoldsConcat ==
    ASSUME NEW bytes \in Seq(Byte), NEW a \in Seq(Byte), NEW b \in Seq(Byte), NEW o,
           Holds(bytes, o, a \o b)
    PROVE  Holds(bytes, o, a) /\ Holds(bytes, o + Len(a), b)
<1> DEFINE ab == a \o b
<1>1. ab \in Seq(Byte) /\ Len(ab) = Len(a) + Len(b)
  BY ConcatIs
<1>2. /\ \A i \in 1 .. Len(a) : ab[i] = a[i]
      /\ \A i \in 1 .. Len(b) : ab[Len(a) + i] = b[i]
  BY ConcatIs
<1> HIDE DEF ab
<1>3. Len(a) \in Nat /\ Len(b) \in Nat
  OBVIOUS
<1>4. Holds(ab, 0, a)
  BY <1>1, <1>2, <1>3 DEF Holds
<1>5. Holds(ab, Len(a), b)
  BY <1>1, <1>2, <1>3 DEF Holds
<1>6. Holds(bytes, o, ab)
  BY DEF ab
<1>7. Holds(bytes, o + 0, a) /\ Holds(bytes, o + Len(a), b)
  BY <1>1, <1>4, <1>5, <1>6, HoldsPart
<1>8. o + 0 = o
  BY <1>6 DEF Holds
<1> QED
  BY <1>7, <1>8

\* A word that lies there is the one that is read.
LEMMA HoldsWord ==
    ASSUME NEW bytes \in Seq(Byte), NEW n \in Word, NEW offset, Holds(bytes, offset, WordToBytes(n))
    PROVE  CanRead(bytes, offset, WordBytes) /\ WordAt(bytes, offset) = n
<1> USE FormatAssumption
<1> DEFINE a == WordToBytes(n)
<1>1. n \in Nat /\ n \in 0 .. WordModulus - 1 /\ WordBytes \in Nat
  BY WordsAre DEF Word
<1>2. /\ a \in Seq(Byte) /\ Len(a) = WordBytes
      /\ \A i \in 1 .. WordBytes : a[i] = (n \div Weight[WordBytes - i]) % ByteModulus
  BY <1>1, WordBytesAre
<1> HIDE DEF a
<1>3. /\ offset \in Nat /\ CanRead(bytes, offset, WordBytes)
      /\ \A i \in 1 .. WordBytes : bytes[offset + i] = a[i]
  BY <1>2 DEF Holds, CanRead, a
<1>4. PICK w : IsWord(w, bytes, offset) /\ WordAt(bytes, offset) = w[WordBytes]
  BY <1>3, WordRead
<1> DEFINE A == {i \in 0 .. WordBytes : w[i] = n \div Weight[WordBytes - i]}
<1>5. 0 \in A
  <2>1. Weight[WordBytes] = WordModulus /\ WordModulus \in Nat \ {0}
    BY WordsAre DEF WordModulus
  <2>2. n \div WordModulus = 0
    BY <1>1, <2>1
  <2> QED
    BY <1>4, <2>1, <2>2 DEF IsWord
<1>6. ASSUME NEW i \in 1 .. WordBytes, i - 1 \in A
      PROVE  i \in A
  <2> DEFINE j == WordBytes - i
             d == Weight[j]
             q == n \div d
  <2>1. /\ j \in 0 .. WordBytes /\ j + 1 \in 1 .. WordBytes /\ WordBytes - (i - 1) = j + 1
        /\ j + 1 - 1 = j
    OBVIOUS
  <2>2. d \in Nat \ {0} /\ Weight[j + 1] = ByteModulus * d
    BY <2>1, WeightIs
  <2>3. w[i] = w[i - 1] * ByteModulus + bytes[offset + i]
    BY <1>4 DEF IsWord
  <2> HIDE DEF d, j
  <2>4. w[i - 1] = n \div (ByteModulus * d)
    BY <1>6, <2>1, <2>2
  <2>5. bytes[offset + i] = q % ByteModulus
    BY <1>2, <1>3 DEF d, j
  <2>6. q \in Nat /\ n \div (ByteModulus * d) = q \div ByteModulus
    <3>1. q \in Nat
      BY <1>1, <2>2, DivisionOf
    <3>2. (n \div d) \div ByteModulus = n \div (ByteModulus * d)
      BY <1>1, <2>2, ZenonT(60), DivisionTwice
    <3> QED
      BY <3>1, <3>2
  <2> HIDE DEF q
  <2>7. q = (q \div ByteModulus) * ByteModulus + (q % ByteModulus)
    BY <2>6, DivisionOf
  <2>8. w[i] = q
    BY <2>3, <2>4, <2>5, <2>6, <2>7, Zenon
  <2> QED
    BY <2>8 DEF q, d, j
<1>7. WordBytes \in A
  <2> HIDE DEF A
  <2>1. WordBytes \in 0 .. WordBytes
    OBVIOUS
  <2> QED
    BY <1>5, <1>6, <2>1, UpTo
<1>8. w[WordBytes] = n
  <2>1. WordBytes - WordBytes = 0 /\ Weight[0] = 1 /\ n \div 1 = n
    BY <1>1, WeightIs
  <2> QED
    BY <1>7, <2>1
<1> QED
  BY <1>3, <1>4, <1>8

\* Where each sequence of a concatenation lies.
IsLayout(e, bytes, offset, seqs) ==
    /\ e[0] = offset /\ e[Len(seqs)] = offset + Len(FlattenSeq(seqs))
    /\ \A i \in 0 .. Len(seqs) : e[i] \in Nat
    /\ \A i \in 1 .. Len(seqs) :
         e[i] = e[i - 1] + Len(seqs[i]) /\ Holds(bytes, e[i - 1], seqs[i])

LEMMA HoldsFlatten ==
    ASSUME NEW bytes \in Seq(Byte), NEW seqs \in Seq(Seq(Byte)), NEW offset,
           Holds(bytes, offset, FlattenSeq(seqs))
    PROVE  \E e : IsLayout(e, bytes, offset, seqs)
<1> DEFINE n == Len(seqs)
<1>1. n \in Nat /\ \A i \in 1 .. n : seqs[i] \in Seq(Byte)
  OBVIOUS
<1>2. PICK h : IsFlattening(h, Byte, seqs) /\ FlattenSeq(seqs) = h[Len(seqs)]
  BY FlattenIs
<1>3. /\ h[0] = <<>> /\ \A i \in 1 .. n : h[i] = h[i - 1] \o seqs[i]
      /\ \A i \in 0 .. n : h[i] \in Seq(Byte)
  BY <1>2 DEF IsFlattening
<1>4. Holds(bytes, offset, h[n])
  BY <1>2
<1> DEFINE A == {j \in 0 .. n : Holds(bytes, offset, h[n - j])}
<1> HIDE DEF n
<1>5. 0 \in A
  BY <1>1, <1>4
<1>6. ASSUME NEW i \in 1 .. n, Holds(bytes, offset, h[i])
      PROVE  Holds(bytes, offset, h[i - 1]) /\ Holds(bytes, offset + Len(h[i - 1]), seqs[i])
  <2>1. h[i - 1] \in Seq(Byte) /\ seqs[i] \in Seq(Byte) /\ h[i] = h[i - 1] \o seqs[i]
    <3>1. i - 1 \in 0 .. n
      BY <1>1
    <3> QED
      BY <1>1, <1>3, <3>1, Zenon
  <2>2. Holds(bytes, offset, h[i - 1] \o seqs[i])
    BY <1>6, <2>1
  <2> QED
    BY <2>1, <2>2, HoldsConcat
<1>7. ASSUME NEW j \in 1 .. n, j - 1 \in A
      PROVE  j \in A
  <2> DEFINE m == n - j + 1
  <2>1. m \in 1 .. n /\ n - (j - 1) = m /\ m - 1 = n - j
    BY <1>1
  <2> HIDE DEF m
  <2>2. Holds(bytes, offset, h[m])
    BY <1>7, <2>1
  <2>3. Holds(bytes, offset, h[m - 1])
    BY <1>6, <2>1, <2>2
  <2>4. Holds(bytes, offset, h[n - j])
    BY <2>1, <2>3
  <2> QED
    BY <2>4
<1>8. \A i \in 0 .. n : Holds(bytes, offset, h[i])
  <2>1. \A j \in 0 .. n : j \in A
    <3> HIDE DEF A
    <3> QED
      BY <1>1, <1>5, <1>7, UpTo
  <2> TAKE i \in 0 .. n
  <2>2. n - i \in 0 .. n /\ n - (n - i) = i
    BY <1>1
  <2> QED
    BY <2>1, <2>2
<1> DEFINE e == [i \in 0 .. n |-> offset + Len(h[i])]
<1>9. offset \in Nat
  BY DEF Holds
<1>10. e[0] = offset /\ e[n] = offset + Len(FlattenSeq(seqs))
  <2>1. 0 \in 0 .. n /\ n \in 0 .. n
    BY <1>1
  <2>2. e[0] = offset + Len(h[0]) /\ e[n] = offset + Len(h[n])
    BY <2>1
  <2>3. Len(h[0]) = 0
    BY <1>3
  <2> HIDE DEF e
  <2> QED
    BY <1>2, <1>9, <2>2, <2>3 DEF n
<1>11. \A i \in 0 .. n : e[i] \in Nat
  BY <1>3, <1>9
<1>12. ASSUME NEW i \in 1 .. n
       PROVE  e[i] = e[i - 1] + Len(seqs[i]) /\ Holds(bytes, e[i - 1], seqs[i])
  <2>1. i \in 0 .. n /\ i - 1 \in 0 .. n
    BY <1>1
  <2>2. e[i] = offset + Len(h[i]) /\ e[i - 1] = offset + Len(h[i - 1])
    BY <2>1
  <2>3. Holds(bytes, offset + Len(h[i - 1]), seqs[i])
    BY <1>6, <1>8, <2>1
  <2>4. Len(h[i]) = Len(h[i - 1]) + Len(seqs[i])
    <3>1. h[i - 1] \in Seq(Byte) /\ seqs[i] \in Seq(Byte)
      BY <1>1, <1>3, <2>1
    <3>2. Len(h[i - 1] \o seqs[i]) = Len(h[i - 1]) + Len(seqs[i])
      BY <3>1, ConcatIs
    <3> QED
      BY <1>3, <3>2
  <2>5. Len(h[i - 1]) \in Nat /\ Len(seqs[i]) \in Nat
    BY <1>1, <1>3, <2>1
  <2> HIDE DEF e
  <2>6. offset + (Len(h[i - 1]) + Len(seqs[i])) = offset + Len(h[i - 1]) + Len(seqs[i])
    <3> DEFINE x == Len(h[i - 1])
               y == Len(seqs[i])
    <3>1. x \in Nat /\ y \in Nat
      BY <2>5
    <3> HIDE DEF x, y
    <3>2. offset + (x + y) = offset + x + y
      BY <1>9, <3>1
    <3> QED
      BY <3>2 DEF x, y
  <2> QED
    BY <2>2, <2>3, <2>4, <2>6
<1> HIDE DEF e
<1>13. IsLayout(e, bytes, offset, seqs)
  BY <1>10, <1>11, <1>12 DEF IsLayout, n
<1> QED
  BY <1>13

\* A concatenation is not shorter than the number of its parts if none is empty.
LEMMA LayoutGrows ==
    ASSUME NEW bytes, NEW seqs \in Seq(Seq(Byte)), NEW offset \in Nat, NEW e,
           IsLayout(e, bytes, offset, seqs), \A i \in 1 .. Len(seqs) : Len(seqs[i]) # 0
    PROVE  /\ \A i \in 0 .. Len(seqs) : offset <= e[i] /\ e[i] <= offset + Len(FlattenSeq(seqs))
           /\ Len(seqs) <= Len(FlattenSeq(seqs))
<1> DEFINE n == Len(seqs)
           A == {i \in 0 .. n : e[i] >= offset + i}
           B == {i \in 0 .. n : e[n - i] <= e[n]}
<1>1. n \in Nat
  OBVIOUS
<1>2. /\ e[0] = offset /\ e[n] = offset + Len(FlattenSeq(seqs))
      /\ \A i \in 0 .. n : e[i] \in Nat
      /\ \A i \in 1 .. n : e[i] = e[i - 1] + Len(seqs[i]) /\ Len(seqs[i]) \in Nat \ {0}
  BY DEF IsLayout
<1> HIDE DEF n
<1>3. \A i \in 1 .. n : e[i - 1] \in Nat /\ e[i] \in Nat /\ e[i] >= e[i - 1] + 1
  <2> TAKE i \in 1 .. n
  <2>1. e[i - 1] \in Nat /\ e[i] \in Nat
    BY <1>1, <1>2
  <2>2. e[i] = e[i - 1] + Len(seqs[i]) /\ Len(seqs[i]) \in Nat \ {0}
    BY <1>2
  <2> QED
    BY <2>1, <2>2
<1>4. 0 \in A /\ \A i \in 1 .. n : i - 1 \in A => i \in A
  <2>1. 0 \in A
    BY <1>1, <1>2
  <2>2. ASSUME NEW i \in 1 .. n, i - 1 \in A
        PROVE  i \in A
    BY <1>1, <1>3, <2>2
  <2> QED
    BY <2>1, <2>2
<1>5. 0 \in B /\ \A i \in 1 .. n : i - 1 \in B => i \in B
  <2>1. 0 \in B
    BY <1>1, <1>2
  <2>2. ASSUME NEW i \in 1 .. n, i - 1 \in B
        PROVE  i \in B
    <3>1. n - i + 1 \in 1 .. n /\ n - (i - 1) = n - i + 1 /\ n - i + 1 - 1 = n - i /\ n \in 0 .. n
      BY <1>1
    <3>2. e[n - i + 1] <= e[n]
      BY <2>2, <3>1
    <3>3. e[n - i] \in Nat /\ e[n - i + 1] \in Nat /\ e[n - i + 1] >= e[n - i] + 1 /\ e[n] \in Nat
      BY SMTT(30), <1>2, <1>3, <3>1
    <3> QED
      BY <3>2, <3>3
  <2> QED
    BY <2>1, <2>2
<1>6. \A i \in 0 .. n : i \in A
  <2> HIDE DEF A
  <2> QED
    BY <1>1, <1>4, UpTo
<1>7. \A i \in 0 .. n : i \in B
  <2> HIDE DEF B
  <2> QED
    BY <1>1, <1>5, UpTo
<1>8. ASSUME NEW i \in 0 .. n
      PROVE  offset <= e[i] /\ e[i] <= e[n]
  <2>1. n - i \in 0 .. n /\ n - (n - i) = i
    BY <1>1
  <2>2. e[i] <= e[n]
    BY <1>7, <2>1
  <2>3. e[i] >= offset + i /\ e[i] \in Nat
    BY <1>2, <1>6
  <2> QED
    BY <2>2, <2>3
<1>9. n <= Len(FlattenSeq(seqs))
  <2>1. FlattenSeq(seqs) \in Seq(Byte)
    BY FlattenTyped
  <2>2. Len(FlattenSeq(seqs)) \in Nat
    BY <2>1
  <2>3. e[n] >= offset + n
    BY <1>1, <1>6
  <2> QED
    BY <1>1, <1>2, <2>2, <2>3
<1> QED
  BY <1>2, <1>8, <1>9 DEF n

\* A parameter or a command that lies there is read as it is: the two words of
\* its head, and what they head.
LEMMA HoldsHeaded ==
    ASSUME NEW bytes \in Seq(Byte), NEW a \in Word, NEW b \in Word, NEW part \in Seq(Byte),
           Len(part) = b, NEW o,
           Holds(bytes, o, WordToBytes(a) \o WordToBytes(b) \o part)
    PROVE  /\ o \in Nat /\ b \in Nat
           /\ Len(WordToBytes(a) \o WordToBytes(b) \o part) = 2 * WordBytes + b
           /\ o + 2 * WordBytes + b <= Len(bytes)
           /\ CanRead(bytes, o, WordBytes) /\ CanRead(bytes, o, 2 * WordBytes)
           /\ CanRead(bytes, o + WordBytes, WordBytes) /\ CanRead(bytes, o + 2 * WordBytes, b)
           /\ WordAt(bytes, o) = a /\ WordAt(bytes, o + WordBytes) = b
           /\ BytesAt(bytes, o + 2 * WordBytes, b) = part
<1> DEFINE x == WordToBytes(a)
           y == WordToBytes(b)
<1>1. a \in Nat /\ b \in Nat
  BY WordsAre
<1>2. x \in Seq(Byte) /\ Len(x) = WordBytes /\ y \in Seq(Byte) /\ Len(y) = WordBytes
  BY <1>1, WordBytesAre
<1> HIDE DEF x, y
<1>3. x \o y \in Seq(Byte) /\ Len(x \o y) = Len(x) + Len(y)
  BY <1>2, ConcatIs
<1> DEFINE xy == x \o y
<1>4. xy \in Seq(Byte) /\ Len(xy) = 2 * WordBytes /\ WordBytes \in Nat
  BY <1>2, <1>3, WordsAre
<1> HIDE DEF xy
<1>5. Holds(bytes, o, xy \o part)
  BY DEF xy, x, y
<1>6. Holds(bytes, o, xy) /\ Holds(bytes, o + 2 * WordBytes, part)
  BY <1>4, <1>5, HoldsConcat
<1>7. Holds(bytes, o, x) /\ Holds(bytes, o + WordBytes, y)
  <2>1. Holds(bytes, o, x \o y)
    BY <1>6 DEF xy
  <2> QED
    BY <1>2, <2>1, HoldsConcat
<1>8. /\ CanRead(bytes, o, WordBytes) /\ WordAt(bytes, o) = a
      /\ CanRead(bytes, o + WordBytes, WordBytes) /\ WordAt(bytes, o + WordBytes) = b
  BY <1>7, HoldsWord DEF x, y
<1>9. CanRead(bytes, o + 2 * WordBytes, b) /\ BytesAt(bytes, o + 2 * WordBytes, b) = part
  BY <1>6, HoldsBytes
<1>10. Len(xy \o part) = Len(xy) + Len(part)
  BY <1>4, ConcatIs
<1>11. o \in Nat /\ CanRead(bytes, o, 2 * WordBytes) /\ o + 2 * WordBytes + b <= Len(bytes)
  BY <1>1, <1>4, <1>6, <1>9 DEF Holds, CanRead
<1> QED
  BY <1>1, <1>4, <1>8, <1>9, <1>10, <1>11 DEF xy, x, y

LEMMA ParameterHeld ==
    ASSUME NEW bytes \in Seq(Byte), NEW p \in R2CPParameter, NEW o,
           Len(bytes) < WordModulus, Holds(bytes, o, ParameterBytes(p))
    PROVE  /\ o \in Nat /\ Len(p.data) \in Nat
           /\ Len(ParameterBytes(p)) = 2 * WordBytes + Len(p.data)
           /\ o + 2 * WordBytes + Len(p.data) <= Len(bytes)
           /\ CanRead(bytes, o, WordBytes) /\ CanRead(bytes, o, 2 * WordBytes)
           /\ CanRead(bytes, o + WordBytes, WordBytes)
           /\ CanRead(bytes, o + 2 * WordBytes, Len(p.data))
           /\ WordAt(bytes, o) = p.code /\ WordAt(bytes, o + WordBytes) = Len(p.data)
           /\ BytesAt(bytes, o + 2 * WordBytes, Len(p.data)) = p.data
<1>1. p.code \in Word /\ p.code \in Nat /\ p.data \in Seq(Byte) /\ Len(p.data) \in Nat
  BY ParameterIs
<1> DEFINE n == Len(p.data)
           x == WordToBytes(p.code) \o WordToBytes(n)
<1>2. ParameterBytes(p) = x \o p.data
  BY DEF ParameterBytes
<1>3. WordToBytes(p.code) \in Seq(Byte) /\ WordToBytes(n) \in Seq(Byte)
  BY <1>1, WordBytesAre
<1>4. x \in Seq(Byte)
  BY <1>3, ConcatIs
<1> HIDE DEF x, n
<1>5. n <= Len(x \o p.data)
  <2>1. Len(x \o p.data) = Len(x) + Len(p.data)
    BY <1>1, <1>4, ConcatIs
  <2>2. Len(x) \in Nat
    BY <1>4
  <2> QED
    BY <1>1, <2>1, <2>2 DEF n
<1>6. n \in Word
  <2>1. Holds(bytes, o, x \o p.data)
    BY <1>2
  <2>2. x \o p.data \in Seq(Byte)
    BY <1>1, <1>4, ConcatIs
  <2>3. o \in Nat /\ Len(x \o p.data) \in Nat /\ o + Len(x \o p.data) <= Len(bytes)
    BY <2>1, <2>2 DEF Holds
  <2> HIDE DEF x
  <2>4. n \in 0 .. WordModulus - 1
    BY <1>1, <1>5, <2>3, WordsAre DEF n
  <2> QED
    BY <2>4 DEF Word
<1>7. Holds(bytes, o, WordToBytes(p.code) \o WordToBytes(n) \o p.data)
  BY <1>2 DEF x
<1> DEFINE c == p.code
           d == p.data
<1>8. c \in Word /\ d \in Seq(Byte) /\ Len(d) = n /\ x = WordToBytes(c) \o WordToBytes(n)
  BY <1>1 DEF n, x
<1> HIDE DEF c, d
<1>9. /\ o \in Nat /\ n \in Nat
      /\ Len(WordToBytes(c) \o WordToBytes(n) \o d) = 2 * WordBytes + n
      /\ o + 2 * WordBytes + n <= Len(bytes)
      /\ CanRead(bytes, o, WordBytes) /\ CanRead(bytes, o, 2 * WordBytes)
      /\ CanRead(bytes, o + WordBytes, WordBytes) /\ CanRead(bytes, o + 2 * WordBytes, n)
      /\ WordAt(bytes, o) = c /\ WordAt(bytes, o + WordBytes) = n
      /\ BytesAt(bytes, o + 2 * WordBytes, n) = d
  <2>1. Holds(bytes, o, WordToBytes(c) \o WordToBytes(n) \o d)
    BY <1>7 DEF c, d
  <2> QED
    BY <1>6, <1>8, <2>1, HoldsHeaded
<1> QED
  BY <1>2, <1>8, <1>9, Zenon DEF n, c, d

LEMMA ParameterTurns ==
    ASSUME NEW code, NEW content \in Seq(Byte), NEW p \in R2CPParameter, NEW o,
           Len(content) < WordModulus, Holds(content, o, ParameterBytes(p))
    PROVE  /\ ValidateParameter(content, o) = o + Len(ParameterBytes(p))
           /\ \A s \in ParameterReads : s.thrown = "none" /\ s.offset = o =>
                IF p.code \in getcommandparameters(code)
                THEN ParseParameter(code, content, s)
                       = [offset |-> o + Len(ParameterBytes(p)),
                          parameters |-> Append(s.parameters, p), thrown |-> "none"]
                ELSE ParseParameter(code, content, s).thrown = "invalid_argument"
<1> DEFINE n == Len(p.data)
           end == o + Len(ParameterBytes(p))
<1>1. /\ o \in Nat /\ n \in Nat
      /\ Len(ParameterBytes(p)) = 2 * WordBytes + n
      /\ o + 2 * WordBytes + n <= Len(content)
      /\ CanRead(content, o, WordBytes) /\ CanRead(content, o, 2 * WordBytes)
      /\ CanRead(content, o + WordBytes, WordBytes)
      /\ CanRead(content, o + 2 * WordBytes, n)
      /\ WordAt(content, o) = p.code /\ WordAt(content, o + WordBytes) = n
      /\ BytesAt(content, o + 2 * WordBytes, n) = p.data
  BY ParameterHeld
<1> HIDE DEF n
<1>2. /\ WordBytes \in Nat /\ o + WordBytes \in Nat /\ o + 2 * WordBytes \in Nat
      /\ o + WordBytes + WordBytes = o + 2 * WordBytes /\ end = o + 2 * WordBytes + n
      /\ o + WordBytes < WordModulus /\ o + 2 * WordBytes + n < WordModulus
      /\ o # Ended
  BY <1>1, WordsAre DEF Ended
<1> HIDE DEF end
<1>3. ValidateParameter(content, o) = end
  <2>1. Skip(o, WordBytes) = o + WordBytes
    BY <1>1, <1>2, SkipIs
  <2>2. Skip(o + WordBytes + WordBytes, n) = o + 2 * WordBytes + n
    BY <1>1, <1>2, SkipIs
  <2>3. ValidateParameter(content, o) = Skip(o + WordBytes + WordBytes, n)
    BY <1>1, <1>2, <2>1, Zenon DEF ValidateParameter
  <2> QED
    BY <1>2, <2>2, <2>3
<1>4. ASSUME NEW s \in ParameterReads, s.thrown = "none", s.offset = o
      PROVE  IF p.code \in getcommandparameters(code)
             THEN ParseParameter(code, content, s)
                    = [offset |-> end, parameters |-> Append(s.parameters, p), thrown |-> "none"]
             ELSE ParseParameter(code, content, s).thrown = "invalid_argument"
  <2>0. s = [offset |-> o, parameters |-> s.parameters, thrown |-> "none"]
    BY <1>4 DEF ParameterReads
  <2>1. CASE p.code \in getcommandparameters(code)
    <3> DEFINE t == ParseParameter(code, content, s)
    <3>1. t = [s EXCEPT !.offset = o + 2 * WordBytes + n,
                        !.parameters = Append(@, [code |-> p.code, data |-> p.data])]
      BY <1>1, <1>4, <2>1 DEF ParseParameter
    <3>2. [code |-> p.code, data |-> p.data] = p
      BY DEF R2CPParameter
    <3> HIDE DEF t
    <3>3. t = [s EXCEPT !.offset = end, !.parameters = Append(@, p)]
      BY <1>2, <3>1, <3>2, Zenon
    <3>4. t = [offset |-> end, parameters |-> Append(s.parameters, p), thrown |-> "none"]
      BY <1>4, <3>3 DEF ParameterReads
    <3> QED
      BY <2>1, <3>4 DEF t
  <2>2. CASE p.code \notin getcommandparameters(code)
    <3>1. ParseParameter(code, content, s) = Throw(s, "invalid_argument")
      BY <1>1, <1>4, <2>2 DEF ParseParameter
    <3>2. Throw(s, "invalid_argument").thrown = "invalid_argument"
      BY <2>0 DEF Throw
    <3> QED
      BY <2>2, <3>1, <3>2
  <2> QED
    BY <2>1, <2>2
<1> QED
  BY <1>3, <1>4 DEF end

LEMMA HeadedLength ==
    ASSUME NEW a \in Nat, NEW b \in Nat, NEW part \in Seq(Byte)
    PROVE  Len(WordToBytes(a) \o WordToBytes(b) \o part) = 2 * WordBytes + Len(part)
<1> DEFINE x == WordToBytes(a)
           y == WordToBytes(b)
           xy == x \o y
<1>1. x \in Seq(Byte) /\ Len(x) = WordBytes /\ y \in Seq(Byte) /\ Len(y) = WordBytes
  BY WordBytesAre
<1> HIDE DEF x, y
<1>2. xy \in Seq(Byte) /\ Len(xy) = 2 * WordBytes
  <2>1. xy \in Seq(Byte) /\ Len(xy) = Len(x) + Len(y)
    BY <1>1, ConcatIs
  <2> QED
    BY <1>1, <2>1, WordsAre
<1> HIDE DEF xy
<1>3. Len(xy \o part) = Len(xy) + Len(part)
  BY <1>2, ConcatIs
<1> QED
  BY <1>2, <1>3 DEF xy, x, y

\* Parts that their number precedes: it is read as it is, and each part lies
\* where the one before it ends.
LEMMA CountedParts ==
    ASSUME NEW seqs \in Seq(Seq(Byte)), NEW content \in Seq(Byte),
           content = WordToBytes(Len(seqs)) \o FlattenSeq(seqs),
           \A i \in 1 .. Len(seqs) : Len(seqs[i]) # 0, Len(content) < WordModulus
    PROVE  /\ CanRead(content, 0, WordBytes) /\ WordAt(content, 0) = Len(seqs)
           /\ \E e : IsLayout(e, content, WordBytes, seqs) /\ e[Len(seqs)] = Len(content)
<1> DEFINE n == Len(seqs)
           a == WordToBytes(n)
           b == FlattenSeq(seqs)
<1>1. n \in Nat
  OBVIOUS
<1>2. b \in Seq(Byte)
  BY FlattenTyped
<1> HIDE DEF n, b
<1>3. a \in Seq(Byte) /\ Len(a) = WordBytes /\ WordBytes \in Nat
  BY <1>1, WordBytesAre, WordsAre
<1> HIDE DEF a
<1>4. content = a \o b /\ Len(content) = WordBytes + Len(b) /\ Len(b) \in Nat
  <2>1. content = a \o b
    BY DEF a, b, n
  <2>2. Len(a \o b) = Len(a) + Len(b)
    BY <1>2, <1>3, ConcatIs
  <2> QED
    BY <1>2, <1>3, <2>1, <2>2
<1>5. Holds(content, 0, a) /\ Holds(content, WordBytes, b)
  <2>1. Holds(content, 0, a \o b)
    BY <1>4, HoldsItself
  <2>2. Holds(content, 0, a) /\ Holds(content, 0 + Len(a), b)
    BY <1>2, <1>3, <2>1, HoldsConcat
  <2>3. 0 + Len(a) = WordBytes
    BY <1>3
  <2> QED
    BY <2>2, <2>3
<1>6. PICK e : IsLayout(e, content, WordBytes, seqs)
  BY <1>2, <1>5, HoldsFlatten DEF b
<1>7. n <= Len(b)
  BY <1>3, <1>6, LayoutGrows DEF b, n
<1>8. n \in Word
  <2>1. n \in 0 .. WordModulus - 1
    BY <1>1, <1>3, <1>4, <1>7, WordsAre
  <2> QED
    BY <2>1 DEF Word
<1>9. CanRead(content, 0, WordBytes) /\ WordAt(content, 0) = n
  BY <1>5, <1>8, HoldsWord DEF a
<1>10. e[n] = Len(content)
  BY <1>2, <1>4, <1>6 DEF IsLayout, b, n
<1> QED
  BY <1>6, <1>9, <1>10 DEF n

LEMMA ParametersHeld ==
    ASSUME NEW list \in Seq(R2CPParameter), NEW content,
           content = WordToBytes(Len(list)) \o FlattenSeq(ParameterParts(list)),
           content \in Seq(Byte), Len(content) < WordModulus
    PROVE  /\ CanRead(content, 0, WordBytes) /\ WordAt(content, 0) = Len(list)
           /\ \E e : /\ IsLayout(e, content, WordBytes, ParameterParts(list))
                     /\ e[Len(list)] = Len(content)
<1> DEFINE seqs == ParameterParts(list)
<1>1. seqs \in Seq(Seq(Byte)) /\ Len(seqs) = Len(list)
  BY ParameterPartsAre
<1>2. ASSUME NEW i \in 1 .. Len(list)
      PROVE  Len(seqs[i]) # 0
  <2> DEFINE p == list[i]
             d == p.data
             l == Len(d)
  <2>1. p \in R2CPParameter /\ seqs[i] = ParameterBytes(p)
    BY DEF ParameterParts
  <2>2. p.code \in Nat /\ d \in Seq(Byte) /\ l \in Nat
    BY <2>1, ParameterIs
  <2>3. Len(ParameterBytes(p)) = 2 * WordBytes + l
    BY <2>2, HeadedLength DEF ParameterBytes
  <2> HIDE DEF l, d, p, seqs
  <2> QED
    BY <2>1, <2>2, <2>3, WordsAre
<1>3. content = WordToBytes(Len(seqs)) \o FlattenSeq(seqs)
  BY <1>1
<1> HIDE DEF seqs
<1>4. /\ CanRead(content, 0, WordBytes) /\ WordAt(content, 0) = Len(seqs)
      /\ \E e : IsLayout(e, content, WordBytes, seqs) /\ e[Len(seqs)] = Len(content)
  <2>1. \A i \in 1 .. Len(seqs) : Len(seqs[i]) # 0
    BY <1>1, <1>2
  <2> QED
    BY <1>1, <1>3, <2>1, CountedParts
<1>5. /\ CanRead(content, 0, WordBytes) /\ WordAt(content, 0) = Len(list)
      /\ \E e : IsLayout(e, content, WordBytes, seqs) /\ e[Len(list)] = Len(content)
  <2> DEFINE l == Len(seqs)
             m == Len(list)
  <2>1. l = m /\ WordAt(content, 0) = l
        /\ \E e : IsLayout(e, content, WordBytes, seqs) /\ e[l] = Len(content)
    BY <1>1, <1>4
  <2> HIDE DEF l, m
  <2>2. WordAt(content, 0) = m
        /\ \E e : IsLayout(e, content, WordBytes, seqs) /\ e[m] = Len(content)
    BY <2>1, Zenon
  <2> QED
    BY <1>4, <2>2 DEF m
<1> QED
  BY <1>5 DEF seqs

LEMMA FirstOnes ==
    ASSUME NEW S, NEW list \in Seq(S)
    PROVE  /\ SubSeq(list, 1, 0) = <<>> /\ SubSeq(list, 1, Len(list)) = list
           /\ \A i \in 1 .. Len(list) :
                SubSeq(list, 1, i) = Append(SubSeq(list, 1, i - 1), list[i])
<1>1. SubSeq(list, 1, 0) = <<>> /\ SubSeq(list, 1, Len(list)) = list
  OBVIOUS
<1>2. ASSUME NEW i \in 1 .. Len(list)
      PROVE  SubSeq(list, 1, i) = Append(SubSeq(list, 1, i - 1), list[i])
  <2> DEFINE a == SubSeq(list, 1, i)
             b == SubSeq(list, 1, i - 1)
             c == Append(b, list[i])
  <2>1. i \in Nat /\ i - 1 \in Nat /\ list[i] \in S
    OBVIOUS
  <2>2. a \in Seq(S) /\ Len(a) = i /\ \A j \in 1 .. i : a[j] = list[j]
    BY <2>1
  <2>3. b \in Seq(S) /\ Len(b) = i - 1 /\ \A j \in 1 .. i - 1 : b[j] = list[j]
    BY <2>1
  <2> HIDE DEF a, b
  <2>4. c \in Seq(S) /\ Len(c) = i /\ c[i] = list[i] /\ \A j \in 1 .. i - 1 : c[j] = b[j]
    BY <2>1, <2>3
  <2> HIDE DEF c
  <2>5. ASSUME NEW j \in 1 .. i
        PROVE  a[j] = c[j]
    <3>1. j = i \/ j \in 1 .. i - 1
      BY <2>1
    <3> QED
      BY <2>2, <2>3, <2>4, <3>1
  <2>6. a = c
    BY <2>2, <2>4, <2>5, SeqEqual
  <2> QED
    BY <2>6 DEF a, b, c
<1> QED
  BY <1>1, <1>2

\* Parameters that lie in a content are valid, and are read as they are, unless
\* there is one that is not the command's.
LEMMA ParametersArrive ==
    ASSUME NEW code, NEW list \in Seq(R2CPParameter), NEW content,
           content = WordToBytes(Len(list)) \o FlattenSeq(ParameterParts(list)),
           content \in Seq(Byte), Len(content) < WordModulus
    PROVE  /\ validateparameterizedcommandcontent(content)
           /\ LET r == parseparameterizedcommandcontent(code, content)
              IN  IF \A i \in DOMAIN list : list[i].code \in getcommandparameters(code)
                  THEN r.thrown = "none" /\ r.parameters = list
                  ELSE r.thrown = "invalid_argument"
<1> DEFINE n == Len(list)
           r == parseparameterizedcommandcontent(code, content)
           part(i) == ParameterParts(list)[i]
<1>1. n \in Nat /\ DOMAIN list = 1 .. n
  OBVIOUS
<1>2. /\ CanRead(content, 0, WordBytes) /\ WordAt(content, 0) = n
      /\ \E e : IsLayout(e, content, WordBytes, ParameterParts(list)) /\ e[n] = Len(content)
  BY ParametersHeld
<1>3. PICK e : IsLayout(e, content, WordBytes, ParameterParts(list)) /\ e[n] = Len(content)
  BY <1>2
<1>4. ASSUME NEW i \in 1 .. n
      PROVE  list[i] \in R2CPParameter /\ part(i) = ParameterBytes(list[i])
  BY DEF ParameterParts
<1>5. /\ e[0] = WordBytes /\ \A i \in 0 .. n : e[i] \in Nat
      /\ \A i \in 1 .. n : e[i] = e[i - 1] + Len(ParameterBytes(list[i]))
                           /\ Holds(content, e[i - 1], ParameterBytes(list[i]))
  <2>1. Len(ParameterParts(list)) = n
    BY ParameterPartsAre
  <2> HIDE DEF n
  <2> QED
    BY <1>3, <1>4, <2>1 DEF IsLayout
<1> HIDE DEF n, r
<1>6. /\ validateparameterizedcommandcontent(content) <=> ParametersEnd(content, n) = Len(content)
      /\ r = ParametersRead(code, content, n)
  BY <1>2, ParameterizedIs DEF r
<1>7. PICK o : IsParameterOffsets(o, content, n) /\ ParametersEnd(content, n) = o[n]
  BY <1>1, ParameterOffsets
<1>8. PICK p : IsParameterStates(p, code, content, n) /\ ParametersRead(code, content, n) = p[n]
  BY <1>1, ParameterStates
<1>9. validateparameterizedcommandcontent(content)
  <2> DEFINE A == {i \in 0 .. n : o[i] = e[i]}
  <2>1. 0 \in A
    BY <1>1, <1>5, <1>7 DEF IsParameterOffsets
  <2>2. ASSUME NEW i \in 1 .. n, i - 1 \in A
        PROVE  i \in A
    <3>1. o[i] = ValidateParameter(content, e[i - 1])
      BY <1>7, <2>2 DEF IsParameterOffsets
    <3>2. ValidateParameter(content, e[i - 1]) = e[i - 1] + Len(ParameterBytes(list[i]))
      BY <1>4, <1>5, ParameterTurns
    <3>3. o[i] = e[i]
      BY <1>5, <3>1, <3>2
    <3> QED
      BY <1>1, <3>3
  <2>3. n \in A
    <3> HIDE DEF A
    <3>1. n \in 0 .. n
      BY <1>1
    <3> QED
      BY <1>1, <2>1, <2>2, <3>1, UpTo
  <2> QED
    BY <1>3, <1>6, <1>7, <2>3
<1> DEFINE Good(i) == \A j \in 1 .. i : list[j].code \in getcommandparameters(code)
           Read(i) == [offset |-> e[i], parameters |-> SubSeq(list, 1, i), thrown |-> "none"]
           A == {i \in 0 .. n : IF Good(i) THEN p[i] = Read(i)
                                ELSE p[i].thrown = "invalid_argument"}
<1>10. /\ SubSeq(list, 1, 0) = <<>> /\ SubSeq(list, 1, n) = list
       /\ \A i \in 1 .. n : SubSeq(list, 1, i) = Append(SubSeq(list, 1, i - 1), list[i])
  BY FirstOnes DEF n
<1>11. 0 \in A
  <2>1. p[0] = Read(0)
    BY <1>5, <1>8, <1>10 DEF IsParameterStates, FirstParameter
  <2> HIDE DEF Read
  <2> QED
    BY <1>1, <2>1
<1>12. ASSUME NEW i \in 1 .. n, i - 1 \in A
       PROVE  i \in A
  <2> DEFINE s == p[i - 1]
             t == p[i]
             q == list[i]
  <2>1. s \in ParameterReads /\ t = ParseParameter(code, content, s)
    <3>1. i - 1 \in 0 .. n
      BY <1>1
    <3> QED
      BY <1>8, <3>1 DEF IsParameterStates
  <2>2. IF Good(i - 1) THEN s = Read(i - 1) ELSE s.thrown = "invalid_argument"
    BY <1>12
  <2> SUFFICES IF Good(i) THEN t = Read(i) ELSE t.thrown = "invalid_argument"
    BY <1>1
  <2>3. Good(i) <=> Good(i - 1) /\ q.code \in getcommandparameters(code)
    <3>1. 1 .. i = (1 .. i - 1) \cup {i}
      BY <1>1
    <3> QED
      BY <3>1
  <2> HIDE DEF Good, s, t
  <2>4. CASE Good(i - 1)
    <3>1. s = Read(i - 1)
      BY <2>2, <2>4
    <3>2. s.thrown = "none" /\ s.offset = e[i - 1] /\ s.parameters = SubSeq(list, 1, i - 1)
      BY <3>1
    <3>3. IF q.code \in getcommandparameters(code)
          THEN t = [offset |-> e[i - 1] + Len(ParameterBytes(q)),
                    parameters |-> Append(s.parameters, q), thrown |-> "none"]
          ELSE t.thrown = "invalid_argument"
      <4>1. q \in R2CPParameter /\ Holds(content, e[i - 1], ParameterBytes(q))
        BY <1>4, <1>5
      <4> HIDE DEF q
      <4> QED
        BY <2>1, <3>2, <4>1, ParameterTurns
    <3>4. e[i] = e[i - 1] + Len(ParameterBytes(q))
          /\ SubSeq(list, 1, i) = Append(SubSeq(list, 1, i - 1), q)
      BY <1>5, <1>10
    <3> HIDE DEF q
    <3>5. q.code \in getcommandparameters(code) => t = Read(i)
      BY <3>2, <3>3, <3>4
    <3> HIDE DEF Read
    <3> QED
      BY <2>3, <2>4, <3>3, <3>5
  <2>5. CASE ~ Good(i - 1)
    <3>1. s.thrown = "invalid_argument"
      BY <2>2, <2>5
    <3>2. t = s
      BY <2>1, <3>1 DEF ParseParameter
    <3> HIDE DEF Read
    <3> QED
      BY <2>3, <2>5, <3>1, <3>2
  <2> QED
    BY <2>4, <2>5
<1>13. IF Good(n) THEN p[n] = Read(n) ELSE p[n].thrown = "invalid_argument"
  <2>1. n \in A
    <3> HIDE DEF A
    <3>1. n \in 0 .. n
      BY <1>1
    <3> QED
      BY <1>1, <1>11, <1>12, <3>1, UpTo
  <2> HIDE DEF Good, Read
  <2> QED
    BY <2>1
<1>14. r = p[n] /\ Read(n).thrown = "none" /\ Read(n).parameters = list
  BY <1>6, <1>8, <1>10
<1> HIDE DEF Read
<1> QED
  BY <1>1, <1>9, <1>13, <1>14 DEF r

\* A content that is one parameter's data and nothing else.
LEMMA DirectContent ==
    ASSUME NEW k \in R2CPCommand, IsDirect(k.parameters),
           getcommandcontenttype(k.code) # PARAMETERIZEDCONTENT
    PROVE  /\ k.parameters[1] \in R2CPParameter /\ k.parameters[1].data \in Seq(Byte)
           /\ Content(k) = k.parameters[1].data
<1> DEFINE list == k.parameters
           data == list[1].data
           a == [i \in DOMAIN list |-> list[i].data]
<1>1. list \in Seq(R2CPParameter) /\ Len(list) = 1
  BY CommandIs DEF IsDirect
<1>2. list[1] \in R2CPParameter
  BY <1>1
<1>3. data \in Seq(Byte)
  BY <1>2 DEF R2CPParameter
<1>4. Content(k) = FlattenSeq(a)
  BY DEF Content
<1>5. a \in Seq(Seq(Byte)) /\ Len(a) = 1 /\ a[1] = data
  <2>1. DOMAIN list = 1 .. 1
    BY <1>1
  <2>2. a = [i \in 1 .. 1 |-> data]
    BY <2>1
  <2> HIDE DEF a, data
  <2> QED
    BY <1>3, <2>2
<1> HIDE DEF a, data, list
<1>6. /\ Append(<<>>, data) \in Seq(Seq(Byte)) /\ Len(Append(<<>>, data)) = 1
      /\ Append(<<>>, data)[1] = data
  BY <1>3
<1>7. a = Append(<<>>, data)
  BY <1>5, <1>6, SeqEqual
<1>8. FlattenSeq(Append(<<>>, data)) = FlattenSeq(<<>>) \o data
  BY <1>3, FlattenAppend, EmptySeq
<1>9. <<>> \o data = data
  BY <1>3, ConcatEmptySeq
<1>10. Content(k) = data
  BY <1>4, <1>7, <1>8, <1>9, FlattenEmpty, Zenon
<1> QED
  BY <1>2, <1>3, <1>10 DEF data, list

\* The same of a content of any type, that a client writes for a command.
LEMMA ContentArrives ==
    ASSUME NEW k \in R2CPCommand, WellFormed(k), ContentIsExpected(k),
           Len(Content(k)) < WordModulus
    PROVE  /\ validatecommandcontent(k.code, Content(k))
           /\ LET r == parsecommandcontent(k.code, Content(k))
              IN  IF KnownParameters(k)
                  THEN r.thrown = "none" /\ r.parameters = k.parameters
                  ELSE r.thrown = "invalid_argument"
<1> DEFINE code == k.code
           list == k.parameters
           content == Content(k)
           r == parsecommandcontent(code, content)
<1>1. code \in Word /\ list \in Seq(R2CPParameter) /\ content \in Seq(Byte)
  BY CommandIs, ContentIs
<1>2. CASE getcommandcontenttype(code) = PARAMETERIZEDCONTENT
  <2>1. content = WordToBytes(Len(list)) \o FlattenSeq(ParameterParts(list))
    BY <1>2, Zenon DEF Content, ParameterParts
  <2>2. r = parseparameterizedcommandcontent(code, content)
    BY <1>2 DEF parsecommandcontent, PARAMETERIZEDCONTENT, DIRECTCONTENT
  <2>3. validatecommandcontent(code, content) <=> validateparameterizedcommandcontent(content)
    BY <1>2 DEF validatecommandcontent, PARAMETERIZEDCONTENT, NOCONTENT
  <2>4. KnownParameters(k)
          <=> \A i \in DOMAIN list : list[i].code \in getcommandparameters(code)
    BY <1>2 DEF KnownParameters
  <2> HIDE DEF code, list, content, r
  <2>5. Len(content) < WordModulus
    BY DEF content
  <2>6. /\ validateparameterizedcommandcontent(content)
        /\ IF \A i \in DOMAIN list : list[i].code \in getcommandparameters(code)
           THEN r.thrown = "none" /\ r.parameters = list
           ELSE r.thrown = "invalid_argument"
    BY <1>1, <2>1, <2>2, <2>5, ParametersArrive
  <2>7. validatecommandcontent(code, content)
    BY <2>3, <2>6
  <2>8. IF KnownParameters(k) THEN r.thrown = "none" /\ r.parameters = list
        ELSE r.thrown = "invalid_argument"
    BY <2>4, <2>6, Zenon
  <2> QED
    BY <2>7, <2>8 DEF code, list, content, r
<1>3. CASE getcommandcontenttype(code) = DIRECTCONTENT
  <2>1. IsDirect(list)
    BY <1>3 DEF WellFormed
  <2>2. Len(list) = 1 /\ list[1].code = NOPARAMETERS /\ list[1] \in R2CPParameter
    BY <1>1, <2>1 DEF IsDirect
  <2> DEFINE data == list[1].data
  <2>3. data \in Seq(Byte) /\ list[1] = [code |-> NOPARAMETERS, data |-> data]
    BY <2>2 DEF R2CPParameter
  <2>4. content = data
    BY <1>3, <2>1, DirectContent DEF DIRECTCONTENT, PARAMETERIZEDCONTENT
  <2>5. r = [parameters |-> <<[code |-> NOPARAMETERS, data |-> content]>>, thrown |-> "none"]
    BY <1>3 DEF parsecommandcontent, DIRECTCONTENT, PARAMETERIZEDCONTENT
  <2>6. validatecommandcontent(code, content)
    BY <1>3 DEF validatecommandcontent, PARAMETERIZEDCONTENT, NOCONTENT, DIRECTCONTENT
  <2>7. KnownParameters(k)
    BY <1>3 DEF KnownParameters, DIRECTCONTENT, PARAMETERIZEDCONTENT
  <2> HIDE DEF content, data, r
  <2>8. r.parameters = <<list[1]>> /\ r.thrown = "none"
    BY <2>3, <2>4, <2>5
  <2>9. list = <<list[1]>>
    BY <1>1, <2>2
  <2> QED
    BY <2>6, <2>7, <2>8, <2>9 DEF content, r
<1>4. CASE getcommandcontenttype(code) = NOCONTENT
  <2>1. content = <<>>
    BY <1>4 DEF ContentIsExpected
  <2>2. list = <<>>
    <3> SUFFICES ASSUME list # <<>>
                 PROVE  FALSE
      OBVIOUS
    <3>1. IsDirect(list) /\ list[1] \in R2CPParameter /\ list[1].data # <<>>
      BY <1>1, <1>4 DEF WellFormed, IsDirect
    <3> DEFINE data == list[1].data
    <3>2. data \in Seq(Byte) /\ data # <<>>
      BY <3>1 DEF R2CPParameter
    <3>3. content = data
      BY <1>4, <3>1, DirectContent DEF IsDirect, NOCONTENT, PARAMETERIZEDCONTENT
    <3> QED
      BY <2>1, <3>2, <3>3
  <2>3. r = [parameters |-> <<>>, thrown |-> "none"]
    BY <1>4 DEF parsecommandcontent, DIRECTCONTENT, PARAMETERIZEDCONTENT, NOCONTENT
  <2>4. validatecommandcontent(code, content)
    BY <1>4, <2>1 DEF validatecommandcontent, PARAMETERIZEDCONTENT, NOCONTENT, DIRECTCONTENT
  <2>5. KnownParameters(k)
    BY <1>4 DEF KnownParameters, NOCONTENT, PARAMETERIZEDCONTENT
  <2> HIDE DEF content, r
  <2> QED
    BY <2>2, <2>3, <2>4, <2>5 DEF content, r
<1> QED
  BY <1>2, <1>3, <1>4, ContentTypes

-----------------------------------------------------------------------------
(* What becomes of a client's commands *)

LEMMA CommandHeld ==
    ASSUME NEW bytes \in Seq(Byte), NEW k \in R2CPCommand, NEW o,
           Len(bytes) < WordModulus, Holds(bytes, o, CommandBytes(k))
    PROVE  LET size == Len(Content(k))
           IN  /\ o \in Nat /\ size \in Nat /\ size < WordModulus
               /\ Len(CommandBytes(k)) = 2 * WordBytes + size
               /\ o + 2 * WordBytes + size <= Len(bytes)
               /\ CanRead(bytes, o, 2 * WordBytes)
               /\ CanRead(bytes, o + 2 * WordBytes, size)
               /\ WordAt(bytes, o) = k.code /\ WordAt(bytes, o + WordBytes) = size
               /\ BytesAt(bytes, o + 2 * WordBytes, size) = Content(k)
<1> DEFINE c == k.code
           d == Content(k)
           n == Len(d)
           x == WordToBytes(c) \o WordToBytes(n)
<1>1. c \in Word /\ c \in Nat /\ d \in Seq(Byte) /\ n \in Nat
  BY CommandIs, ContentIs
<1>2. CommandBytes(k) = x \o d
  BY Zenon DEF CommandBytes
<1> HIDE DEF c, d
<1>3. WordToBytes(c) \in Seq(Byte) /\ WordToBytes(n) \in Seq(Byte)
  <2> HIDE DEF n
  <2> QED
    BY <1>1, WordBytesAre
<1>4. x \in Seq(Byte)
  BY <1>3, ConcatIs
<1> HIDE DEF x
<1>5. Len(x \o d) = Len(x) + n /\ Len(x) \in Nat /\ x \o d \in Seq(Byte)
  BY <1>1, <1>4, ConcatIs
<1>6. o \in Nat /\ o + Len(x \o d) <= Len(bytes) /\ Len(bytes) \in Nat
  BY <1>2 DEF Holds
<1> HIDE DEF n
<1>7. n < WordModulus /\ n \in 0 .. WordModulus - 1
  <2> DEFINE l == Len(x)
             b == Len(bytes)
  <2>1. l \in Nat /\ b \in Nat /\ o + (l + n) <= b /\ b < WordModulus
    BY <1>5, <1>6
  <2> HIDE DEF l, b
  <2> QED
    BY <1>1, <1>6, <2>1, WordsAre
<1>8. Holds(bytes, o, WordToBytes(c) \o WordToBytes(n) \o d)
  BY <1>2 DEF x
<1>9. n \in Word /\ Len(d) = n
  BY <1>7 DEF Word, n
<1>10. /\ o \in Nat /\ n \in Nat
       /\ Len(WordToBytes(c) \o WordToBytes(n) \o d) = 2 * WordBytes + n
       /\ o + 2 * WordBytes + n <= Len(bytes)
       /\ CanRead(bytes, o, 2 * WordBytes) /\ CanRead(bytes, o + 2 * WordBytes, n)
       /\ WordAt(bytes, o) = c /\ WordAt(bytes, o + WordBytes) = n
       /\ BytesAt(bytes, o + 2 * WordBytes, n) = d
  BY <1>1, <1>8, <1>9, HoldsHeaded
<1>11. Len(CommandBytes(k)) = 2 * WordBytes + n
  BY <1>2, <1>10 DEF x
<1> QED
  BY <1>7, <1>10, <1>11 DEF n, c, d

\* A command that lies there is valid, and is read as it is or passed over.
LEMMA CommandTurns ==
    ASSUME NEW bytes \in Seq(Byte), NEW k \in R2CPCommand, NEW o,
           Len(bytes) < WordModulus, Holds(bytes, o, CommandBytes(k)),
           WellFormed(k), ContentIsExpected(k)
    PROVE  /\ ValidateCommand(bytes, o) = o + Len(CommandBytes(k))
           /\ \A s \in CommandReads : s.thrown = "none" /\ s.offset = o =>
                ParseCommand(bytes, s) = [offset |-> o + Len(CommandBytes(k)),
                                          commands |-> s.commands \o Kept(k), thrown |-> "none"]
<1> DEFINE n == Len(Content(k))
           end == o + Len(CommandBytes(k))
           content == parsecommandcontent(k.code, Content(k))
<1>1. /\ o \in Nat /\ n \in Nat /\ n < WordModulus
      /\ Len(CommandBytes(k)) = 2 * WordBytes + n
      /\ o + 2 * WordBytes + n <= Len(bytes)
      /\ CanRead(bytes, o, 2 * WordBytes) /\ CanRead(bytes, o + 2 * WordBytes, n)
      /\ WordAt(bytes, o) = k.code /\ WordAt(bytes, o + WordBytes) = n
      /\ BytesAt(bytes, o + 2 * WordBytes, n) = Content(k)
  BY CommandHeld
<1>2. /\ validatecommandcontent(k.code, Content(k))
      /\ IF KnownParameters(k) THEN content.thrown = "none" /\ content.parameters = k.parameters
         ELSE content.thrown = "invalid_argument"
  BY <1>1, ContentArrives
<1> HIDE DEF n, content
<1>3. /\ o + 2 * WordBytes \in Nat /\ end = o + 2 * WordBytes + n
      /\ o + 2 * WordBytes + n < WordModulus /\ o # Ended
  BY <1>1, WordsAre DEF Ended
<1> HIDE DEF end
<1>4. ValidateCommand(bytes, o) = end
  BY <1>1, <1>2, <1>3, Zenon DEF ValidateCommand
<1>5. ASSUME NEW s \in CommandReads, s.thrown = "none", s.offset = o
      PROVE  ParseCommand(bytes, s)
               = [offset |-> end, commands |-> s.commands \o Kept(k), thrown |-> "none"]
  <2> DEFINE t == ParseCommand(bytes, s)
  <2>0. s.commands \in Seq(R2CPCommand)
    BY DEF CommandReads
  <2>1. CASE ~ checkifvalidcommand(k.code)
    <3>1. t = [s EXCEPT !.offset = Skip(o + 2 * WordBytes, n)]
      BY <1>1, <1>5, <2>1 DEF ParseCommand
    <3>2. Skip(o + 2 * WordBytes, n) = end
      BY <1>1, <1>3, SkipIs
    <3> HIDE DEF t
    <3>3. t = [offset |-> end, commands |-> s.commands, thrown |-> "none"]
      BY <1>5, <3>1, <3>2 DEF CommandReads
    <3>4. Kept(k) = <<>>
      BY <2>1 DEF Kept
    <3>5. s.commands \o <<>> = s.commands
      BY <2>0, ConcatEmptySeq
    <3> QED
      BY <3>3, <3>4, <3>5 DEF t
  <2>2. CASE checkifvalidcommand(k.code) /\ KnownParameters(k)
    <3>1. t = [s EXCEPT !.offset = o + 2 * WordBytes + n,
                        !.commands = Append(@, [code |-> k.code, parameters |-> content.parameters])]
      BY <1>1, <1>2, <1>5, <2>2 DEF ParseCommand, content
    <3>2. [code |-> k.code, parameters |-> content.parameters] = k
      BY <1>2, <2>2 DEF R2CPCommand
    <3> HIDE DEF t
    <3>3. t = [s EXCEPT !.offset = end, !.commands = Append(@, k)]
      BY <1>3, <3>1, <3>2, Zenon
    <3>4. t = [offset |-> end, commands |-> Append(s.commands, k), thrown |-> "none"]
      BY <1>5, <3>3 DEF CommandReads
    <3>5. Kept(k) = <<k>>
      BY <2>2 DEF Kept
    <3>6. s.commands \o <<k>> = Append(s.commands, k)
      BY <2>0
    <3> QED
      BY <3>4, <3>5, <3>6 DEF t
  <2>3. CASE checkifvalidcommand(k.code) /\ ~ KnownParameters(k)
    <3>1. content.thrown = "invalid_argument"
      BY <1>2, <2>3
    <3>2. t = [s EXCEPT !.offset = o + 2 * WordBytes + n, !.commands = @]
      BY <1>1, <1>5, <2>3, <3>1 DEF ParseCommand, content
    <3> HIDE DEF t
    <3>3. t = [offset |-> end, commands |-> s.commands, thrown |-> "none"]
      BY <1>3, <1>5, <3>2 DEF CommandReads
    <3>4. Kept(k) = <<>>
      BY <2>3 DEF Kept
    <3>5. s.commands \o <<>> = s.commands
      BY <2>0, ConcatEmptySeq
    <3> QED
      BY <3>3, <3>4, <3>5 DEF t
  <2> QED
    BY <2>1, <2>2, <2>3
<1> QED
  BY <1>4, <1>5 DEF end

LEMMA CommandsHeld ==
    ASSUME NEW list \in Seq(R2CPCommand), NEW body \in Seq(Byte),
           body = WordToBytes(Len(list)) \o FlattenSeq(CommandParts(list)),
           Len(body) < WordModulus
    PROVE  /\ CanRead(body, 0, WordBytes) /\ WordAt(body, 0) = Len(list)
           /\ \E e : /\ IsLayout(e, body, WordBytes, CommandParts(list))
                     /\ e[Len(list)] = Len(body)
<1> DEFINE seqs == CommandParts(list)
<1>1. seqs \in Seq(Seq(Byte)) /\ Len(seqs) = Len(list)
  BY CommandPartsTyped
<1>2. ASSUME NEW i \in 1 .. Len(list)
      PROVE  Len(seqs[i]) # 0
  <2> DEFINE k == list[i]
             d == Content(k)
             l == Len(d)
  <2>1. k \in R2CPCommand /\ seqs[i] = CommandBytes(k)
    BY DEF CommandParts
  <2>2. k.code \in Nat /\ d \in Seq(Byte) /\ l \in Nat
    BY <2>1, CommandIs, ContentIs
  <2>3. Len(CommandBytes(k)) = 2 * WordBytes + l
    BY <2>2, HeadedLength DEF CommandBytes
  <2> HIDE DEF l, d, k, seqs
  <2> QED
    BY <2>1, <2>2, <2>3, WordsAre
<1>3. body = WordToBytes(Len(seqs)) \o FlattenSeq(seqs)
  BY <1>1
<1> HIDE DEF seqs
<1>4. /\ CanRead(body, 0, WordBytes) /\ WordAt(body, 0) = Len(seqs)
      /\ \E e : IsLayout(e, body, WordBytes, seqs) /\ e[Len(seqs)] = Len(body)
  <2>1. \A i \in 1 .. Len(seqs) : Len(seqs[i]) # 0
    BY <1>1, <1>2
  <2> QED
    BY <1>1, <1>3, <2>1, CountedParts
<1>5. /\ CanRead(body, 0, WordBytes) /\ WordAt(body, 0) = Len(list)
      /\ \E e : IsLayout(e, body, WordBytes, seqs) /\ e[Len(list)] = Len(body)
  <2> DEFINE l == Len(seqs)
             m == Len(list)
  <2>1. l = m /\ WordAt(body, 0) = l
        /\ \E e : IsLayout(e, body, WordBytes, seqs) /\ e[l] = Len(body)
    BY <1>1, <1>4
  <2> HIDE DEF l, m
  <2>2. WordAt(body, 0) = m
        /\ \E e : IsLayout(e, body, WordBytes, seqs) /\ e[m] = Len(body)
    BY <2>1, Zenon
  <2> QED
    BY <1>4, <2>2 DEF m
<1> QED
  BY <1>5 DEF seqs

\* The packet built from commands has them behind the two words of its header.
LEMMA PacketHeld ==
    ASSUME NEW list \in Seq(R2CPCommand), NEW m \in Word, NEW bytes \in Seq(Byte),
           bytes = PacketBytes(m, list), Len(bytes) < WordModulus
    PROVE  \E body \in Seq(Byte) :
             /\ body = WordToBytes(Len(list)) \o FlattenSeq(CommandParts(list))
             /\ Len(body) < WordModulus
             /\ Len(bytes) = MINR2CPPACKETSIZE + Len(body)
             /\ WordAt(bytes, 0) = m /\ WordAt(bytes, WordBytes) = Len(body)
             /\ BytesAt(bytes, MINR2CPPACKETSIZE, Len(body)) = body
             /\ Holds(bytes, MINR2CPPACKETSIZE, body)
<1> DEFINE body == WordToBytes(Len(list)) \o FlattenSeq(CommandParts(list))
           n == Len(body)
           x == WordToBytes(m) \o WordToBytes(n)
<1>1. m \in Nat
  BY WordsAre
<1>2. body \in Seq(Byte) /\ bytes = x \o body
  BY <1>1, PacketBytesAre
<1> HIDE DEF body
<1>3. n \in Nat
  BY <1>2
<1> HIDE DEF n
<1>4. WordToBytes(m) \in Seq(Byte) /\ WordToBytes(n) \in Seq(Byte)
  BY <1>1, <1>3, WordBytesAre
<1>5. x \in Seq(Byte)
  BY <1>4, ConcatIs
<1>6. Len(bytes) = 2 * WordBytes + n
  BY <1>1, <1>2, <1>3, HeadedLength DEF n
<1> HIDE DEF x
<1>7. n \in Word /\ n < WordModulus
  <2>1. n \in 0 .. WordModulus - 1
    BY <1>3, <1>6, WordsAre
  <2> QED
    BY <2>1, WordsAre DEF Word
<1>8. Holds(bytes, 0, x \o body)
  BY <1>2, HoldsItself
<1>9. Holds(bytes, MINR2CPPACKETSIZE, body)
  <2>1. Len(x) = 2 * WordBytes
    <3>1. Len(x \o body) = Len(x) + Len(body)
      BY <1>2, <1>5, ConcatIs
    <3>2. Len(x) \in Nat
      BY <1>5
    <3> QED
      BY <1>2, <1>3, <1>6, <3>1, <3>2, WordsAre DEF n
  <2>2. Holds(bytes, 0 + Len(x), body)
    BY <1>2, <1>5, <1>8, HoldsConcat
  <2>3. 0 + Len(x) = MINR2CPPACKETSIZE
    BY <2>1, WordsAre DEF MINR2CPPACKETSIZE
  <2> QED
    BY <2>2, <2>3
<1>10. /\ WordAt(bytes, 0) = m /\ WordAt(bytes, 0 + WordBytes) = n
       /\ BytesAt(bytes, 0 + 2 * WordBytes, n) = body
  <2> DEFINE o == 0
  <2>1. Holds(bytes, o, WordToBytes(m) \o WordToBytes(n) \o body) /\ Len(body) = n
    BY <1>8 DEF x, n
  <2>2. body \in Seq(Byte)
    BY <1>2
  <2> HIDE DEF o
  <2>3. /\ WordAt(bytes, o) = m /\ WordAt(bytes, o + WordBytes) = n
        /\ BytesAt(bytes, o + 2 * WordBytes, n) = body
    BY <1>7, <2>1, <2>2, HoldsHeaded
  <2> QED
    BY <2>3 DEF o
<1>11. 0 + WordBytes = WordBytes /\ 0 + 2 * WordBytes = MINR2CPPACKETSIZE
  BY WordsAre DEF MINR2CPPACKETSIZE
<1>12. /\ Len(bytes) = MINR2CPPACKETSIZE + n
       /\ WordAt(bytes, 0) = m /\ WordAt(bytes, WordBytes) = n
       /\ BytesAt(bytes, MINR2CPPACKETSIZE, n) = body
  BY <1>6, <1>10, <1>11 DEF MINR2CPPACKETSIZE
<1>13. body = WordToBytes(Len(list)) \o FlattenSeq(CommandParts(list))
  BY DEF body
<1> QED
  BY <1>2, <1>7, <1>9, <1>12, <1>13, Zenon DEF n

\* The commands of a packet that a client builds are valid, and are read as they
\* are and in order, but for those that are not kept.
LEMMA PacketArrives ==
    ASSUME NEW list \in Seq(R2CPCommand), NEW m \in {R2CPMAGICNUMBER, RRCPMAGICNUMBER},
           NEW bytes \in Seq(Byte), bytes = PacketBytes(m, list), Len(bytes) < WordModulus,
           \A i \in DOMAIN list : WellFormed(list[i]) /\ ContentIsExpected(list[i])
    PROVE  /\ parser2cppacket(bytes).thrown = "none"
           /\ parser2cppacket(bytes).commands = FlattenSeq([i \in DOMAIN list |-> Kept(list[i])])
<1> DEFINE n == Len(list)
           from == MINR2CPPACKETSIZE
           kept == [i \in DOMAIN list |-> Kept(list[i])]
           r == parser2cppacket(bytes)
<1>1. n \in Nat /\ DOMAIN list = 1 .. n /\ n \in 0 .. n
  OBVIOUS
<1>2. m \in Word /\ from \in Nat /\ from = 2 * WordBytes /\ WordBytes \in Nat \ {0}
  BY FormatAssumption, WordsAre DEF Word, MINR2CPPACKETSIZE
<1>3. PICK body \in Seq(Byte) :
             /\ body = WordToBytes(n) \o FlattenSeq(CommandParts(list))
             /\ Len(body) < WordModulus
             /\ Len(bytes) = from + Len(body)
             /\ WordAt(bytes, 0) = m /\ WordAt(bytes, WordBytes) = Len(body)
             /\ BytesAt(bytes, from, Len(body)) = body
             /\ Holds(bytes, from, body)
  BY <1>2, PacketHeld
<1>4. /\ CanRead(body, 0, WordBytes) /\ WordAt(body, 0) = n
      /\ \E e : IsLayout(e, body, WordBytes, CommandParts(list)) /\ e[n] = Len(body)
  BY <1>3, CommandsHeld
<1>5. PICK e : IsLayout(e, body, WordBytes, CommandParts(list)) /\ e[n] = Len(body)
  BY <1>4
<1>6. /\ e[0] = WordBytes /\ \A i \in 0 .. n : e[i] \in Nat
      /\ \A i \in 1 .. n : e[i] = e[i - 1] + Len(CommandBytes(list[i]))
                           /\ Holds(body, e[i - 1], CommandBytes(list[i]))
  <2>1. Len(CommandParts(list)) = n /\ \A i \in 1 .. n : CommandParts(list)[i] = CommandBytes(list[i])
    BY CommandPartsTyped DEF CommandParts
  <2> HIDE DEF n
  <2> QED
    BY <1>5, <2>1 DEF IsLayout
<1>7. /\ n \in Nat /\ \A i \in 1 .. n : /\ list[i] \in R2CPCommand
                                        /\ WellFormed(list[i]) /\ ContentIsExpected(list[i])
  BY <1>1
<1> HIDE DEF n, from, kept, r
<1>8. ASSUME NEW i \in 1 .. n
      PROVE  Holds(bytes, from + e[i - 1], CommandBytes(list[i]))
  <2>1. CommandBytes(list[i]) \in Seq(Byte)
    BY <1>7, CommandBytesAre
  <2> QED
    BY <1>3, <1>6, <2>1, HoldsPart
<1>9. CommandsEnd(body, n) = Len(body)
  <2>1. PICK o : IsCommandOffsets(o, body, n) /\ CommandsEnd(body, n) = o[n]
    BY <1>7, CommandOffsets
  <2> DEFINE A == {i \in 0 .. n : o[i] = e[i]}
  <2>2. 0 \in A
    BY <1>6, <1>7, <2>1 DEF IsCommandOffsets
  <2>3. ASSUME NEW i \in 1 .. n, i - 1 \in A
        PROVE  i \in A
    <3>1. o[i] = ValidateCommand(body, e[i - 1])
      BY <2>1, <2>3 DEF IsCommandOffsets
    <3>2. ValidateCommand(body, e[i - 1]) = e[i - 1] + Len(CommandBytes(list[i]))
      BY <1>3, <1>6, <1>7, CommandTurns
    <3>3. o[i] = e[i]
      BY <1>6, <3>1, <3>2
    <3> QED
      BY <1>7, <3>3
  <2>4. n \in A
    <3> HIDE DEF A
    <3> QED
      BY <1>1, <1>7, <2>2, <2>3, UpTo
  <2> QED
    BY <1>5, <2>1, <2>4
<1>10. validater2cppacket(bytes)
  <2> DEFINE size == Len(body)
             l == Len(bytes)
  <2>1. size \in Nat /\ l = from + size /\ l < WordModulus /\ WordModulus \in Nat \ {0} /\ l \in Nat
    BY <1>2, <1>3, WordsAre
  <2>2. validatecommandsfromr2cppacket(body)
    BY <1>4, <1>9, Zenon DEF validatecommandsfromr2cppacket, CommandsEnd
  <2>3. WordAt(bytes, WordBytes) = size /\ BytesAt(bytes, from, size) = body
    BY <1>3
  <2>4. WordAt(bytes, 0) \in {R2CPMAGICNUMBER, RRCPMAGICNUMBER}
    BY <1>3
  <2> HIDE DEF size, l
  <2>5. l >= from /\ l = (from + size) % WordModulus
    <3> DEFINE d == WordModulus
    <3>1. d \in Nat \ {0} /\ l \in Nat /\ l < d
      BY <2>1
    <3> HIDE DEF d
    <3>2. l % d = l
      BY <3>1
    <3>3. l >= from
      BY <1>2, <2>1
    <3> QED
      BY <2>1, <3>2, <3>3, Zenon DEF d
  <2>6. /\ Len(bytes) >= MINR2CPPACKETSIZE
        /\ Len(bytes) = (MINR2CPPACKETSIZE + WordAt(bytes, WordBytes)) % WordModulus
    BY <2>3, <2>5 DEF from, l
  <2>7. validatecommandsfromr2cppacket(BytesAt(bytes, MINR2CPPACKETSIZE, WordAt(bytes, WordBytes)))
    BY <2>2, <2>3 DEF from
  <2> QED
    BY <2>4, <2>6, <2>7 DEF validater2cppacket
<1>11. CanRead(bytes, from, WordBytes) /\ WordAt(bytes, from) = n
  <2>1. Len(body) # 0
    BY <1>2, <1>4 DEF CanRead
  <2>2. WordAt(bytes, WordBytes) = Len(body) /\ BytesAt(bytes, from, Len(body)) = body
    BY <1>3
  <2>3. /\ CanRead(bytes, from, WordBytes)
        /\ WordAt(BytesAt(bytes, from, WordAt(bytes, WordBytes)), 0) = WordAt(bytes, from)
    BY <1>10, <2>1, <2>2, ValidatedIs DEF from
  <2> QED
    BY <1>4, <2>2, <2>3, Zenon
<1>12. r = CommandsRead(bytes, n)
  BY <1>10, <1>11, ParserIs DEF r, from
<1>13. PICK p : IsCommandStates(p, bytes, n) /\ CommandsRead(bytes, n) = p[n]
  BY <1>7, CommandStates
<1>14. /\ kept \in Seq(Seq(R2CPCommand)) /\ Len(kept) = n
       /\ \A i \in 1 .. n : kept[i] = Kept(list[i])
  <2>1. \A i \in 1 .. n : Kept(list[i]) \in Seq(R2CPCommand)
    <3> TAKE i \in 1 .. n
    <3> DEFINE k == list[i]
    <3>1. k \in R2CPCommand
      BY <1>7
    <3> HIDE DEF k
    <3>2. <<k>> \in Seq(R2CPCommand) /\ <<>> \in Seq(R2CPCommand)
      BY <3>1
    <3> QED
      BY <3>2 DEF Kept, k
  <2>2. kept = [i \in 1 .. n |-> Kept(list[i])]
    BY <1>1 DEF kept
  <2> QED
    BY <1>7, <2>1, <2>2
<1>15. PICK h : IsFlattening(h, R2CPCommand, kept) /\ FlattenSeq(kept) = h[n]
  BY <1>14, FlattenIs
<1>16. h[0] = <<>> /\ \A i \in 1 .. n : h[i] = h[i - 1] \o Kept(list[i])
  BY <1>14, <1>15 DEF IsFlattening
<1> DEFINE At(i) == [offset |-> from + e[i], commands |-> h[i], thrown |-> "none"]
           A == {i \in 0 .. n : p[i] = At(i)}
<1>17. 0 \in A
  <2>1. p[0] = FirstCommand
    BY <1>13 DEF IsCommandStates
  <2>2. FirstCommand = At(0)
    BY <1>6, <1>16 DEF FirstCommand, from
  <2> QED
    BY <1>7, <2>1, <2>2
<1>18. ASSUME NEW i \in 1 .. n, i - 1 \in A
       PROVE  i \in A
  <2> DEFINE s == p[i - 1]
             k == list[i]
             o == from + e[i - 1]
             l == Len(CommandBytes(k))
  <2>1. s \in CommandReads /\ p[i] = ParseCommand(bytes, s) /\ i - 1 \in 0 .. n
    BY <1>7, <1>13 DEF IsCommandStates
  <2>2. s = At(i - 1)
    BY <1>18
  <2>3. s.offset = o /\ s.commands = h[i - 1] /\ s.thrown = "none"
    BY <2>2
  <2>4. /\ k \in R2CPCommand /\ WellFormed(k) /\ ContentIsExpected(k)
        /\ Holds(bytes, o, CommandBytes(k))
    BY <1>7, <1>8
  <2>5. CommandBytes(k) \in Seq(Byte) /\ l \in Nat
    <3>1. CommandBytes(k) \in Seq(Byte)
      BY <2>4, CommandBytesAre
    <3> QED
      BY <3>1
  <2>6. e[i - 1] \in Nat /\ e[i] = e[i - 1] + l /\ h[i] = h[i - 1] \o Kept(k)
    BY <1>6, <1>16, <2>1
  <2>7. o + l = from + e[i]
    <3> HIDE DEF l
    <3> QED
      BY <1>2, <2>5, <2>6
  <2> HIDE DEF s, k, o
  <2>8. ParseCommand(bytes, s) = [offset |-> o + l, commands |-> s.commands \o Kept(k), thrown |-> "none"]
    BY <2>1, <2>3, <2>4, CommandTurns
  <2>9. s.commands \o Kept(k) = h[i]
    BY <2>3, <2>6, Zenon
  <2>10. p[i] = At(i)
    BY <2>1, <2>7, <2>8, <2>9, Zenon
  <2> HIDE DEF At
  <2> QED
    BY <1>7, <2>10
<1>19. p[n] = At(n)
  <2>1. n \in A
    <3> HIDE DEF A
    <3> QED
      BY <1>1, <1>7, <1>17, <1>18, UpTo
  <2> HIDE DEF At
  <2> QED
    BY <2>1
<1>20. r.thrown = "none" /\ r.commands = FlattenSeq(kept)
  <2>1. At(n).thrown = "none" /\ At(n).commands = h[n]
    OBVIOUS
  <2> HIDE DEF At
  <2> QED
    BY <1>12, <1>13, <1>15, <1>19, <2>1, Zenon
<1> QED
  BY <1>20 DEF r, kept

\* A packet is as long whatever its magic number.
LEMMA PacketLength ==
    ASSUME NEW list \in Seq(R2CPCommand), NEW m \in Nat
    PROVE  Len(PacketBytes(m, list))
             = 2 * WordBytes + Len(WordToBytes(Len(list)) \o FlattenSeq(CommandParts(list)))
<1> DEFINE body == WordToBytes(Len(list)) \o FlattenSeq(CommandParts(list))
<1>1. /\ body \in Seq(Byte)
      /\ PacketBytes(m, list) = WordToBytes(m) \o WordToBytes(Len(body)) \o body
  BY PacketBytesAre
<1> HIDE DEF body
<1>2. Len(body) \in Nat
  BY <1>1
<1>3. Len(WordToBytes(m) \o WordToBytes(Len(body)) \o body) = 2 * WordBytes + Len(body)
  BY <1>1, <1>2, HeadedLength
<1> QED
  BY <1>1, <1>3 DEF body

\* Each client can write its commands down.
LEMMA ClientPacket ==
    ASSUME NEW list \in CommandLists, NEW m \in Magics
    PROVE  /\ list \in Seq(R2CPCommand) /\ m \in {R2CPMAGICNUMBER, RRCPMAGICNUMBER} /\ m \in Nat
           /\ \A i \in DOMAIN list : WellFormed(list[i])
           /\ PacketBytes(m, list) \in Seq(Byte) /\ Len(PacketBytes(m, list)) < WordModulus
<1>1. list \in Seq(R2CPCommand) /\ m \in {R2CPMAGICNUMBER, RRCPMAGICNUMBER}
  BY CodecAssumption
<1>2. m \in Nat /\ R2CPMAGICNUMBER \in Nat
  BY <1>1, FormatAssumption, WordsAre
<1>3. /\ \A i \in DOMAIN list : WellFormed(list[i])
      /\ Len(PacketBytes(R2CPMAGICNUMBER, list)) < WordModulus
  BY ClientAssumption
<1>4. Len(PacketBytes(m, list)) = Len(PacketBytes(R2CPMAGICNUMBER, list))
  BY <1>1, <1>2, PacketLength
<1>5. PacketBytes(m, list) \in Seq(Byte)
  BY <1>1, <1>2, PacketBytesAre
<1> QED
  BY <1>1, <1>2, <1>3, <1>4, <1>5

-----------------------------------------------------------------------------
(* The size that the serializer computes *)

IsDataSize(d, list) ==
    /\ d[0] = 0 /\ \A i \in 1 .. Len(list) : d[i] = d[i - 1] + Len(list[i].data)
    /\ \A i \in 0 .. Len(list) : d[i] \in Nat

LEMMA DataSizeIs ==
    ASSUME NEW list \in Seq(R2CPParameter)
    PROVE  \E d : IsDataSize(d, list) /\ DataSize(list) = d[Len(list)]
<1> DEFINE n == Len(list)
           f == [i \in 1 .. n |-> [s \in Nat |-> s + Len(list[i].data)]]
           Eq(g) == g = [i \in 0 .. n |-> IF i = 0 THEN 0 ELSE g[i - 1] + Len(list[i].data)]
           d == CHOOSE g : Eq(g)
<1>1. n \in Nat /\ \A i \in 1 .. n : Len(list[i].data) \in Nat
  <2>1. \A i \in 1 .. n : list[i] \in R2CPParameter
    OBVIOUS
  <2> QED
    BY <2>1, ParameterIs
<1> DEFINE l(i) == Len(list[i].data)
<1>2. f \in [1 .. n -> [Nat -> Nat]]
  <2>1. \A i \in 1 .. n, s \in Nat : s + l(i) \in Nat
    BY <1>1
  <2> HIDE DEF n, l
  <2>2. [i \in 1 .. n |-> [s \in Nat |-> s + l(i)]] \in [1 .. n -> [Nat -> Nat]]
    BY <2>1
  <2> QED
    BY <2>2 DEF l
<1>3. PICK g : IsIteration(g, Nat, n, 0, f)
  <2> HIDE DEF f, n
  <2> QED
    BY <1>1, <1>2, Iterates
<1> HIDE DEF n
<1>4. Eq(g)
  <2>1. ASSUME NEW i \in 0 .. n
        PROVE  g[i] = IF i = 0 THEN 0 ELSE g[i - 1] + Len(list[i].data)
    <3>1. CASE i = 0
      BY <1>3, <3>1 DEF IsIteration
    <3>2. CASE i # 0
      <4>1. i \in 1 .. n /\ i - 1 \in 0 .. n
        BY <1>1, <3>2
      <4>2. g[i] = f[i][g[i - 1]] /\ g[i - 1] \in Nat
        BY <1>3, <4>1 DEF IsIteration
      <4> QED
        BY <3>2, <4>1, <4>2
    <3> QED
      BY <3>1, <3>2
  <2>2. g = [i \in 0 .. n |-> g[i]]
    BY <1>3 DEF IsIteration
  <2> QED
    BY <2>1, <2>2, Zenon
<1>5. Eq(d)
  <2> HIDE DEF Eq
  <2> QED
    BY <1>4
<1>6. DataSize(list) = d[n]
  BY Zenon DEF DataSize, n
<1> HIDE DEF d, f
<1>7. d[0] = 0 /\ \A i \in 1 .. n : d[i] = d[i - 1] + Len(list[i].data)
  <2>1. \A i \in 0 .. n : d[i] = IF i = 0 THEN 0 ELSE d[i - 1] + Len(list[i].data)
    BY <1>5, Zenon
  <2>2. 0 \in 0 .. n /\ \A i \in 1 .. n : i \in 0 .. n /\ i # 0
    BY <1>1
  <2> QED
    BY <2>1, <2>2, Zenon
<1> DEFINE A == {i \in 0 .. n : d[i] \in Nat}
<1>8. 0 \in A /\ \A i \in 1 .. n : i - 1 \in A => i \in A
  <2>1. 0 \in A
    BY <1>1, <1>7
  <2>2. ASSUME NEW i \in 1 .. n, i - 1 \in A
        PROVE  i \in A
    <3>1. d[i] = d[i - 1] + l(i) /\ l(i) \in Nat /\ d[i - 1] \in Nat
      BY <1>1, <1>7, <2>2
    <3> HIDE DEF l
    <3> QED
      BY <3>1
  <2> QED
    BY <2>1, <2>2
<1>9. \A i \in 0 .. n : i \in A
  <2> HIDE DEF A
  <2> QED
    BY <1>1, <1>8, UpTo
<1> QED
  BY <1>6, <1>7, <1>9, Zenon DEF IsDataSize, n

\* By the size theorem of the drawings, each parameter takes two words and its
\* data.
LEMMA ParametersSize ==
    ASSUME NEW list \in Seq(R2CPParameter)
    PROVE  /\ DataSize(list) \in Nat
           /\ Len(FlattenSeq(ParameterParts(list))) = Len(list) * (2 * WordBytes) + DataSize(list)
<1> DEFINE n == Len(list)
           w == 2 * WordBytes
<1>1. n \in Nat /\ \A i \in 1 .. n : list[i] \in R2CPParameter
  OBVIOUS
<1>2. w \in Nat
  BY WordsAre
<1>3. PICK d : IsDataSize(d, list) /\ DataSize(list) = d[n]
  BY DataSizeIs
<1>4. /\ d[0] = 0 /\ \A i \in 0 .. n : d[i] \in Nat
      /\ \A i \in 1 .. n : d[i] = d[i - 1] + Len(list[i].data)
  BY <1>3 DEF IsDataSize
<1>5. /\ ParameterParts(list) \in Seq(Seq(Byte)) /\ Len(ParameterParts(list)) = n
      /\ \A i \in 1 .. n : ParameterParts(list)[i] = ParameterBytes(list[i])
  BY ParameterPartsAre DEF ParameterParts
<1>6. PICK h : IsFlattening(h, Byte, ParameterParts(list)) /\ FlattenSeq(ParameterParts(list)) = h[n]
  BY <1>5, FlattenIs
<1>7. /\ h[0] = <<>> /\ \A i \in 0 .. n : h[i] \in Seq(Byte)
      /\ \A i \in 1 .. n : h[i] = h[i - 1] \o ParameterBytes(list[i])
  <2> HIDE DEF n
  <2> QED
    BY <1>5, <1>6 DEF IsFlattening
<1> HIDE DEF n, w
<1> DEFINE A == {i \in 0 .. n : Len(h[i]) = i * w + d[i]}
<1>8. 0 \in A
  <2>1. Len(<<>>) = 0 /\ 0 * w = 0
    BY <1>2
  <2> QED
    BY <1>1, <1>4, <1>7, <2>1
<1>9. ASSUME NEW i \in 1 .. n, i - 1 \in A
      PROVE  i \in A
  <2> DEFINE p == list[i]
             l == Len(p.data)
             b == ParameterBytes(p)
  <2>1. p \in R2CPParameter /\ i - 1 \in 0 .. n
    BY <1>1
  <2>2. p.code \in Nat /\ p.data \in Seq(Byte) /\ l \in Nat /\ b \in Seq(Byte)
    BY <2>1, ParameterIs, ParameterBytesAre
  <2>3. Len(b) = w + l
    BY <2>2, HeadedLength DEF ParameterBytes, w
  <2>4. h[i] = h[i - 1] \o b /\ h[i - 1] \in Seq(Byte) /\ d[i] = d[i - 1] + l /\ d[i - 1] \in Nat
    BY <1>4, <1>7, <2>1
  <2> HIDE DEF b, l
  <2>5. Len(h[i - 1] \o b) = Len(h[i - 1]) + Len(b)
    BY <2>2, <2>4, ConcatIs
  <2>6. Len(h[i - 1]) = (i - 1) * w + d[i - 1]
    BY <1>9
  <2>7. (i - 1) * w + w = i * w
    BY <1>1, <1>2
  <2>8. Len(h[i]) = i * w + d[i]
    <3> DEFINE a == (i - 1) * w
               c == i * w
    <3>1. a \in Nat /\ c \in Nat /\ a + w = c
      BY <1>1, <1>2, <2>7
    <3> HIDE DEF a, c
    <3> DEFINE x == Len(h[i - 1])
               y == Len(b)
    <3>2. x = a + d[i - 1] /\ y = w + l /\ Len(h[i]) = x + y
      BY <2>3, <2>4, <2>5, <2>6 DEF a
    <3> DEFINE before == d[i - 1]
               now == d[i]
    <3>3. now = before + l /\ before \in Nat /\ l \in Nat /\ w \in Nat /\ x = a + before
      BY <1>2, <2>2, <2>4, <3>2
    <3> HIDE DEF x, y, before, now
    <3>4. Len(h[i]) = c + now
      BY <3>1, <3>2, <3>3
    <3> QED
      BY <3>4 DEF c, now
  <2> QED
    BY <1>1, <2>8
<1>10. n \in A /\ d[n] \in Nat
  <2>1. n \in 0 .. n
    BY <1>1
  <2> HIDE DEF A
  <2> QED
    BY <1>1, <1>4, <1>8, <1>9, <2>1, UpTo
<1> QED
  BY <1>3, <1>6, <1>10 DEF n, w

LEMMA TimesTwo ==
    ASSUME NEW a \in Nat, NEW b \in Nat
    PROVE  a * (2 * b) \in Nat /\ a * 2 * b = a * (2 * b)
  OBVIOUS

\* The size of a content is told from the parameters as from the code.
LEMMA ContentSizeIs ==
    ASSUME NEW k \in R2CPCommand, WellFormed(k), Len(Content(k)) < WordModulus,
           getcommandcontenttype(k.code) = PARAMETERIZEDCONTENT => k.parameters # <<>>
    PROVE  ContentSize(k.parameters) = Len(Content(k))
<1> DEFINE list == k.parameters
<1>1. list \in Seq(R2CPParameter) /\ Len(list) \in Nat
  BY CommandIs
<1>2. CASE getcommandcontenttype(k.code) = PARAMETERIZEDCONTENT
  <2> DEFINE n == Len(list)
             w == n * (2 * WordBytes)
             a == WordToBytes(n)
             b == FlattenSeq(ParameterParts(list))
             c == Content(k)
             d == DataSize(list)
  <2>1. ContentSize(list) = precomputecommandcontentsize(list)
    BY <1>2 DEF ContentSize, WellFormed
  <2>2. c = a \o b
    BY <1>2, Zenon DEF Content, ParameterParts
  <2>3. a \in Seq(Byte) /\ Len(a) = WordBytes /\ b \in Seq(Byte)
    BY <1>1, WordBytesAre, ParameterPartsAre
  <2>4. d \in Nat /\ Len(b) = w + d
    BY <1>1, ParametersSize
  <2>5. w \in Nat /\ WordBytes \in Nat /\ n * 2 * WordBytes = w
    <3>1. n \in Nat /\ WordBytes \in Nat
      BY <1>1, WordsAre
    <3> HIDE DEF n
    <3> QED
      BY <3>1, TimesTwo
  <2>6. precomputecommandcontentsize(list) = (WordBytes + w + d) % WordModulus
    BY <2>5 DEF precomputecommandcontentsize
  <2>7. Len(c) < WordModulus /\ WordModulus \in Nat \ {0}
    BY WordsAre
  <2> HIDE DEF a, b, c, d, w, n, list
  <2>8. Len(c) = WordBytes + w + d
    <3>1. Len(a \o b) = Len(a) + Len(b)
      BY <2>3, ConcatIs
    <3> QED
      BY <2>2, <2>3, <2>4, <2>5, <3>1
  <2>9. (WordBytes + w + d) % WordModulus = WordBytes + w + d
    <3> DEFINE x == WordBytes + w + d
               m == WordModulus
    <3>1. x \in Nat /\ x < m /\ m \in Nat \ {0}
      BY <2>4, <2>5, <2>7, <2>8
    <3> HIDE DEF x, m
    <3>2. x % m = x
      BY <3>1
    <3> QED
      BY <3>2 DEF x, m
  <2> QED
    BY <2>1, <2>6, <2>8, <2>9, Zenon DEF c, list
<1>3. CASE getcommandcontenttype(k.code) # PARAMETERIZEDCONTENT
  <2>1. CASE list = <<>>
    <3>1. ContentSize(list) = 0
      <4>1. Len(<<>>) = 0
        OBVIOUS
      <4>2. ~ IsDirect(<<>>)
        BY <4>1 DEF IsDirect
      <4> QED
        BY <2>1, <4>2 DEF ContentSize
    <3>2. Content(k) = <<>>
      <4>1. Content(k) = FlattenSeq(ContentParts(k)) /\ Len(ContentParts(k)) = 0
            /\ ContentParts(k) \in Seq(Seq(Byte))
        BY <1>3, <2>1, ContentIs
      <4>2. ContentParts(k) = <<>>
        BY <4>1
      <4> QED
        BY <4>1, <4>2, FlattenEmpty, Zenon
    <3> QED
      BY <3>1, <3>2
  <2>2. CASE list # <<>>
    <3>1. IsDirect(list)
      BY <1>3, <2>2, ContentTypes DEF WellFormed
    <3>2. ContentSize(list) = Len(list[1].data)
      BY <2>2, <3>1 DEF ContentSize
    <3>3. Content(k) = list[1].data
      BY <1>3, <3>1, DirectContent
    <3> QED
      BY <3>2, <3>3
  <2> QED
    BY <2>1, <2>2
<1> QED
  BY <1>2, <1>3

IsPacketSize(s, list) ==
    /\ s[0] = (WordBytes + Len(list) * 2 * WordBytes) % WordModulus
    /\ \A i \in 1 .. Len(list) :
         s[i] = (s[i - 1] + ContentSize(list[i].parameters)) % WordModulus

LEMMA PacketSizeIs ==
    ASSUME NEW list \in Seq(R2CPCommand),
           \A i \in DOMAIN list : ContentSize(list[i].parameters) \in Nat
    PROVE  \E s : IsPacketSize(s, list) /\ precomputer2cppacketsize(list) = s[Len(list)]
<1> DEFINE n == Len(list)
           c(i) == ContentSize(list[i].parameters)
           m == WordModulus
           start == (WordBytes + n * 2 * WordBytes) % m
           f == [i \in 1 .. n |-> [s \in Nat |-> (s + c(i)) % m]]
           Eq(g) == g = [i \in 0 .. n |-> IF i = 0 THEN start ELSE (g[i - 1] + c(i)) % m]
           s == CHOOSE g : Eq(g)
<1>1. n \in Nat /\ \A i \in 1 .. n : c(i) \in Nat
  OBVIOUS
<1>2. m \in Nat \ {0} /\ start \in Nat
  <2>1. m \in Nat \ {0} /\ WordBytes + n * 2 * WordBytes \in Nat
    BY <1>1, WordsAre
  <2> HIDE DEF m
  <2> QED
    BY <2>1
<1> HIDE DEF n, c, m, start
<1>3. f \in [1 .. n -> [Nat -> Nat]]
  <2>1. \A i \in 1 .. n, x \in Nat : (x + c(i)) % m \in Nat
    BY <1>1, <1>2
  <2> QED
    BY <2>1
<1>4. PICK g : IsIteration(g, Nat, n, start, f)
  <2> HIDE DEF f
  <2> QED
    BY <1>1, <1>2, <1>3, Iterates
<1>5. Eq(g)
  <2>1. ASSUME NEW i \in 0 .. n
        PROVE  g[i] = IF i = 0 THEN start ELSE (g[i - 1] + c(i)) % m
    <3>1. CASE i = 0
      BY <1>4, <3>1 DEF IsIteration
    <3>2. CASE i # 0
      <4>1. i \in 1 .. n /\ i - 1 \in 0 .. n
        BY <1>1, <3>2
      <4>2. g[i] = f[i][g[i - 1]] /\ g[i - 1] \in Nat
        BY <1>4, <4>1 DEF IsIteration
      <4> QED
        BY <3>2, <4>1, <4>2
    <3> QED
      BY <3>1, <3>2
  <2>2. g = [i \in 0 .. n |-> g[i]]
    BY <1>4 DEF IsIteration
  <2> QED
    BY <2>1, <2>2, Zenon
<1>6. Eq(s)
  <2> HIDE DEF Eq
  <2> QED
    BY <1>5
<1>7. precomputer2cppacketsize(list) = s[n]
  BY Zenon DEF precomputer2cppacketsize, n, c, m, start
<1> HIDE DEF s, f
<1>8. s[0] = start /\ \A i \in 1 .. n : s[i] = (s[i - 1] + c(i)) % m
  <2>1. \A i \in 0 .. n : s[i] = IF i = 0 THEN start ELSE (s[i - 1] + c(i)) % m
    BY <1>6, Zenon
  <2>2. 0 \in 0 .. n /\ \A i \in 1 .. n : i \in 0 .. n /\ i # 0
    BY <1>1
  <2> QED
    BY <2>1, <2>2, Zenon
<1> QED
  BY <1>7, <1>8, Zenon DEF IsPacketSize, n, c, m, start

\* The sum that the serializer makes, which starts with the words of all the
\* commands and adds the contents, comes to the length of the commands' bytes,
\* and stays inside a word where the packet does.
LEMMA SizeOfPacket ==
    ASSUME NEW list \in Seq(R2CPCommand), NEW m \in Nat,
           Len(PacketBytes(m, list)) < WordModulus,
           \A i \in DOMAIN list :
               /\ WellFormed(list[i])
               /\ getcommandcontenttype(list[i].code) = PARAMETERIZEDCONTENT =>
                    list[i].parameters # <<>>
    PROVE  precomputer2cppacketsize(list) = Len(PacketBytes(m, list)) - MINR2CPPACKETSIZE
<1> DEFINE n == Len(list)
           body == WordToBytes(n) \o FlattenSeq(CommandParts(list))
           total == Len(body)
           w == 2 * WordBytes
           c(i) == Len(Content(list[i]))
<1>1. n \in Nat /\ DOMAIN list = 1 .. n /\ n \in 0 .. n
  OBVIOUS
<1>2. body \in Seq(Byte) /\ Len(PacketBytes(m, list)) = w + total
  BY PacketBytesAre, PacketLength
<1>3. w \in Nat /\ total \in Nat /\ WordBytes \in Nat /\ WordModulus \in Nat \ {0}
  BY <1>2, WordsAre
<1>4. total < WordModulus
  <2> HIDE DEF body, w, total
  <2> QED
    BY <1>2, <1>3
<1> HIDE DEF body
<1>5. PICK e : IsLayout(e, body, WordBytes, CommandParts(list)) /\ e[n] = total
  BY <1>2, <1>4, CommandsHeld DEF body
<1> HIDE DEF total
<1>6. /\ e[0] = WordBytes /\ \A i \in 0 .. n : e[i] \in Nat
      /\ \A i \in 1 .. n : e[i] = e[i - 1] + Len(CommandBytes(list[i]))
                           /\ Holds(body, e[i - 1], CommandBytes(list[i]))
  <2>1. Len(CommandParts(list)) = n /\ \A i \in 1 .. n : CommandParts(list)[i] = CommandBytes(list[i])
    BY CommandPartsTyped DEF CommandParts
  <2> HIDE DEF n
  <2> QED
    BY <1>5, <2>1 DEF IsLayout
<1>7. ASSUME NEW i \in 1 .. n
      PROVE  /\ c(i) \in Nat /\ ContentSize(list[i].parameters) = c(i)
             /\ e[i] = e[i - 1] + (w + c(i)) /\ e[i - 1] \in Nat
  <2> DEFINE k == list[i]
  <2>1. /\ k \in R2CPCommand /\ WellFormed(k)
        /\ getcommandcontenttype(k.code) = PARAMETERIZEDCONTENT => k.parameters # <<>>
    OBVIOUS
  <2>2. Holds(body, e[i - 1], CommandBytes(k)) /\ e[i] = e[i - 1] + Len(CommandBytes(k))
    BY <1>6
  <2>3. i - 1 \in 0 .. n
    BY <1>1
  <2> HIDE DEF k, n
  <2>4. Len(body) < WordModulus
    BY <1>4 DEF total
  <2>5. /\ Len(Content(k)) \in Nat /\ Len(Content(k)) < WordModulus
        /\ Len(CommandBytes(k)) = 2 * WordBytes + Len(Content(k))
    BY <1>2, <2>1, <2>2, <2>4, CommandHeld
  <2>6. ContentSize(k.parameters) = Len(Content(k))
    BY <2>1, <2>5, ContentSizeIs
  <2> QED
    BY <1>6, <2>2, <2>3, <2>5, <2>6, Zenon DEF k, w
<1>8. PICK s : IsPacketSize(s, list) /\ precomputer2cppacketsize(list) = s[n]
  <2>1. \A i \in DOMAIN list : ContentSize(list[i].parameters) \in Nat
    BY <1>1, <1>7
  <2> QED
    BY <2>1, PacketSizeIs
<1>9. /\ s[0] = (WordBytes + n * w) % WordModulus
      /\ \A i \in 1 .. n : s[i] = (s[i - 1] + c(i)) % WordModulus
  <2>1. n * 2 * WordBytes = n * w
    BY <1>1, <1>3, TimesTwo
  <2>2. /\ s[0] = (WordBytes + n * 2 * WordBytes) % WordModulus
        /\ \A i \in 1 .. n : s[i] = (s[i - 1] + ContentSize(list[i].parameters)) % WordModulus
    BY <1>8, Zenon DEF IsPacketSize
  <2> HIDE DEF n, w, c
  <2>3. \A i \in 1 .. n : s[i] = (s[i - 1] + c(i)) % WordModulus
    BY <1>7, <2>2, Zenon
  <2> QED
    BY <2>1, <2>2, <2>3, Zenon
<1> HIDE DEF n, w, c
<1> DEFINE t(i) == e[i] + (n - i) * w
<1>10. t(0) = WordBytes + n * w /\ t(n) = total
  <2>1. (n - n) * w = 0 /\ n - 0 = n
    BY <1>1, <1>3
  <2> QED
    BY <1>3, <1>5, <1>6, <2>1
<1>11. ASSUME NEW i \in 0 .. n
       PROVE  t(i) \in Nat
  <2>1. (n - i) * w \in Nat /\ e[i] \in Nat
    BY <1>1, <1>3, <1>6
  <2> QED
    BY <2>1
<1>12. ASSUME NEW i \in 1 .. n
       PROVE  t(i) = t(i - 1) + c(i)
  <2> DEFINE a == (n - i) * w
             b == (n - (i - 1)) * w
  <2>1. a \in Nat /\ b \in Nat /\ b = a + w
    BY <1>1, <1>3
  <2>2. e[i] = e[i - 1] + (w + c(i)) /\ e[i - 1] \in Nat /\ c(i) \in Nat
    BY <1>7
  <2> DEFINE before == e[i - 1]
             now == e[i]
             l == c(i)
  <2>3. now = before + (w + l) /\ before \in Nat /\ l \in Nat
    BY <2>2
  <2> HIDE DEF a, b, before, now, l
  <2>4. now + a = before + b + l
    BY <1>3, <2>1, <2>3
  <2> QED
    BY <2>4 DEF a, b, before, now, l
<1> HIDE DEF t
<1>13. ASSUME NEW i \in 0 .. n
       PROVE  t(i) <= total
  <2> DEFINE B == {j \in 0 .. n : t(n - j) <= total}
  <2>1. 0 \in B
    BY <1>1, <1>3, <1>10
  <2>2. ASSUME NEW j \in 1 .. n, j - 1 \in B
        PROVE  j \in B
    <3> DEFINE x == n - j + 1
    <3>1. x \in 1 .. n /\ x \in 0 .. n /\ x - 1 \in 0 .. n /\ n - (j - 1) = x /\ x - 1 = n - j
      BY <1>1
    <3> HIDE DEF x
    <3>2. t(x) <= total /\ t(x) = t(x - 1) + c(x) /\ c(x) \in Nat
      BY <1>7, <1>12, <2>2, <3>1
    <3>3. t(x) \in Nat /\ t(x - 1) \in Nat
      BY <1>11, <3>1
    <3>4. t(x - 1) <= total
      BY <1>3, <3>2, <3>3
    <3> QED
      BY <1>1, <3>1, <3>4
  <2>3. n - i \in 0 .. n /\ n - (n - i) = i
    BY <1>1
  <2> HIDE DEF B
  <2>4. n - i \in B
    BY <1>1, <2>1, <2>2, <2>3, UpTo
  <2> QED
    BY <2>3, <2>4 DEF B
<1>14. ASSUME NEW i \in 0 .. n
       PROVE  t(i) % WordModulus = t(i)
  <2> DEFINE x == t(i)
             d == WordModulus
  <2>1. x \in Nat /\ d \in Nat \ {0} /\ x < d
    BY <1>3, <1>4, <1>11, <1>13
  <2> HIDE DEF x, d
  <2>2. x % d = x
    BY SMTT(30), <2>1
  <2> QED
    BY <2>2 DEF x, d
<1> DEFINE A == {i \in 0 .. n : s[i] = t(i)}
<1>15. 0 \in A /\ \A i \in 1 .. n : i - 1 \in A => i \in A
  <2>1. 0 \in 0 .. n /\ \A i \in 1 .. n : i \in 0 .. n
    BY <1>1
  <2>2. s[0] = t(0)
    BY <1>9, <1>10, <1>14, <2>1, Zenon
  <2>3. ASSUME NEW i \in 1 .. n, s[i - 1] = t(i - 1)
        PROVE  s[i] = t(i)
    BY <1>9, <1>12, <1>14, <2>1, <2>3, Zenon
  <2> QED
    BY <2>1, <2>2, <2>3
<1>16. s[n] = total
  <2> HIDE DEF A
  <2>1. n \in A
    BY <1>1, <1>15, UpTo
  <2> QED
    BY <1>10, <2>1 DEF A
<1> QED
  BY <1>2, <1>3, <1>8, <1>16 DEF MINR2CPPACKETSIZE, w

-----------------------------------------------------------------------------
(* Base64 *)

LEMMA ValuesAre ==
    /\ Q \in Nat /\ Q >= 2 /\ PairValues \in Nat \ {0} /\ DigitValues \in Nat \ {0}
    /\ ByteValues \in Nat \ {0} /\ Digit \subseteq Nat
    /\ PairValues = Q * Q /\ DigitValues = Q * PairValues /\ DigitValues = PairValues * Q
    /\ ByteValues = Q * DigitValues /\ ByteValues = DigitValues * Q
    /\ ByteValues = PairValues * PairValues
<1>1. Q \in Nat /\ Q >= 2
  BY Base64Assumption
<1>2. PairValues \in Nat \ {0}
  BY <1>1 DEF PairValues
<1>3. DigitValues \in Nat \ {0} /\ DigitValues = PairValues * Q
  BY <1>1, <1>2 DEF DigitValues
<1>4. ByteValues \in Nat \ {0} /\ ByteValues = DigitValues * Q
  BY <1>1, <1>3 DEF ByteValues
<1>5. ByteValues = PairValues * PairValues
  <2> DEFINE p == PairValues
  <2>1. ByteValues = Q * (Q * p) /\ p = Q * Q
    BY DEF ByteValues, DigitValues, PairValues
  <2>2. p \in Nat
    BY <1>2
  <2> HIDE DEF p
  <2>3. Q * (Q * p) = (Q * Q) * p
    BY <1>1, <2>2
  <2> QED
    BY <2>1, <2>3 DEF p
<1> QED
  BY <1>1, <1>2, <1>3, <1>4, <1>5 DEF PairValues, DigitValues, ByteValues, Digit

\* The digits of a text go to the first character that is none.
LEMMA DigitsAre ==
    ASSUME NEW text \in Seq(Nat), NEW n \in 0 .. Len(text),
           \A i \in 1 .. n : text[i] \in Digit,
           n < Len(text) => text[n + 1] \notin Digit
    PROVE  Digits(text) = SubSeq(text, 1, n)
<1> DEFINE more == Append(text, Padding)
           I == {i \in 1 .. Len(more) : more[i] \notin Digit}
<1>1. Padding \in Nat /\ Padding \notin Digit
  BY ValuesAre DEF Padding, Digit
<1>2. /\ Len(text) \in Nat /\ Len(more) = Len(text) + 1 /\ more[Len(text) + 1] = Padding
      /\ \A i \in 1 .. Len(text) : more[i] = text[i]
  BY <1>1
<1> HIDE DEF more
<1>3. n + 1 \in I /\ \A i \in I : n + 1 <= i
  <2>1. n + 1 \in 1 .. Len(more) /\ more[n + 1] \notin Digit
    <3>1. CASE n < Len(text)
      <4>1. n + 1 \in 1 .. Len(text) /\ n + 1 \in 1 .. Len(more)
        BY <1>2, <3>1
      <4> QED
        BY <1>2, <3>1, <4>1
    <3>2. CASE n = Len(text)
      BY <1>1, <1>2, <3>2
    <3> QED
      BY <1>2, <3>1, <3>2
  <2>2. ASSUME NEW i \in 1 .. Len(more), more[i] \notin Digit
        PROVE  n + 1 <= i
    <3>1. ASSUME i <= n
          PROVE  FALSE
      <4>1. i \in 1 .. n /\ i \in 1 .. Len(text)
        BY <1>2, <3>1
      <4> QED
        BY <1>2, <2>2, <4>1
    <3> QED
      BY <1>2, <3>1
  <2> QED
    BY <2>1, <2>2
<1>4. Min(I) = n + 1
  <2>1. I \subseteq Nat
    OBVIOUS
  <2> HIDE DEF I
  <2>2. \A x \in I : (\A y \in I : x =< y) => x = n + 1
    BY <1>3, <2>1
  <2> QED
    BY <1>3, <2>2 DEF Min
<1>5. SelectInSeq(more, LAMBDA c : c \notin Digit) = n + 1
  <2>1. I # {}
    BY <1>3
  <2> QED
    BY <1>4, <2>1, Zenon DEF SelectInSeq
<1> DEFINE at == SelectInSeq(more, LAMBDA c : c \notin Digit)
<1>6. Digits(text) = SubSeq(text, 1, at - 1)
  BY DEF Digits, more
<1>7. at = n + 1
  BY <1>5
<1> HIDE DEF at
<1>8. at - 1 = n
  BY <1>7
<1> QED
  BY <1>6, <1>8, Zenon

LEMMA DivisionBelow ==
    ASSUME NEW a \in Nat \ {0}, NEW b \in Nat \ {0}, NEW x \in 0 .. a * b - 1
    PROVE  x \div b \in 0 .. a - 1
<1> DEFINE q == x \div b
           r == x % b
<1>1. a * b \in Nat
  OBVIOUS
<1> DEFINE n == a * b
<1>2. x \in Nat /\ x < n /\ n \in Nat
  BY <1>1
<1>3. q \in Nat /\ r \in 0 .. b - 1 /\ x = q * b + r
  BY <1>2, DivisionOf
<1> HIDE DEF q, r, n
<1>4. q < a
  <2> SUFFICES ASSUME q >= a
               PROVE  FALSE
    BY <1>3
  <2>1. q = a + (q - a) /\ q - a \in Nat
    BY <1>3
  <2> DEFINE d == q - a
  <2>2. q = a + d /\ d \in Nat
    BY <2>1
  <2> HIDE DEF d
  <2>3. (a + d) * b = a * b + d * b /\ d * b \in Nat
    BY <2>2
  <2> DEFINE m == d * b
             y == q * b
  <2>4. y = n + m /\ m \in Nat /\ x = y + r
    BY <1>3, <2>2, <2>3 DEF n
  <2> HIDE DEF m, y
  <2> QED
    BY <1>2, <1>3, <2>4
<1> QED
  BY <1>3, <1>4 DEF q

\* Four digits hold three bytes, each in two of the digits.
Decodes(x, a, b, c) ==
    /\ \A f, g : DecodeGroup(x[1], x[2], f, g)[1] = a
    /\ \A d, g : DecodeGroup(d, x[2], x[3], g)[2] = b
    /\ \A d, e : DecodeGroup(d, e, x[3], x[4])[3] = c

LEMMA GroupBack ==
    ASSUME NEW a \in 0 .. ByteValues - 1, NEW b \in 0 .. ByteValues - 1,
           NEW c \in 0 .. ByteValues - 1
    PROVE  LET x == EncodeGroup(a, b, c)
           IN  /\ \A i \in 1 .. 4 : x[i] \in Digit
               /\ Decodes(x, a, b, c)
<1> DEFINE q == Q
           p == PairValues
           dv == DigitValues
           bv == ByteValues
<1>1. /\ q \in Nat \ {0} /\ p \in Nat \ {0} /\ dv \in Nat \ {0} /\ bv \in Nat \ {0}
      /\ dv = q * p /\ dv = p * q /\ bv = q * dv /\ bv = dv * q /\ bv = p * p
  BY ValuesAre
<1> DEFINE a1 == a \div q
           a2 == a % q
           b1 == b \div p
           b2 == b % p
           c1 == c \div dv
           c2 == c % dv
           x2 == a2 * p + b1
           x3 == b2 * q + c1
<1>2. a \in 0 .. bv - 1 /\ b \in 0 .. bv - 1 /\ c \in 0 .. bv - 1
  OBVIOUS
<1>3. EncodeGroup(a, b, c) = <<a1, x2, x3, c2>>
  BY DEF EncodeGroup
<1> HIDE DEF q, p, dv, bv
<1>4. /\ a1 \in 0 .. dv - 1 /\ a2 \in 0 .. q - 1 /\ a = a1 * q + a2
      /\ b1 \in 0 .. p - 1 /\ b2 \in 0 .. p - 1 /\ b = b1 * p + b2
      /\ c1 \in 0 .. q - 1 /\ c2 \in 0 .. dv - 1 /\ c = c1 * dv + c2
  <2>1. a \in Nat /\ b \in Nat /\ c \in Nat
    BY <1>2
  <2>2. a1 \in 0 .. dv - 1 /\ b1 \in 0 .. p - 1 /\ c1 \in 0 .. q - 1
    <3>1. a \in 0 .. dv * q - 1 /\ b \in 0 .. p * p - 1 /\ c \in 0 .. q * dv - 1
      BY <1>1, <1>2, Zenon
    <3> QED
      BY <1>1, <3>1, DivisionBelow
  <2>3. a2 \in 0 .. q - 1 /\ a = a1 * q + a2
    BY <1>1, <2>1, DivisionOf
  <2>4. b2 \in 0 .. p - 1 /\ b = b1 * p + b2
    BY <1>1, <2>1, DivisionOf
  <2>5. c2 \in 0 .. dv - 1 /\ c = c1 * dv + c2
    BY <1>1, <2>1, DivisionOf
  <2> QED
    BY <2>2, <2>3, <2>4, <2>5
<1> HIDE DEF a1, a2, b1, b2, c1, c2
<1>5. /\ x2 \in 0 .. dv - 1 /\ x3 \in 0 .. dv - 1
      /\ x2 \div p = a2 /\ x2 % p = b1 /\ x3 \div q = b2 /\ x3 % q = c1
  <2>1. a2 * p + b1 \in 0 .. p * q - 1 /\ b2 * q + c1 \in 0 .. q * p - 1
    BY <1>1, <1>4, DigitAdded
  <2>2. (a2 * p + b1) \div p = a2 /\ (a2 * p + b1) % p = b1
    BY <1>1, <1>4, DivisionIs
  <2>3. (b2 * q + c1) \div q = b2 /\ (b2 * q + c1) % q = c1
    BY <1>1, <1>4, DivisionIs
  <2> QED
    BY <1>1, <2>1, <2>2, <2>3, Zenon
<1> HIDE DEF x2, x3
<1>6. x2 % dv = x2 /\ x3 % dv = x3
  BY <1>1, <1>5
<1>7. ASSUME NEW f, NEW g
      PROVE  DecodeGroup(a1, x2, f, g)[1] = a
  <2>1. DecodeGroup(a1, x2, f, g)[1] = a1 * q + ((x2 % dv) \div p)
    BY DEF DecodeGroup, q, dv, p
  <2> QED
    BY <1>4, <1>5, <1>6, <2>1, Zenon
<1>8. ASSUME NEW d, NEW g
      PROVE  DecodeGroup(d, x2, x3, g)[2] = b
  <2>1. DecodeGroup(d, x2, x3, g)[2] = (x2 % p) * p + ((x3 % dv) \div q)
    BY DEF DecodeGroup, q, dv, p
  <2> QED
    BY <1>4, <1>5, <1>6, <2>1, Zenon
<1>9. ASSUME NEW d, NEW e
      PROVE  DecodeGroup(d, e, x3, c2)[3] = c
  <2>1. DecodeGroup(d, e, x3, c2)[3] = ((x3 % q) * dv + c2) % bv
    BY DEF DecodeGroup, q, dv, bv
  <2>2. c % bv = c
    BY <1>1, <1>2
  <2> QED
    BY <1>4, <1>5, <2>1, <2>2, Zenon
<1>10. a1 \in Digit /\ x2 \in Digit /\ x3 \in Digit /\ c2 \in Digit
  BY <1>4, <1>5 DEF Digit, dv
<1> DEFINE x == <<a1, x2, x3, c2>>
<1>11. x[1] = a1 /\ x[2] = x2 /\ x[3] = x3 /\ x[4] = c2
  OBVIOUS
<1> HIDE DEF x
<1>12. \A i \in 1 .. 4 : x[i] \in Digit
  <2>1. \A i \in 1 .. 4 : i = 1 \/ i = 2 \/ i = 3 \/ i = 4
    OBVIOUS
  <2> QED
    BY <1>10, <1>11, <2>1, Zenon
<1>13. Decodes(x, a, b, c)
  BY <1>7, <1>8, <1>9, <1>11, Zenon DEF Decodes
<1>14. EncodeGroup(a, b, c) = x
  BY <1>3 DEF x
<1> QED
  BY <1>12, <1>13, <1>14, Zenon

\* How many digits there are, and how many bytes they give back.
LEMMA CountsAre ==
    ASSUME NEW n \in Nat
    PROVE  /\ DigitCount(n) \in Nat /\ DigitCount(n) <= 4 * ((n + 2) \div 3)
           /\ ByteCount(DigitCount(n)) = n
<1> DEFINE q == n \div 3
           r == n % 3
<1>1. q \in Nat /\ r \in 0 .. 2 /\ n = 3 * q + r
  OBVIOUS
<1>2. DigitCount(n) = 4 * q + (IF r = 0 THEN 0 ELSE r + 1)
  BY DEF DigitCount
<1> HIDE DEF q, r
<1> DEFINE k == IF r = 0 THEN 0 ELSE r + 1
<1>3. (n + 2) \div 3 = IF r = 0 THEN q ELSE q + 1
  BY <1>1
<1>4. r = 0 \/ r = 1 \/ r = 2
  BY <1>1
<1>5. k \in 0 .. 3 /\ 4 * q + k <= 4 * ((n + 2) \div 3) /\ 4 * q + k \in Nat
  BY <1>1, <1>3, <1>4
<1>6. (4 * q + k) \div 4 = q /\ (4 * q + k) % 4 = k
  BY <1>1, <1>5
<1>7. ByteCount(4 * q + k) = 3 * q + (IF k = 0 THEN 0 ELSE k - 1)
  BY <1>6, Zenon DEF ByteCount
<1>8. 3 * q + (IF k = 0 THEN 0 ELSE k - 1) = n
  BY <1>1, <1>4
<1> QED
  BY <1>2, <1>5, <1>7, <1>8, Zenon

LEMMA ByteCountIs ==
    ASSUME NEW m \in Nat, NEW j \in 0 .. m
    PROVE  ByteCount(j) \in Nat /\ ByteCount(j) <= ByteCount(m)
<1> DEFINE q == j \div 4
           r == j % 4
           p == m \div 4
           s == m % 4
<1>1. /\ q \in Nat /\ r \in 0 .. 3 /\ j = 4 * q + r
      /\ p \in Nat /\ s \in 0 .. 3 /\ m = 4 * p + s
  OBVIOUS
<1>2. /\ ByteCount(j) = 3 * q + (IF r = 0 THEN 0 ELSE r - 1)
      /\ ByteCount(m) = 3 * p + (IF s = 0 THEN 0 ELSE s - 1)
  BY DEF ByteCount
<1> HIDE DEF q, r, p, s
<1> QED
  BY <1>1, <1>2

\* The two digits that a byte is in are there, if the byte is.
LEMMA DigitsOfByte ==
    ASSUME NEW j \in Nat, NEW k \in 1 .. ByteCount(j)
    PROVE  LET g == (k - 1) \div 3
               t == (k - 1) % 3
           IN  g \in Nat /\ t \in 0 .. 2 /\ k = 3 * g + t + 1 /\ 4 * g + t + 2 <= j
<1> DEFINE q == j \div 4
           r == j % 4
           g == (k - 1) \div 3
           t == (k - 1) % 3
<1>1. q \in Nat /\ r \in 0 .. 3 /\ j = 4 * q + r
  OBVIOUS
<1>2. ByteCount(j) = 3 * q + (IF r = 0 THEN 0 ELSE r - 1)
  BY DEF ByteCount
<1> DEFINE n == ByteCount(j)
<1>3. n \in Nat /\ k \in 1 .. n
  BY <1>1, <1>2
<1>4. g \in Nat /\ t \in 0 .. 2 /\ k = 3 * g + t + 1
  BY <1>3
<1> HIDE DEF q, r, g, t
<1>5. 4 * g + t + 2 <= j
  BY <1>1, <1>2, <1>3, <1>4
<1> QED
  BY <1>4, <1>5 DEF g, t

ByteOf == 0 .. ByteValues - 1

LEMMA TextIs ==
    ASSUME NEW buf \in Seq(ByteOf)
    PROVE  LET text == base64_encode(buf)
               m == DigitCount(Len(buf))
           IN  /\ text \in Seq(Nat) /\ m \in 0 .. Len(text)
               /\ \A i \in 1 .. m : text[i] \in Digit
               /\ \A i \in m + 1 .. Len(text) : text[i] \notin Digit
               /\ \A g \in Nat, t \in 1 .. 4 : 4 * g + t <= m =>
                    text[4 * g + t] = GroupOf(buf, g)[t]
<1> DEFINE n == Len(buf)
           text == base64_encode(buf)
           m == DigitCount(n)
           l == 4 * ((n + 2) \div 3)
           At(k) == IF k <= m THEN GroupOf(buf, (k - 1) \div 4)[((k - 1) % 4) + 1] ELSE Padding
<1>1. n \in Nat
  OBVIOUS
<1>2. m \in Nat /\ m <= l /\ l \in Nat
  BY <1>1, CountsAre
<1>3. text = [k \in 1 .. l |-> At(k)]
  BY DEF base64_encode
<1>4. ASSUME NEW g \in Nat
      PROVE  \A t \in 1 .. 4 : GroupOf(buf, g)[t] \in Digit
  <2>1. \A i \in Nat \ {0} : ByteAt(buf, i) \in 0 .. ByteValues - 1
    BY ValuesAre DEF ByteAt, ByteOf
  <2>2. 3 * g + 1 \in Nat \ {0} /\ 3 * g + 2 \in Nat \ {0} /\ 3 * g + 3 \in Nat \ {0}
    OBVIOUS
  <2> DEFINE a == ByteAt(buf, 3 * g + 1)
             b == ByteAt(buf, 3 * g + 2)
             c == ByteAt(buf, 3 * g + 3)
  <2>3. /\ a \in 0 .. ByteValues - 1 /\ b \in 0 .. ByteValues - 1 /\ c \in 0 .. ByteValues - 1
        /\ GroupOf(buf, g) = EncodeGroup(a, b, c)
    BY <2>1, <2>2 DEF GroupOf
  <2> HIDE DEF a, b, c
  <2>4. \A t \in 1 .. 4 : EncodeGroup(a, b, c)[t] \in Digit
    BY <2>3, GroupBack
  <2> QED
    BY <2>3, <2>4
<1> HIDE DEF n, text, m, l
<1>5. ASSUME NEW k \in 1 .. l, k <= m
      PROVE  At(k) \in Digit
  <2>1. (k - 1) \div 4 \in Nat /\ ((k - 1) % 4) + 1 \in 1 .. 4
    BY <1>2
  <2> QED
    BY <1>4, <1>5, <2>1
<1>6. Padding \in Nat /\ Padding \notin Digit /\ Digit \subseteq Nat
  BY ValuesAre DEF Padding, Digit
<1>7. \A k \in 1 .. l : At(k) \in Nat
  BY <1>5, <1>6
<1>8. text \in Seq(Nat) /\ Len(text) = l /\ \A k \in 1 .. l : text[k] = At(k)
  <2> HIDE DEF At
  <2> QED
    BY <1>2, <1>3, <1>7
<1>9. \A i \in 1 .. m : text[i] \in Digit
  <2>1. \A i \in 1 .. m : i \in 1 .. l /\ i <= m
    BY <1>2
  <2> HIDE DEF At
  <2> QED
    BY <1>5, <1>8, <2>1
<1>10. \A i \in m + 1 .. l : text[i] \notin Digit
  <2>1. \A i \in m + 1 .. l : i \in 1 .. l /\ ~ (i <= m)
    BY <1>2
  <2> QED
    BY <1>6, <1>8, <2>1
<1>11. ASSUME NEW g \in Nat, NEW t \in 1 .. 4, 4 * g + t <= m
       PROVE  text[4 * g + t] = GroupOf(buf, g)[t]
  <2> DEFINE k == 4 * g + t
  <2>1. k \in 1 .. l /\ k <= m /\ (k - 1) \div 4 = g /\ ((k - 1) % 4) + 1 = t
    BY <1>2, <1>11
  <2> HIDE DEF k
  <2>2. text[k] = GroupOf(buf, g)[t]
    BY <1>8, <2>1, Zenon
  <2> QED
    BY <2>2 DEF k
<1> QED
  BY <1>2, <1>8, <1>9, <1>10, <1>11 DEF text, m, n

\* Whatever of a text has come in decodes to as much of the buffer.
LEMMA PrefixDecodes ==
    ASSUME NEW buf \in Seq(ByteOf), NEW j \in 0 .. Len(base64_encode(buf))
    PROVE  LET d == base64_decode(SubSeq(base64_encode(buf), 1, j))
           IN  /\ d \in Seq(ByteOf) /\ Len(d) <= Len(buf)
               /\ \A k \in 1 .. Len(d) : d[k] = buf[k]
               /\ j = Len(base64_encode(buf)) => Len(d) = Len(buf)
<1> DEFINE n == Len(buf)
           all == base64_encode(buf)
           l == Len(all)
           m == DigitCount(n)
           text == SubSeq(all, 1, j)
           h == IF j <= m THEN j ELSE m
           digits == SubSeq(text, 1, h)
           size == ByteCount(h)
           d == base64_decode(text)
<1>1. /\ all \in Seq(Nat) /\ m \in 0 .. l
      /\ \A i \in 1 .. m : all[i] \in Digit
      /\ \A i \in m + 1 .. l : all[i] \notin Digit
      /\ \A g \in Nat, t \in 1 .. 4 : 4 * g + t <= m => all[4 * g + t] = GroupOf(buf, g)[t]
  BY TextIs
<1>2. n \in Nat /\ j \in 0 .. l
  OBVIOUS
<1>3. ByteCount(m) = n
  BY <1>2, CountsAre
<1> HIDE DEF n, all, m
<1>4. l \in Nat
  BY <1>1
<1> HIDE DEF l
<1>5. text \in Seq(Nat) /\ Len(text) = j /\ \A i \in 1 .. j : text[i] = all[i]
  BY <1>1, <1>2, <1>4 DEF l
<1> HIDE DEF text
<1>6. h \in 0 .. j /\ h \in 0 .. m /\ h \in Nat
  BY <1>1, <1>2, <1>4
<1>7. Digits(text) = digits
  <2>1. ASSUME NEW i \in 1 .. h
        PROVE  text[i] \in Digit
    <3>1. i \in 1 .. j /\ i \in 1 .. m
      BY <1>1, <1>2, <1>4, <1>6
    <3> QED
      BY <1>1, <1>5, <3>1
  <2>2. ASSUME h < j
        PROVE  text[h + 1] \notin Digit
    <3>1. h = m /\ h + 1 \in 1 .. j /\ h + 1 \in m + 1 .. l
      BY <1>1, <1>2, <1>4, <1>6, <2>2
    <3> QED
      BY <1>1, <1>5, <3>1
  <2> HIDE DEF h
  <2>3. h \in 0 .. Len(text) /\ (h < Len(text) => text[h + 1] \notin Digit)
    BY <1>5, <1>6, <2>2
  <2>4. \A i \in 1 .. h : text[i] \in Digit
    BY <2>1
  <2> QED
    BY <1>5, <2>3, <2>4, DigitsAre
<1>8. size \in Nat /\ size <= n /\ (j = l => size = n)
  <2>1. size \in Nat /\ size <= n
    <3>1. m \in Nat
      BY <1>1, <1>4
    <3> HIDE DEF h
    <3>2. ByteCount(h) \in Nat /\ ByteCount(h) <= ByteCount(m)
      BY <1>6, <3>1, ByteCountIs
    <3> QED
      BY <1>3, <3>2
  <2>2. j = l => h = m
    BY <1>1, <1>2, <1>4, <1>6
  <2> QED
    BY <1>3, <2>1, <2>2
<1> HIDE DEF h
<1>9. Len(digits) = h /\ \A i \in 1 .. h : digits[i] = text[i]
  BY <1>5, <1>6
<1> HIDE DEF digits
<1> DEFINE At(k) == LET i == 4 * ((k - 1) \div 3) IN
                    DecodeGroup(DigitAt(digits, i + 1), DigitAt(digits, i + 2),
                                DigitAt(digits, i + 3), DigitAt(digits, i + 4))[((k - 1) % 3) + 1]
<1>10. d = [k \in 1 .. size |-> At(k)]
  BY <1>7, <1>9 DEF base64_decode
<1>11. ASSUME NEW k \in 1 .. size
       PROVE  At(k) = buf[k] /\ buf[k] \in ByteOf
  <2> DEFINE g == (k - 1) \div 3
             t == (k - 1) % 3
             a == ByteAt(buf, 3 * g + 1)
             b == ByteAt(buf, 3 * g + 2)
             c == ByteAt(buf, 3 * g + 3)
             x == EncodeGroup(a, b, c)
  <2>1. g \in Nat /\ t \in 0 .. 2 /\ k = 3 * g + t + 1 /\ 4 * g + t + 2 <= h
    BY <1>6, DigitsOfByte
  <2>2. k \in 1 .. n
    BY <1>2, <1>8
  <2>3. buf[k] \in ByteOf /\ ByteAt(buf, k) = buf[k]
    BY <2>2 DEF ByteAt, n
  <2> HIDE DEF g, t, At
  <2>4. a \in 0 .. ByteValues - 1 /\ b \in 0 .. ByteValues - 1 /\ c \in 0 .. ByteValues - 1
    <3>1. \A i \in Nat \ {0} : ByteAt(buf, i) \in 0 .. ByteValues - 1
      BY ValuesAre DEF ByteAt, ByteOf
    <3>2. 3 * g + 1 \in Nat \ {0} /\ 3 * g + 2 \in Nat \ {0} /\ 3 * g + 3 \in Nat \ {0}
      BY <2>1
    <3> QED
      BY <3>1, <3>2
  <2>5. GroupOf(buf, g) = x
    BY DEF GroupOf
  <2> HIDE DEF a, b, c
  <2>6. Decodes(x, a, b, c)
    BY <2>4, GroupBack
  <2> HIDE DEF x
  <2>7. ASSUME NEW i \in 1 .. 4, 4 * g + i <= h
        PROVE  DigitAt(digits, 4 * g + i) = x[i]
    <3> DEFINE at == 4 * g + i
    <3>1. at \in 1 .. h /\ at \in 1 .. j /\ at <= m /\ at <= h
      BY <1>1, <1>2, <1>4, <1>6, <2>1, <2>7
    <3>2. all[at] = GroupOf(buf, g)[i]
      BY <1>1, <2>1, <3>1
    <3> HIDE DEF at
    <3>3. DigitAt(digits, at) = digits[at] /\ digits[at] = text[at] /\ text[at] = all[at]
      BY <1>5, <1>9, <3>1 DEF DigitAt
    <3> QED
      BY <2>5, <3>2, <3>3 DEF at
  <2> DEFINE D(i) == DigitAt(digits, 4 * g + i)
  <2>8. At(k) = DecodeGroup(D(1), D(2), D(3), D(4))[t + 1]
    BY Zenon DEF At, g, t
  <2>9. CASE t = 0
    <3>1. 4 * g + 1 <= h /\ 4 * g + 2 <= h /\ 1 \in 1 .. 4 /\ 2 \in 1 .. 4
      BY <1>6, <2>1, <2>9
    <3>2. D(1) = x[1] /\ D(2) = x[2]
      BY <2>7, <3>1
    <3>3. t + 1 = 1 /\ k = 3 * g + 1
      BY <2>1, <2>9
    <3> HIDE DEF D
    <3>4. At(k) = a
      BY <2>6, <2>8, <3>2, <3>3, Zenon DEF Decodes
    <3> QED
      BY <2>3, <3>3, <3>4 DEF a
  <2>10. CASE t = 1
    <3>1. 4 * g + 2 <= h /\ 4 * g + 3 <= h /\ 2 \in 1 .. 4 /\ 3 \in 1 .. 4
      BY <1>6, <2>1, <2>10
    <3>2. D(2) = x[2] /\ D(3) = x[3]
      BY <2>7, <3>1
    <3>3. t + 1 = 2 /\ k = 3 * g + 2
      BY <2>1, <2>10
    <3> HIDE DEF D
    <3>4. At(k) = b
      BY <2>6, <2>8, <3>2, <3>3, Zenon DEF Decodes
    <3> QED
      BY <2>3, <3>3, <3>4 DEF b
  <2>11. CASE t = 2
    <3>1. 4 * g + 3 <= h /\ 4 * g + 4 <= h /\ 3 \in 1 .. 4 /\ 4 \in 1 .. 4
      BY <1>6, <2>1, <2>11
    <3>2. D(3) = x[3] /\ D(4) = x[4]
      BY <2>7, <3>1
    <3>3. t + 1 = 3 /\ k = 3 * g + 3
      BY <2>1, <2>11
    <3> HIDE DEF D
    <3>4. At(k) = c
      BY <2>6, <2>8, <3>2, <3>3, Zenon DEF Decodes
    <3> QED
      BY <2>3, <3>3, <3>4 DEF c
  <2> QED
    BY <2>1, <2>9, <2>10, <2>11
<1> HIDE DEF At, size, d
<1>12. d \in Seq(ByteOf) /\ Len(d) = size /\ \A k \in 1 .. size : d[k] = buf[k]
  BY <1>8, <1>10, <1>11
<1> QED
  BY <1>8, <1>12 DEF d, text, l, all, n

\* So a whole text gives the whole buffer, and one that ends early a prefix.
LEMMA TextCarries ==
    ASSUME NEW buf \in Seq(ByteOf)
    PROVE  LET text == base64_encode(buf) IN
           /\ base64_decode(text) = buf
           /\ \A n \in DOMAIN text : IsPrefix(base64_decode(SubSeq(text, 1, n - 1)), buf)
<1> DEFINE text == base64_encode(buf)
           Of(j) == base64_decode(SubSeq(text, 1, j))
<1>1. text \in Seq(Nat)
  BY TextIs
<1>2. Len(text) \in Nat /\ DOMAIN text = 1 .. Len(text) /\ SubSeq(text, 1, Len(text)) = text
  <2> HIDE DEF text
  <2> QED
    BY <1>1
<1>3. \A j \in 0 .. Len(text) :
        /\ Of(j) \in Seq(ByteOf) /\ Len(Of(j)) <= Len(buf)
        /\ \A k \in 1 .. Len(Of(j)) : Of(j)[k] = buf[k]
        /\ j = Len(text) => Len(Of(j)) = Len(buf)
  <2> TAKE j \in 0 .. Len(text)
  <2> QED
    BY PrefixDecodes
<1>4. base64_decode(text) = Of(Len(text))
  BY <1>2
<1> HIDE DEF Of, text
<1>5. Of(Len(text)) = buf
  <2>1. Len(text) \in 0 .. Len(text)
    BY <1>2
  <2> QED
    BY <1>3, <2>1, SeqEqual
<1>6. ASSUME NEW n \in DOMAIN text
      PROVE  IsPrefix(Of(n - 1), buf)
  <2>1. n - 1 \in 0 .. Len(text)
    BY <1>2
  <2> QED
    BY <1>3, <2>1, PrefixBy
<1> QED
  BY <1>4, <1>5, <1>6 DEF Of, text

-----------------------------------------------------------------------------
(* The theorems *)

\* A packet that the validation accepts is never one that the parse fails on:
\* the second reading of parser2cppacket stays inside the bytes that
\* validater2cppacket has measured, whatever their number.
THEOREM ValidationVouches == Spec => []AcceptedParses
<1>1. IInv => AcceptedParses
  <2> SUFFICES ASSUME IInv, WordsFit, ~ HeaderOnly, validater2cppacket(packet)
               PROVE  parser2cppacket(packet).thrown = "none"
    BY DEF AcceptedParses
  <2> QED
    BY PacketReads DEF IInv, WordsFit, HeaderOnly
<1> QED
  BY <1>1, Inductive, PTL

\* Robot modules get commands of the dictionary's codes only, but for the one that
\* means an invalid command, and with its parameters, whatever the bytes.
THEOREM KnownOnly == Spec => []OnlyKnownCommands
<1>1. IInv => OnlyKnownCommands
  <2> SUFFICES ASSUME IInv, NEW k \in ToSet(parser2cppacket(packet).commands)
               PROVE  KnownCommand(k)
    BY DEF OnlyKnownCommands, KnownCommand
  <2> QED
    BY PacketKnown DEF IInv
<1> QED
  BY <1>1, Inductive, PTL

\* What is taken from a packet is what the packet has: if no command has been
\* discarded, writing the commands again gives the packet, byte for byte.
THEOREM NothingIsLost == Spec => []NothingLost
<1>1. IInv => NothingLost
  <2> SUFFICES ASSUME IInv, parser2cppacket(packet).thrown = "none",
                      Len(parser2cppacket(packet).commands) = WordAt(packet, MINR2CPPACKETSIZE)
               PROVE  packet = PacketBytes(WordAt(packet, 0), parser2cppacket(packet).commands)
    BY DEF NothingLost
  <2> QED
    BY PacketBack DEF IInv
<1> QED
  BY <1>1, Inductive, PTL

\* All that is read is of the dictionary.
LEMMA AllOfDictionary ==
    ASSUME NEW bytes \in Seq(Byte), parser2cppacket(bytes).commands \in Seq(R2CPCommand)
    PROVE  OfDictionary(parser2cppacket(bytes).commands) = parser2cppacket(bytes).commands
<1> DEFINE list == parser2cppacket(bytes).commands
<1>1. ASSUME NEW i \in DOMAIN list
      PROVE  Kept(list[i]) = <<list[i]>>
  <2>1. list[i] \in ToSet(list)
    BY DEF ToSet
  <2> DEFINE k == list[i]
  <2>2. KnownCommand(k)
    BY <2>1, PacketKnown
  <2> HIDE DEF k
  <2>3. checkifvalidcommand(k.code) /\ KnownParameters(k)
    BY <2>2 DEF KnownCommand, checkifvalidcommand, KnownParameters
  <2> QED
    BY <2>3, Zenon DEF Kept, k
<1> HIDE DEF list
<1>2. [i \in DOMAIN list |-> Kept(list[i])] = [i \in DOMAIN list |-> <<list[i]>>]
  BY <1>1
<1>3. list \in Seq(R2CPCommand)
  BY DEF list
<1> QED
  BY <1>2, <1>3, FlattenSingles DEF OfDictionary, list

\* A client's commands come through: a packet built from them is valid and is
\* read to its end, and each command of the dictionary is there, in order and
\* with all its parameters, whatever others there are.
THEOREM CommandsComeThrough == Spec => []CommandsArrive
<1>1. IInv => CommandsArrive
  <2> SUFFICES ASSUME IInv, changes = 0, \A i \in DOMAIN commands : ContentIsExpected(commands[i])
               PROVE  /\ parser2cppacket(packet).thrown = "none"
                      /\ OfDictionary(parser2cppacket(packet).commands) = OfDictionary(commands)
    BY DEF CommandsArrive
  <2>1. /\ magic \in Magics /\ commands \in CommandLists
        /\ packet = PacketBytes(magic, commands)
    BY DEF IInv
  <2>2. /\ commands \in Seq(R2CPCommand) /\ magic \in {R2CPMAGICNUMBER, RRCPMAGICNUMBER}
        /\ \A i \in DOMAIN commands : WellFormed(commands[i])
        /\ packet \in Seq(Byte) /\ Len(packet) < WordModulus
    BY <2>1, ClientPacket
  <2>3. /\ parser2cppacket(packet).thrown = "none"
        /\ parser2cppacket(packet).commands = OfDictionary(commands)
    BY <2>1, <2>2, PacketArrives DEF OfDictionary
  <2>4. OfDictionary(commands) \in Seq(R2CPCommand)
    <3> DEFINE kept == [i \in DOMAIN commands |-> Kept(commands[i])]
    <3>1. ASSUME NEW k \in R2CPCommand
          PROVE  Kept(k) \in Seq(R2CPCommand)
      <4>1. <<k>> \in Seq(R2CPCommand) /\ <<>> \in Seq(R2CPCommand)
        OBVIOUS
      <4> QED
        BY <4>1, Zenon DEF Kept
    <3>2. kept \in Seq(Seq(R2CPCommand))
      BY <2>2, <3>1
    <3> HIDE DEF kept
    <3>3. FlattenSeq(kept) \in Seq(R2CPCommand)
      BY <3>2, FlattenTyped
    <3> QED
      BY <3>3 DEF OfDictionary, kept
  <2> QED
    BY <2>2, <2>3, <2>4, AllOfDictionary
<1> QED
  BY <1>1, Inductive, PTL

\* The size that precomputer2cppacketsize puts in the header before anything is
\* written is the one the packet has by the format.
THEOREM SizeAgrees == Spec => []SizeIsTheFormats
<1>1. IInv => SizeIsTheFormats
  <2> SUFFICES ASSUME IInv,
                      \A i \in DOMAIN commands :
                          getcommandcontenttype(commands[i].code) = PARAMETERIZEDCONTENT =>
                              commands[i].parameters # <<>>
               PROVE  precomputer2cppacketsize(commands)
                        = Len(PacketBytes(magic, commands)) - MINR2CPPACKETSIZE
    BY DEF SizeIsTheFormats
  <2>1. magic \in Magics /\ commands \in CommandLists
    BY DEF IInv
  <2>2. /\ commands \in Seq(R2CPCommand) /\ magic \in Nat
        /\ \A i \in DOMAIN commands : WellFormed(commands[i])
        /\ Len(PacketBytes(magic, commands)) < WordModulus
    BY <2>1, ClientPacket
  <2> QED
    BY <2>2, SizeOfPacket
<1> QED
  BY <1>1, Inductive, PTL

\* Text carries packets: what the server encodes and the processor decodes is
\* the same bytes, whatever their number, and a text cut short decodes to no
\* byte that is not there.
THEOREM TextCarriesPackets == Spec => []TextCarriesPacket
<1>1. IInv => TextCarriesPacket
  <2> SUFFICES ASSUME IInv, NEW buf \in Buffers
               PROVE  buf \in Seq(ByteOf)
    BY TextCarries DEF TextCarriesPacket
  <2> DEFINE parts == ByteValues \div ByteModulus
  <2>1. PICK part \in 0 .. parts - 1 :
          buf = [i \in DOMAIN packet |-> packet[i] + part * ByteModulus]
    BY DEF Buffers
  <2>2. packet \in Seq(Byte)
    BY DEF IInv
  <2> DEFINE d == ByteModulus
             v == ByteValues
  <2>3. d \in Nat \ {0} /\ v \in Nat
    BY FormatAssumption, ValuesAre
  <2>4. part \in Nat /\ parts \in Nat /\ parts * d <= v /\ part + 1 <= parts
    <3> HIDE DEF d, v
    <3>1. parts = v \div d
      BY DEF d, v
    <3> DEFINE x == parts * d
               y == v % d
    <3>2. v \div d \in Nat /\ y \in 0 .. d - 1 /\ v = (v \div d) * d + y
      BY <2>3, DivisionOf
    <3> HIDE DEF y, parts
    <3>3. parts \in Nat /\ x \in Nat /\ y \in Nat /\ v = x + y
      BY <2>3, <3>1, <3>2
    <3> HIDE DEF x
    <3>4. x <= v
      BY <3>3
    <3>5. part \in Nat /\ part + 1 <= parts
      BY <3>3
    <3> QED
      BY <3>3, <3>4, <3>5 DEF x, d, v
  <2>5. ASSUME NEW b \in Byte
        PROVE  b + part * d \in ByteOf
    <3>1. b \in 0 .. d - 1
      BY DEF Byte
    <3> HIDE DEF d, v, parts
    <3> DEFINE r == parts - (part + 1)
    <3>2. r \in Nat /\ parts = part + 1 + r
      BY <2>4
    <3> HIDE DEF r
    <3>3. (part + 1 + r) * d = part * d + d + r * d /\ r * d \in Nat /\ part * d \in Nat
      BY <2>3, <2>4, <3>2
    <3> DEFINE x == part * d
               y == r * d
               z == parts * d
    <3>4. z = x + d + y /\ y \in Nat /\ x \in Nat /\ z <= v
      BY <2>4, <3>2, <3>3
    <3> HIDE DEF x, y, z
    <3>5. b + x \in 0 .. v - 1
      BY <2>3, <3>1, <3>4
    <3> QED
      BY <3>5 DEF x, v, ByteOf
  <2>6. \A i \in DOMAIN packet : packet[i] + part * ByteModulus \in ByteOf
    BY <2>2, <2>5
  <2>7. DOMAIN packet = 1 .. Len(packet) /\ Len(packet) \in Nat
    BY <2>2
  <2> QED
    BY <2>1, <2>6, <2>7
<1> QED
  BY <1>1, Inductive, PTL
=============================================================================
