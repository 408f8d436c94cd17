------------------------------- MODULE Base64 -------------------------------
(***************************************************************************)
(* Base64: what encode and decode return.  The bits of a byte fall into    *)
(* four pairs in the code, those of a digit into three: Q is the number of *)
(* values of a pair.  A character of a text is a digit, its place in the   *)
(* alphabet, or one that is no digit, the padding among them.              *)
(***************************************************************************)
EXTENDS Naturals, Sequences, SequencesExt

CONSTANT Q

ASSUME Base64Assumption == Q \in Nat /\ Q >= 2

\* How many values two pairs of bits have, three, a digit, and four, a byte.
PairValues == Q * Q
DigitValues == Q * PairValues
ByteValues == Q * DigitValues

Digit == 0 .. DigitValues - 1
Padding == DigitValues

ByteAt(buf, i) == IF i <= Len(buf) THEN buf[i] ELSE 0

\* The four digits of three bytes.
EncodeGroup(a, b, c) ==
    <<a \div Q,
      (a % Q) * PairValues + (b \div PairValues),
      (b % PairValues) * Q + (c \div DigitValues),
      c % DigitValues>>

\* Group g of the buffer; bytes past its end count as zero.
GroupOf(buf, g) == EncodeGroup(ByteAt(buf, 3*g + 1), ByteAt(buf, 3*g + 2), ByteAt(buf, 3*g + 3))

\* Mutant of DigitCount: as many digits as bytes are left over.
DigitForByte(bytes) == 4 * (bytes \div 3) + (bytes % 3)

\* i bytes left over make i + 1 digits.
DigitCount(bytes) == 4 * (bytes \div 3) + (IF bytes % 3 = 0 THEN 0 ELSE (bytes % 3) + 1)

base64_encode(buf) ==
    [k \in 1 .. 4 * ((Len(buf) + 2) \div 3) |->
        IF k <= DigitCount(Len(buf)) THEN GroupOf(buf, (k - 1) \div 4)[((k - 1) % 4) + 1]
        ELSE Padding]

\* The three bytes of four digits.
DecodeGroup(d, e, f, g) ==
    <<d * Q + ((e % DigitValues) \div PairValues),
      (e % PairValues) * PairValues + ((f % DigitValues) \div Q),
      ((f % Q) * DigitValues + g) % ByteValues>>

\* The characters before the first that is no digit.
Digits(text) ==
    SubSeq(text, 1, SelectInSeq(Append(text, Padding), LAMBDA c : c \notin Digit) - 1)

\* What is not found in the alphabet: npos, cut to a byte.
DigitAt(digits, i) == IF i <= Len(digits) THEN digits[i] ELSE ByteValues - 1

\* i digits left over make i - 1 bytes.
ByteCount(digits) == 3 * (digits \div 4) + (IF digits % 4 = 0 THEN 0 ELSE (digits % 4) - 1)

base64_decode(text) ==
    LET digits == Digits(text) IN
    [k \in 1 .. ByteCount(Len(digits)) |->
        LET i == 4 * ((k - 1) \div 3) IN
        DecodeGroup(DigitAt(digits, i + 1), DigitAt(digits, i + 2),
                    DigitAt(digits, i + 3), DigitAt(digits, i + 4))[((k - 1) % 3) + 1]]
=============================================================================
