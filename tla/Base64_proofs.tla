---------------------------- MODULE Base64_proofs ----------------------------
(* Theorems about the conversions of base64.c, for inputs of every length. *)
EXTENDS Base64, TLAPS

Triple == {t \in Nat : t < 65536 * 256}

-----------------------------------------------------------------------------
(* Arithmetic of one group                                                 *)

\* A group of three bytes falls apart into its bytes.
LEMMA BytesOfTriple ==
  ASSUME NEW a \in Byte, NEW b \in Byte, NEW c \in Byte
  PROVE  LET t == a * 65536 + b * 256 + c
         IN  /\ t \in Triple
             /\ BytesOf(t)[1] = a /\ BytesOf(t)[2] = b /\ BytesOf(t)[3] = c
<1> DEFINE t == a * 65536 + b * 256 + c
<1>1. t \in Triple
  BY SMT DEF Byte, Triple
<1>2. t \div 65536 = a
  BY SMT DEF Byte
<1>3. t \div 256 = a * 256 + b
  BY SMT DEF Byte
<1>4. a % 256 = a /\ (a * 256 + b) % 256 = b
  BY SMT DEF Byte
<1>5. t % 256 = c
  BY SMT DEF Byte
<1>6. BytesOf(t)[1] = (t \div 65536) % 256 /\ BytesOf(t)[2] = (t \div 256) % 256
      /\ BytesOf(t)[3] = t % 256
  <2> HIDE DEF t
  <2> QED BY SMT DEF BytesOf
<1> HIDE DEF t
<1> QED BY <1>1, <1>2, <1>3, <1>4, <1>5, <1>6, SMT DEF t

LEMMA DigitOf64 ==
  ASSUME NEW n \in Nat
  PROVE  n = 64 * (n \div 64) + (n % 64) /\ n % 64 \in 0 .. 63 /\ n \div 64 \in Nat
<1>1. n = 64 * (n \div 64) + (n % 64)
  BY SMT
<1>2. n % 64 \in 0 .. 63 /\ n \div 64 \in Nat
  BY SMT
<1> QED BY <1>1, <1>2

LEMMA ShiftsBySix ==
  ASSUME NEW n \in Nat
  PROVE  (n \div 64) \div 64 = n \div 4096 /\ (n \div 4096) \div 64 = n \div 262144
  BY SMT

\* Four letters are six bits each, and make up their group again.
LEMMA SextetsOfTriple ==
  ASSUME NEW t \in Triple
  PROVE  /\ \A p \in 0 .. 3 : Sextets(t)[p + 1] \in Letter
         /\ Sextets(t)[1] * 262144 + Sextets(t)[2] * 4096
              + Sextets(t)[3] * 64 + Sextets(t)[4] = t
<1> DEFINE q1 == t \div 64
           q2 == t \div 4096
           q3 == t \div 262144
<1>1. t \in Nat /\ q1 \in Nat /\ q2 \in Nat /\ q3 \in 0 .. 63
  BY SMT DEF Triple
<1>2. t = 64 * q1 + (t % 64) /\ t % 64 \in 0 .. 63
  BY <1>1, DigitOf64
<1>3. q1 = 64 * q2 + (q1 % 64) /\ q1 % 64 \in 0 .. 63
  <2>1. q2 = q1 \div 64
    BY <1>1, ShiftsBySix
  <2> HIDE DEF q1, q2
  <2> QED BY <1>1, <2>1, DigitOf64
<1>4. q2 = 64 * q3 + (q2 % 64) /\ q2 % 64 \in 0 .. 63
  <2>1. q3 = q2 \div 64
    BY <1>1, ShiftsBySix
  <2> HIDE DEF q2, q3
  <2> QED BY <1>1, <2>1, DigitOf64
<1>5. q3 % 64 = q3
  BY <1>1, SMT
<1>6. /\ Sextets(t)[1] = q3 % 64 /\ Sextets(t)[2] = q2 % 64
      /\ Sextets(t)[3] = q1 % 64 /\ Sextets(t)[4] = t % 64
  BY SMT DEF Sextets
<1> HIDE DEF q1, q2, q3
<1>7. \A p \in 0 .. 3 : Sextets(t)[p + 1] \in Letter
  <2>1. ASSUME NEW p \in 0 .. 3
        PROVE  p + 1 = 1 \/ p + 1 = 2 \/ p + 1 = 3 \/ p + 1 = 4
    OBVIOUS
  <2> QED BY <1>1, <1>2, <1>3, <1>4, <1>5, <1>6, <2>1 DEF Letter
<1>8. (q3 % 64) * 262144 + (q2 % 64) * 4096 + (q1 % 64) * 64 + (t % 64) = t
  BY <1>1, <1>2, <1>3, <1>4, <1>5, SMT
<1>9. Sextets(t)[1] * 262144 + Sextets(t)[2] * 4096
        + Sextets(t)[3] * 64 + Sextets(t)[4] = t
  BY <1>6, <1>8, SMT
<1> QED BY <1>7, <1>9, SMT

LEMMA LetterIsNoPad ==
  \A x \in Letter : x # Pad /\ x \notin {Plus, Slash}
  BY SMT DEF Letter, Pad, Plus, Slash

LEMMA ShortTriples ==
  ASSUME NEW a \in Byte, NEW b \in Byte
  PROVE  /\ a * 65536 + b * 256 + 0 = a * 65536 + b * 256
         /\ a * 65536 + 0 * 256 + 0 = a * 65536
         /\ a * 65536 + 0 * 256 = a * 65536
  BY SMT DEF Byte

\* Letters that only fill a group up are those whose bits are all zero.
LEMMA FillersAreZero ==
  ASSUME NEW a \in Byte, NEW b \in Byte
  PROVE  /\ Sextets(a * 65536 + b * 256)[4] = 0
         /\ Sextets(a * 65536)[3] = 0
  BY SMTT(30) DEF Byte, Sextets

-----------------------------------------------------------------------------
(* The text                                                                *)

LEMMA ElementIn ==
  ASSUME NEW T, NEW s \in Seq(T), NEW i \in 1 .. Len(s)
  PROVE  s[i] \in T
OBVIOUS

LEMMA OctetIsByte ==
  ASSUME NEW s \in Seq(Byte), NEW i \in Nat \ {0}
  PROVE  Octet(s, i) \in Byte
<1>1. CASE i <= Len(s)
  <2>1. s[i] \in Byte
    BY <1>1
  <2> QED BY <1>1, <2>1 DEF Octet
<1>2. CASE ~(i <= Len(s))
  BY <1>2, SMT DEF Octet, Byte
<1> QED BY <1>1, <1>2

LEMMA GroupIsTriple ==
  ASSUME NEW s \in Seq(Byte), NEW g \in Nat
  PROVE  /\ TripleOfBytes(s, g) \in Triple
         /\ BytesOf(TripleOfBytes(s, g))[1] = Octet(s, 3 * g + 1)
         /\ BytesOf(TripleOfBytes(s, g))[2] = Octet(s, 3 * g + 2)
         /\ BytesOf(TripleOfBytes(s, g))[3] = Octet(s, 3 * g + 3)
<1>1. /\ Octet(s, 3 * g + 1) \in Byte
      /\ Octet(s, 3 * g + 2) \in Byte
      /\ Octet(s, 3 * g + 3) \in Byte
  BY OctetIsByte
<1> QED BY <1>1, BytesOfTriple, SMTT(30) DEF TripleOfBytes

LEMMA PaddedLength ==
  ASSUME NEW s \in Seq(Byte)
  PROVE  /\ EncodedLength(Len(s)) \in Nat
         /\ DOMAIN Padded(s) = 1 .. EncodedLength(Len(s))
         /\ Len(Padded(s)) = EncodedLength(Len(s))
<1>1. EncodedLength(Len(s)) \in Nat
  BY DEF EncodedLength
<1> QED BY <1>1 DEF Padded

\* Padded is letters and padding.
LEMMA PaddedLetters ==
  ASSUME NEW s \in Seq(Byte)
  PROVE  Padded(s) \in Seq(Letter \cup {Pad})
<1> DEFINE E == EncodedLength(Len(s))
<1>1. E \in Nat
  BY PaddedLength
<1>2. ASSUME NEW k \in 1 .. E
      PROVE  Sextets(TripleOfBytes(s, (k - 1) \div 4))[((k - 1) % 4) + 1] \in Letter
  <2>1. (k - 1) \div 4 \in Nat /\ (k - 1) % 4 \in 0 .. 3
    BY <1>1
  <2>2. TripleOfBytes(s, (k - 1) \div 4) \in Triple
    BY <2>1, GroupIsTriple
  <2> QED BY <2>1, <2>2, SextetsOfTriple
<1>3. Padded(s) \in [1 .. E -> Letter \cup {Pad}]
  BY <1>2 DEF Padded
<1> QED BY <1>1, <1>3

\* A letter that a text shares with Padded, read as the decoder reads it, is
\* six bits of its group, also where the text has padding.
LEMMA LettersRead ==
  ASSUME NEW s \in Seq(Byte), NEW g \in Nat, 3 * g + 1 <= Len(s), NEW p \in 0 .. 3,
         NEW left, NEW t, t[4 * g + p + 1] = Padded(s)[4 * g + p + 1]
  PROVE  Sextet(left, t, 4 * g + p + 1) = Sextets(TripleOfBytes(s, g))[p + 1]
<1> DEFINE n == Len(s)
           E == EncodedLength(n)
           k == 4 * g + p + 1
           T == TripleOfBytes(s, g)
<1>1. n \in Nat /\ E \in Nat
  BY PaddedLength
<1>2. k \in 1 .. E
  BY <1>1 DEF EncodedLength
<1>3. (k - 1) \div 4 = g /\ (k - 1) % 4 = p
  OBVIOUS
<1>4. Padded(s)[k] = IF k > E - Fillers(n) THEN Pad ELSE Sextets(T)[p + 1]
  BY <1>2, <1>3 DEF Padded
<1>5. Sextets(T)[p + 1] \in Letter
  <2>1. T \in Triple
    BY GroupIsTriple
  <2> HIDE DEF T
  <2> QED BY <2>1, SextetsOfTriple
<1>6. CASE k <= E - Fillers(n)
  <2>1. Fillers(n) \in 0 .. 2
    BY <1>1 DEF Fillers, mod_table
  <2>2. Padded(s)[k] = Sextets(T)[p + 1]
    BY <1>1, <1>4, <1>6, <2>1
  <2>3. Sextet(left, t, k) = Sextets(T)[p + 1]
    <3>1. t[k] = Padded(s)[k]
      OBVIOUS
    <3> HIDE DEF k, T
    <3>2. t[k] # Pad /\ t[k] \notin {Plus, Slash} /\ t[k] = Sextets(T)[p + 1]
      BY <2>2, <3>1, <1>5, LetterIsNoPad
    <3> QED BY <3>2, Zenon DEF Sextet
  <2> QED BY <2>3
<1>7. CASE k > E - Fillers(n)
  <2>1. Sextet(left, t, k) = 0
    <3>1. t[k] = Pad
      BY <1>4, <1>7
    <3> HIDE DEF k
    <3>2. Pad \notin {Plus, Slash}
      BY SMT DEF Pad, Plus, Slash
    <3> QED BY <3>1, <3>2, Zenon DEF Sextet
  <2>2. CASE n % 3 = 0
    BY <1>1, <1>2, <1>7, <2>2 DEF Fillers, mod_table
  <2>3. CASE n % 3 = 1
    <3>1. Fillers(n) = 2 /\ n = 3 * g + 1 /\ p \in {2, 3}
      BY <1>1, <1>7, <2>3 DEF Fillers, mod_table, EncodedLength
    <3>2. Octet(s, 3 * g + 1) \in Byte
      BY OctetIsByte
    <3>3. Octet(s, 3 * g + 2) = 0 /\ Octet(s, 3 * g + 3) = 0
      BY <3>1 DEF Octet
    <3>4. T = Octet(s, 3 * g + 1) * 65536 /\ T = Octet(s, 3 * g + 1) * 65536 + 0 * 256
      BY <3>2, <3>3, ShortTriples DEF TripleOfBytes
    <3>5. Sextets(T)[3] = 0 /\ Sextets(T)[4] = 0
      <4>1. 0 \in Byte
        BY DEF Byte
      <4> QED BY <3>2, <3>4, <4>1, FillersAreZero
    <3> QED BY <2>1, <3>1, <3>5
  <2>4. CASE n % 3 = 2
    <3>1. Fillers(n) = 1 /\ n = 3 * g + 2 /\ p = 3
      BY <1>1, <1>7, <2>4 DEF Fillers, mod_table, EncodedLength
    <3>2. Octet(s, 3 * g + 1) \in Byte /\ Octet(s, 3 * g + 2) \in Byte
      BY OctetIsByte
    <3>3. Octet(s, 3 * g + 3) = 0
      BY <3>1 DEF Octet
    <3>4. T = Octet(s, 3 * g + 1) * 65536 + Octet(s, 3 * g + 2) * 256
      BY <3>2, <3>3, ShortTriples DEF TripleOfBytes
    <3> QED BY <2>1, <3>1, <3>2, <3>4, FillersAreZero
  <2> QED BY <1>1, <2>2, <2>3, <2>4
<1>8. Fillers(n) \in 0 .. 2
  BY <1>1 DEF Fillers, mod_table
<1> QED BY <1>1, <1>6, <1>7, <1>8

\* A text whose group g is that of Padded.
Agrees(t, s, g) ==
  \A p \in 0 .. 3 : t[4 * g + p + 1] = Padded(s)[4 * g + p + 1]

LEMMA GroupsRead ==
  ASSUME NEW s \in Seq(Byte), NEW g \in Nat, 3 * g + 1 <= Len(s),
         NEW left, NEW t, Agrees(t, s, g)
  PROVE  TripleOfText(left, t, g) = TripleOfBytes(s, g)
<1> DEFINE T == TripleOfBytes(s, g)
<1>1. /\ Sextet(left, t, 4 * g + 1) = Sextets(T)[1]
      /\ Sextet(left, t, 4 * g + 2) = Sextets(T)[2]
      /\ Sextet(left, t, 4 * g + 3) = Sextets(T)[3]
      /\ Sextet(left, t, 4 * g + 4) = Sextets(T)[4]
  <2>1. \A p \in 0 .. 3 : Sextet(left, t, 4 * g + p + 1) = Sextets(T)[p + 1]
    BY LettersRead DEF Agrees
  <2>2. /\ 4 * g + 0 + 1 = 4 * g + 1 /\ 4 * g + 1 + 1 = 4 * g + 2
        /\ 4 * g + 2 + 1 = 4 * g + 3 /\ 4 * g + 3 + 1 = 4 * g + 4
    OBVIOUS
  <2>3. 0 \in 0 .. 3 /\ 1 \in 0 .. 3 /\ 2 \in 0 .. 3 /\ 3 \in 0 .. 3
    OBVIOUS
  <2> HIDE DEF T
  <2> QED BY <2>1, <2>2, <2>3
<1>2. T \in Triple
  BY GroupIsTriple
<1> QED BY <1>1, <1>2, SextetsOfTriple, SMTT(30) DEF TripleOfText

\* A text as long as Padded, and padded where it is, is decoded to the length
\* of the bytes.
LEMMA LengthRead ==
  ASSUME NEW s \in Seq(Byte), s # <<>>, NEW t, Len(t) = Len(Padded(s)),
         \A k \in 1 .. Len(t) : t[k] = Pad <=> Padded(s)[k] = Pad
  PROVE  Decodable(t) /\ DecodedLength(t) = Len(s)
<1> DEFINE n == Len(s)
           E == EncodedLength(n)
<1>0. Len(t) = E
  BY PaddedLength
<1>1. n \in Nat /\ n >= 1 /\ E \in Nat /\ E >= 4
  BY PaddedLength DEF EncodedLength
<1>2. \A k \in 1 .. E : t[k] = Pad <=> Padded(s)[k] = Pad
  BY <1>0
<1>3. DecodedLength(t) = n
  <2>1. ASSUME NEW k \in 1 .. E, k <= E - Fillers(n)
        PROVE  Padded(s)[k] # Pad
    <3>1. (k - 1) \div 4 \in Nat /\ (k - 1) % 4 \in 0 .. 3
      BY <1>1
    <3>2. Sextets(TripleOfBytes(s, (k - 1) \div 4))[((k - 1) % 4) + 1] \in Letter
      <4>1. TripleOfBytes(s, (k - 1) \div 4) \in Triple
        BY <3>1, GroupIsTriple
      <4> QED BY <3>1, <4>1, SextetsOfTriple
    <3>3. Fillers(n) \in 0 .. 2
      BY <1>1 DEF Fillers, mod_table
    <3>4. Padded(s)[k] = Sextets(TripleOfBytes(s, (k - 1) \div 4))[((k - 1) % 4) + 1]
      BY <1>1, <2>1, <3>3 DEF Padded
    <3> QED BY <3>2, <3>4, LetterIsNoPad
  <2>2. ASSUME NEW k \in 1 .. E, k > E - Fillers(n)
        PROVE  Padded(s)[k] = Pad
    BY <2>2 DEF Padded
  <2>3. E \in 1 .. E /\ E - 1 \in 1 .. E
    BY <1>1
  <2>4. CASE n % 3 = 0
    <3>1. Fillers(n) = 0 /\ (E \div 4) * 3 = n
      BY <1>0, <1>1, <2>4 DEF Fillers, mod_table, EncodedLength
    <3>2. t[E] # Pad /\ t[E - 1] # Pad
      BY <1>1, <1>2, <2>1, <2>3, <3>1
    <3> QED BY <1>0, <1>1, <3>1, <3>2 DEF DecodedLength
  <2>5. CASE n % 3 = 1
    <3>1. Fillers(n) = 2 /\ (E \div 4) * 3 = n + 2
      <4>1. Fillers(n) = 2
        BY <1>1, <2>5 DEF Fillers, mod_table
      <4>2. (E \div 4) * 3 = n + 2
        BY <1>1, <2>5 DEF EncodedLength
      <4> QED BY <4>1, <4>2
    <3>2. t[E] = Pad /\ t[E - 1] = Pad
      BY <1>1, <1>2, <2>2, <2>3, <3>1
    <3> QED BY <1>0, <1>1, <3>1, <3>2 DEF DecodedLength
  <2>6. CASE n % 3 = 2
    <3>1. Fillers(n) = 1 /\ (E \div 4) * 3 = n + 1
      BY <1>0, <1>1, <2>6 DEF Fillers, mod_table, EncodedLength
    <3>2. t[E] = Pad /\ t[E - 1] # Pad
      BY <1>1, <1>2, <2>1, <2>2, <2>3, <3>1
    <3> QED BY <1>0, <1>1, <3>1, <3>2 DEF DecodedLength
  <2> QED BY <1>0, <1>1, <2>4, <2>5, <2>6
<1>4. Decodable(t)
  BY <1>0, <1>1 DEF Decodable, EncodedLength
<1> QED BY <1>3, <1>4

\* A byte whose group is that of Padded is decoded to itself.
LEMMA ByteRead ==
  ASSUME NEW s \in Seq(Byte), NEW j \in 1 .. Len(s),
         NEW left, NEW t, Agrees(t, s, (j - 1) \div 3)
  PROVE  BytesOf(TripleOfText(left, t, (j - 1) \div 3))[((j - 1) % 3) + 1] = s[j]
<1> DEFINE n == Len(s)
           g == (j - 1) \div 3
           p == (j - 1) % 3
<1>0. n \in Nat
  OBVIOUS
<1>1. g \in Nat /\ p \in 0 .. 2 /\ j = 3 * g + p + 1 /\ 3 * g + 1 <= n
  BY <1>0
<1>2. TripleOfText(left, t, g) = TripleOfBytes(s, g)
  BY <1>1, GroupsRead
<1>3. BytesOf(TripleOfBytes(s, g))[p + 1] = Octet(s, 3 * g + p + 1)
  <2> HIDE DEF g, p
  <2>1. CASE p = 0
    BY <1>1, <2>1, GroupIsTriple
  <2>2. CASE p = 1
    BY <1>1, <2>2, GroupIsTriple
  <2>3. CASE p = 2
    BY <1>1, <2>3, GroupIsTriple
  <2> QED BY <1>1, <2>1, <2>2, <2>3
<1>4. Octet(s, j) = s[j]
  BY <1>0 DEF Octet
<1> QED BY <1>1, <1>2, <1>3, <1>4

\* What is decoded is bytes, whatever malloc returned.
LEMMA DecodedIsBytes ==
  ASSUME NEW left \in Leftovers(Byte), NEW t \in Text, t # <<>>, Decodable(t),
         NEW j \in 1 .. DecodedLength(t)
  PROVE  BytesOf(TripleOfText(left, t, (j - 1) \div 3))[((j - 1) % 3) + 1] \in Byte
<1> DEFINE g == (j - 1) \div 3
           p == (j - 1) % 3
           x == TripleOfText(left, t, g)
<1>1. Len(t) \in Nat /\ DecodedLength(t) \in Int /\ DecodedLength(t) <= 3 * (Len(t) \div 4)
      /\ Len(t) = 4 * (Len(t) \div 4) /\ Len(t) \div 4 \in Nat
  BY DEF DecodedLength, Decodable, Text
<1>2. g \in Nat /\ p \in 0 .. 2 /\ 4 * g + 4 <= Len(t)
  BY <1>1
<1>3. ASSUME NEW k \in 1 .. Len(t)
      PROVE  Sextet(left, t, k) \in Byte
  <2>1. t[k] \in Letter \cup {Pad, Plus, Slash}
    BY DEF Text
  <2>2. t[k] \in {Plus, Slash} => left[t[k]] \in Byte
    BY DEF Leftovers
  <2>3. 0 \in Byte /\ \A c \in Letter : c \in Byte
    BY SMT DEF Byte, Letter
  <2>4. CASE t[k] = Pad
    <3>1. Pad \notin {Plus, Slash}
      BY SMT DEF Pad, Plus, Slash
    <3>2. Sextet(left, t, k) = 0
      BY <2>4, <3>1, Zenon DEF Sextet
    <3> QED BY <2>3, <3>2
  <2>5. CASE t[k] \in {Plus, Slash}
    <3>1. t[k] # Pad
      BY <2>5 DEF Pad, Plus, Slash
    <3>2. Sextet(left, t, k) = left[t[k]]
      BY <2>5, <3>1, Zenon DEF Sextet
    <3> QED BY <2>2, <2>5, <3>2
  <2>6. CASE t[k] \in Letter
    <3>1. Sextet(left, t, k) = t[k]
      BY <2>6, LetterIsNoPad, Zenon DEF Sextet
    <3> QED BY <2>3, <2>6, <3>1
  <2> QED BY <2>1, <2>4, <2>5, <2>6
<1>4. x \in Int
  <2>1. /\ Sextet(left, t, 4 * g + 1) \in Int /\ Sextet(left, t, 4 * g + 2) \in Int
        /\ Sextet(left, t, 4 * g + 3) \in Int /\ Sextet(left, t, 4 * g + 4) \in Int
    <3>1. /\ 4 * g + 1 \in 1 .. Len(t) /\ 4 * g + 2 \in 1 .. Len(t)
          /\ 4 * g + 3 \in 1 .. Len(t) /\ 4 * g + 4 \in 1 .. Len(t)
      BY <1>1, <1>2
    <3>2. \A c \in Byte : c \in Int
      BY DEF Byte
    <3> HIDE DEF g
    <3> QED BY <3>1, <3>2, <1>3
  <2> HIDE DEF g
  <2> QED BY <2>1 DEF TripleOfText
<1> HIDE DEF x, g, p
<1>5. /\ (x \div 65536) % 256 \in Byte /\ (x \div 256) % 256 \in Byte
      /\ x % 256 \in Byte
  BY <1>4, SMT DEF Byte
<1>6. BytesOf(x)[p + 1] \in Byte
  BY <1>2, <1>5 DEF BytesOf
<1> QED BY <1>6 DEF x, g, p

\* What a server writes is text; it is Padded but for two letters.
LEMMA StandardText ==
  ASSUME NEW s \in Seq(Byte)
  PROVE  /\ Standard(s) \in Text /\ Len(Standard(s)) = EncodedLength(Len(s))
         /\ \A k \in 1 .. Len(Standard(s)) :
              /\ Standard(s)[k] = Pad <=> Padded(s)[k] = Pad
              /\ Padded(s)[k] \notin {62, 63} => Standard(s)[k] = Padded(s)[k]
<1> DEFINE E == EncodedLength(Len(s))
<1>1. E \in Nat /\ DOMAIN Padded(s) = 1 .. E
  BY PaddedLength
<1>2. ASSUME NEW k \in 1 .. E
      PROVE  /\ Standard(s)[k] \in Letter \cup {Pad, Plus, Slash}
             /\ Standard(s)[k] = Pad <=> Padded(s)[k] = Pad
             /\ Padded(s)[k] \notin {62, 63} => Standard(s)[k] = Padded(s)[k]
  <2> DEFINE c == Padded(s)[k]
  <2>1. c \in Letter \cup {Pad}
    BY <1>1, PaddedLetters
  <2>2. Standard(s)[k] = CASE c = 62 -> Plus [] c = 63 -> Slash [] OTHER -> c
    BY <1>1 DEF Standard
  <2> HIDE DEF c
  <2>3. 62 # 63 /\ Pad \notin {62, 63} /\ Pad \notin {Plus, Slash}
    BY SMT DEF Pad, Plus, Slash
  <2>4. CASE c = 62
    <3>1. Standard(s)[k] = Plus
      BY <2>2, <2>3, <2>4, Zenon
    <3> QED BY <2>3, <2>4, <3>1 DEF c
  <2>5. CASE c = 63
    <3>1. Standard(s)[k] = Slash
      BY <2>2, <2>3, <2>5, Zenon
    <3> QED BY <2>3, <2>5, <3>1 DEF c
  <2>6. CASE c \notin {62, 63}
    <3>1. Standard(s)[k] = c
      BY <2>2, <2>6, Zenon
    <3> QED BY <2>1, <3>1 DEF c
  <2> QED BY <2>4, <2>5, <2>6
<1>3. DOMAIN Standard(s) = 1 .. E /\ Standard(s) \in [1 .. E -> Letter \cup {Pad, Plus, Slash}]
  <2>1. Standard(s) = [k \in 1 .. E |-> Standard(s)[k]]
    BY <1>1 DEF Standard
  <2> QED BY <1>2, <2>1
<1>4. Standard(s) \in Text /\ Len(Standard(s)) = E
  BY <1>1, <1>3 DEF Text
<1> QED BY <1>2, <1>4

\* Three ASCII characters, the last none of '>', '?', '~' and DEL, are written
\* without the two letters.
LEMMA AsciiSextets ==
  ASSUME NEW s, NEW g,
         Octet(s, 3 * g + 1) \in 0 .. 127,
         Octet(s, 3 * g + 2) \in 0 .. 127,
         Octet(s, 3 * g + 3) \in (0 .. 127) \ {62, 63, 126, 127}
  PROVE  \A p \in 1 .. 4 : Sextets(TripleOfBytes(s, g))[p] \notin {62, 63}
<1> DEFINE a == Octet(s, 3 * g + 1)
           b == Octet(s, 3 * g + 2)
           c == Octet(s, 3 * g + 3)
           t == TripleOfBytes(s, g)
<1>b. a \in 0 .. 127 /\ b \in 0 .. 127 /\ c \in 0 .. 127 /\ c \notin {62, 63, 126, 127}
  OBVIOUS
<1>a. t = a * 65536 + b * 256 + c
  BY DEF TripleOfBytes
<1> HIDE DEF a, b, c, t
<1> USE <1>a, <1>b
<1>1. (t \div 262144) % 64 <= 31
  <2>1. t \div 262144 \in 0 .. 31
    BY SMT
  <2> QED BY <2>1
<1>2. (t \div 4096) % 64 <= 55
  <2> DEFINE x == b \div 16
             y == a \div 4
             z == a % 4
  <2>1. x \in 0 .. 7 /\ t \div 4096 = 16 * a + x
    BY SMT
  <2>2. y \in Nat /\ z \in 0 .. 3 /\ a = 4 * y + z
    BY SMT
  <2> HIDE DEF x, y, z
  <2>3. (16 * a + x) % 64 = 16 * z + x
    BY <2>1, <2>2, SMT
  <2> QED BY <2>1, <2>2, <2>3
<1>3. (t \div 64) % 64 <= 61
  <2> DEFINE x == c \div 64
             y == b \div 16
             z == b % 16
             w == 1024 * a + 4 * b + x
  <2>1. x \in 0 .. 1 /\ t \div 64 = w
    BY SMT
  <2>2. y \in Nat /\ z \in 0 .. 15 /\ b = 16 * y + z
    BY SMT
  <2> HIDE DEF x, y, z
  <2>3. w % 64 = 4 * z + x
    BY <2>1, <2>2, SMT
  <2>4. 4 * z + x <= 61
    BY <2>1, <2>2, SMT
  <2> HIDE DEF w
  <2>5. (t \div 64) % 64 = w % 64
    BY <2>1
  <2> QED BY <2>3, <2>4, <2>5
<1>4. t % 64 \notin {62, 63}
  <2>1. t % 64 = c % 64
    BY SMT
  <2>2. c % 64 \notin {62, 63}
    BY SMT
  <2> QED BY <2>1, <2>2
<1>5. /\ Sextets(t)[1] = (t \div 262144) % 64 /\ Sextets(t)[2] = (t \div 4096) % 64
      /\ Sextets(t)[3] = (t \div 64) % 64 /\ Sextets(t)[4] = t % 64
  BY SMT DEF Sextets
<1>6. t \in Nat
  OBVIOUS
<1>7. /\ Sextets(t)[1] \in Int /\ Sextets(t)[2] \in Int /\ Sextets(t)[3] \in Int
  BY <1>5, <1>6
<1>8. /\ Sextets(t)[1] \notin {62, 63} /\ Sextets(t)[2] \notin {62, 63}
      /\ Sextets(t)[3] \notin {62, 63} /\ Sextets(t)[4] \notin {62, 63}
  BY <1>1, <1>2, <1>3, <1>4, <1>5, <1>7
<1>9. \A p \in 1 .. 4 : p = 1 \/ p = 2 \/ p = 3 \/ p = 4
  OBVIOUS
<1> QED BY <1>8, <1>9 DEF t

-----------------------------------------------------------------------------
(* The theorems                                                            *)

(* Decoder and encoding_table agree: a text in the program's own letters,  *)
(* '-' and '_' among them, is decoded to the bytes it was written for,     *)
(* byte by byte and with its length, whatever malloc left in the table.    *)
THEOREM DecodeInvertsPadded ==
  ASSUME NEW s \in Seq(Byte), s # <<>>, NEW left
  PROVE  Decodable(Padded(s)) /\ base64_decode(left, Padded(s)) = s
<1>1. Decodable(Padded(s)) /\ DecodedLength(Padded(s)) = Len(s)
  BY LengthRead
<1>2. ASSUME NEW j \in 1 .. Len(s)
      PROVE  BytesOf(TripleOfText(left, Padded(s), (j - 1) \div 3))[((j - 1) % 3) + 1] = s[j]
  <2>1. Agrees(Padded(s), s, (j - 1) \div 3)
    BY DEF Agrees
  <2> QED BY <2>1, ByteRead
<1>3. base64_decode(left, Padded(s)) = [j \in 1 .. Len(s) |-> s[j]]
  BY <1>1, <1>2 DEF base64_decode
<1> QED BY <1>1, <1>3

(* What a network server writes in standard base64 is decoded to as many   *)
(* bytes as were sent, and to those that were sent, but in the groups with *)
(* '+' or '/': what malloc left in the table for the two spoils no other   *)
(* group (base64.c:19 and 81).                                             *)
THEOREM DecodeReadsStandard ==
  ASSUME NEW s \in Seq(Byte), s # <<>>, NEW left \in Leftovers(Byte)
  PROVE  Decodable(Standard(s)) /\ Reads(base64_decode(left, Standard(s)), s)
<1> DEFINE t == Standard(s)
<1>1. /\ t \in Text /\ Len(t) = EncodedLength(Len(s)) /\ Len(t) = Len(Padded(s))
      /\ \A k \in 1 .. Len(t) : /\ t[k] = Pad <=> Padded(s)[k] = Pad
                                /\ Padded(s)[k] \notin {62, 63} => t[k] = Padded(s)[k]
  BY StandardText, PaddedLength
<1>2. Len(s) \in Nat \ {0} /\ DOMAIN s = 1 .. Len(s)
  OBVIOUS
<1>3. Len(t) \in Nat /\ Len(t) >= 4 /\ \A j \in 1 .. Len(s) : 4 * ((j - 1) \div 3) + 4 <= Len(t)
  BY <1>1, <1>2 DEF EncodedLength
<1> HIDE DEF t
<1>4. Decodable(t) /\ DecodedLength(t) = Len(s)
  <2>1. \A k \in 1 .. Len(t) : t[k] = Pad <=> Padded(s)[k] = Pad
    BY <1>1
  <2> QED BY <1>1, <2>1, LengthRead
<1>5. ASSUME NEW j \in DOMAIN s, Unharmed(s, j)
      PROVE  base64_decode(left, t)[j] = s[j]
  <2> DEFINE g == (j - 1) \div 3
  <2>1. g \in Nat /\ 4 * g + 4 <= Len(t)
    <3>1. j \in 1 .. Len(s)
      BY <1>2
    <3>2. g \in Nat
      BY <1>2, <3>1
    <3> QED BY <1>3, <3>1, <3>2
  <2>2. ASSUME NEW p \in 0 .. 3
        PROVE  t[4 * g + p + 1] = Padded(s)[4 * g + p + 1]
    <3>1. p + 1 \in 1 .. 4 /\ 4 * g + p + 1 = 4 * g + (p + 1)
      BY <2>1
    <3>2. Padded(s)[4 * g + (p + 1)] \notin {62, 63}
      BY <1>5, <3>1 DEF Unharmed
    <3>3. 4 * g + p + 1 \in 1 .. Len(t)
      BY <1>3, <2>1
    <3> DEFINE k == 4 * g + p + 1
    <3>4. k \in 1 .. Len(t) /\ Padded(s)[k] \notin {62, 63}
      BY <3>1, <3>2, <3>3
    <3> HIDE DEF k
    <3>5. t[k] = Padded(s)[k]
      BY <1>1, <3>4
    <3> QED BY <3>5 DEF k
  <2>3. Agrees(t, s, g)
    BY <2>2 DEF Agrees
  <2> QED BY <1>2, <1>4, <2>3, ByteRead DEF base64_decode
<1>6. base64_decode(left, t) \in [DOMAIN s -> Byte]
  <2>1. ASSUME NEW j \in 1 .. DecodedLength(t)
        PROVE  BytesOf(TripleOfText(left, t, (j - 1) \div 3))[((j - 1) % 3) + 1] \in Byte
    <3>1. t # <<>>
      BY <1>1, <1>3
    <3> QED BY <1>1, <1>4, <3>1, DecodedIsBytes
  <2> QED BY <1>2, <1>4, <2>1 DEF base64_decode
<1> QED BY <1>4, <1>5, <1>6 DEF Reads, t

\* A text that is clear is read as it was sent.
LEMMA ClearIsRead ==
  ASSUME NEW s \in Seq(Byte), Clear(s), NEW bytes, Reads(bytes, s)
  PROVE  bytes = s
<1>1. bytes \in [DOMAIN s -> Byte] /\ \A j \in DOMAIN s : bytes[j] = s[j]
  BY DEF Reads, Clear
<1>2. s \in [DOMAIN s -> Byte]
  OBVIOUS
<1> QED BY <1>1, <1>2

(* ASCII texts are decoded as they were sent, if no third character is     *)
(* '>', '?', '~' or DEL: those of the firmware are such texts.             *)
THEOREM AsciiIsClear ==
  ASSUME NEW s \in Seq(0 .. 127),
         \A i \in DOMAIN s : i % 3 = 0 => s[i] \notin {62, 63, 126, 127}
  PROVE  Clear(s)
<1>1. s \in Seq(Byte) /\ Len(s) \in Nat /\ DOMAIN s = 1 .. Len(s)
  <2>1. Seq(0 .. 127) \subseteq Seq(Byte)
    BY DEF Byte
  <2> QED BY <2>1
<1> SUFFICES ASSUME NEW j \in DOMAIN s, NEW p \in 1 .. 4
             PROVE  Padded(s)[4 * ((j - 1) \div 3) + p] \notin {62, 63}
  BY DEF Clear, Unharmed
<1> DEFINE g == (j - 1) \div 3
           k == 4 * g + p
           E == EncodedLength(Len(s))
<1>2. g \in Nat /\ 3 * g + 1 <= Len(s)
  BY <1>1
<1>3. k \in 1 .. E /\ (k - 1) \div 4 = g /\ ((k - 1) % 4) + 1 = p
  <2>1. E \in Nat /\ 4 * g + 4 <= E
    BY <1>1, <1>2 DEF EncodedLength
  <2>2. k \in 1 .. E
    <3> HIDE DEF g, E
    <3> QED BY <1>2, <2>1
  <2>3. (k - 1) \div 4 = g /\ (k - 1) % 4 = p - 1
    <3> HIDE DEF g, E
    <3> QED BY <1>2
  <2> QED BY <2>2, <2>3
<1>4. Padded(s)[k] = IF k > E - Fillers(Len(s)) THEN Pad
                     ELSE Sextets(TripleOfBytes(s, g))[p]
  <2> HIDE DEF k, g
  <2> QED BY <1>3 DEF Padded
<1>5. ASSUME NEW i \in Nat \ {0}
      PROVE  Octet(s, i) \in 0 .. 127
  <2>1. CASE i <= Len(s)
    <3>1. s[i] \in 0 .. 127
      <4>1. i \in 1 .. Len(s)
        BY <1>1, <2>1
      <4> QED BY <4>1, ElementIn
    <3> QED BY <2>1, <3>1 DEF Octet
  <2>2. CASE ~(i <= Len(s))
    BY <2>2 DEF Octet
  <2> QED BY <2>1, <2>2
<1>6. Octet(s, 3 * g + 3) \notin {62, 63, 126, 127}
  <2> DEFINE i == 3 * g + 3
  <2>1. i \in Nat \ {0} /\ i % 3 = 0
    BY <1>2
  <2> HIDE DEF i
  <2>2. CASE i <= Len(s)
    <3>1. s[i] \notin {62, 63, 126, 127}
      BY <1>1, <2>1, <2>2
    <3> QED BY <2>2, <3>1 DEF Octet, i
  <2>3. CASE ~(i <= Len(s))
    BY <2>3 DEF Octet, i
  <2> QED BY <2>2, <2>3
<1>7. Sextets(TripleOfBytes(s, g))[p] \notin {62, 63}
  <2> HIDE DEF g
  <2>1. /\ Octet(s, 3 * g + 1) \in 0 .. 127 /\ Octet(s, 3 * g + 2) \in 0 .. 127
        /\ Octet(s, 3 * g + 3) \in 0 .. 127
    BY <1>2, <1>5
  <2> QED BY <1>6, <2>1, AsciiSextets
<1> QED BY <1>4, <1>7 DEF Pad

(* base64_encode returns the whole text only for the lengths that leave    *)
(* one byte over: the place of its terminator, two before and mod_table    *)
(* after the end, cuts letters or padding off every other text             *)
(* (base64.c:57).                                                          *)
THEOREM EncodeCutsTwoOfThree ==
  ASSUME NEW s \in Seq(Byte), s # <<>>
  PROVE  base64_encode(s) = Padded(s) <=> Len(s) % 3 = 1
<1> DEFINE n == Len(s)
           E == EncodedLength(n)
<1>1. n \in Nat /\ n >= 1 /\ E \in Nat /\ E >= 4
  BY PaddedLength DEF EncodedLength
<1>2. Fillers(n) \in 0 .. 2 /\ (Fillers(n) = 2 <=> n % 3 = 1)
  BY <1>1 DEF Fillers, mod_table
<1>3. Padded(s) \in Seq(Letter \cup {Pad}) /\ Len(Padded(s)) = E
  BY PaddedLetters, PaddedLength
<1> DEFINE last == E - 2 + Fillers(n)
<1>4. last \in 1 .. E /\ (last = E <=> n % 3 = 1)
  BY <1>1, <1>2
<1>5. Len(SubSeq(Padded(s), 1, last)) = last
  BY <1>1, <1>3, <1>4
<1>6. ASSUME last = E
      PROVE  SubSeq(Padded(s), 1, last) = Padded(s)
  BY <1>1, <1>3, <1>6
<1> HIDE DEF last
<1> QED BY <1>3, <1>4, <1>5, <1>6 DEF base64_encode, last

=============================================================================
