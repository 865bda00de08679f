------------------------------- MODULE Base64 -------------------------------
(***************************************************************************)
(* src/host/apps/home_security/base64.c.  A letter is its place in         *)
(* encoding_table, so that decoding_table is the identity on letters; Pad  *)
(* is '='.  The last two letters are '-' and '_'.  The standard base64 of  *)
(* a network server has '+' and '/' in their places: for these two,        *)
(* decoding_table holds whatever malloc returned, and that is a parameter  *)
(* of the decoder here.  A server writes no other character.               *)
(*                                                                         *)
(* Each loop of the code treats one group of three bytes, or four letters, *)
(* per turn and keeps nothing from turn to turn: it is a function that     *)
(* says what stands at each place of the result.                           *)
(***************************************************************************)
EXTENDS Integers, Sequences

Byte   == 0 .. 255
Letter == 0 .. 63
Pad    == 64
Plus   == 65
Slash  == 66
Text   == Seq(Letter \cup {Pad, Plus, Slash})

-----------------------------------------------------------------------------
(* base64_encode                                                           *)

Octet(s, i) == IF i <= Len(s) THEN s[i] ELSE 0

\* The three bytes of group g, counted from 0, as one number.
TripleOfBytes(s, g) ==
  Octet(s, 3 * g + 1) * 65536 + Octet(s, 3 * g + 2) * 256 + Octet(s, 3 * g + 3)

\* The four letters of a group, in their order.
Sextets(triple) ==
  <<(triple \div 262144) % 64, (triple \div 4096) % 64, (triple \div 64) % 64, triple % 64>>

\* How many letters of the last group only fill it up, by the length modulo 3.
mod_table == <<0, 2, 1>>

Fillers(n) == mod_table[(n % 3) + 1]

EncodedLength(n) == 4 * ((n + 2) \div 3)

\* The text after both loops of base64_encode, in the program's own letters.
Padded(s) ==
  [k \in 1 .. EncodedLength(Len(s)) |->
     IF k > EncodedLength(Len(s)) - Fillers(Len(s)) THEN Pad
     ELSE Sextets(TripleOfBytes(s, (k - 1) \div 4))[((k - 1) % 4) + 1]]

\* What base64_encode returns: the terminator is written mod_table - 2 places
\* after the end of that text.  The empty input, for which the unsigned length
\* wraps, is left out.
base64_encode(s) ==
  SubSeq(Padded(s), 1, EncodedLength(Len(s)) - 2 + Fillers(Len(s)))

\* The same bytes as a network server writes them, in standard base64.
Standard(s) ==
  [k \in DOMAIN Padded(s) |-> CASE Padded(s)[k] = 62 -> Plus
                               [] Padded(s)[k] = 63 -> Slash
                               [] OTHER -> Padded(s)[k]]

-----------------------------------------------------------------------------
(* base64_decode, for a text that is not empty                             *)

\* What malloc may have left where build_decoding_table writes nothing.
Leftovers(junk) == [{Plus, Slash} -> junk]

\* Anything else is answered with NULL.
Decodable(t) == Len(t) % 4 = 0

DecodedLength(t) ==
  (Len(t) \div 4) * 3 - (IF t[Len(t)] = Pad THEN 1 ELSE 0)
                      - (IF t[Len(t) - 1] = Pad THEN 1 ELSE 0)

\* decoding_table, over what malloc left in it.
Sextet(left, t, i) ==
  CASE t[i] = Pad -> 0
    [] t[i] \in {Plus, Slash} -> left[t[i]]
    [] OTHER -> t[i]

\* The four characters of group g, counted from 0, as one number.
TripleOfText(left, t, g) ==
  Sextet(left, t, 4 * g + 1) * 262144 + Sextet(left, t, 4 * g + 2) * 4096
    + Sextet(left, t, 4 * g + 3) * 64 + Sextet(left, t, 4 * g + 4)

BytesOf(triple) == <<(triple \div 65536) % 256, (triple \div 256) % 256, triple % 256>>

base64_decode(left, t) ==
  [j \in 1 .. DecodedLength(t) |->
     BytesOf(TripleOfText(left, t, (j - 1) \div 3))[((j - 1) % 3) + 1]]

-----------------------------------------------------------------------------
(* What may be relied on                                                   *)

\* The group of byte j has no '+' and no '/' in standard base64.
Unharmed(s, j) ==
  \A p \in 1 .. 4 : Padded(s)[4 * ((j - 1) \div 3) + p] \notin {62, 63}

\* No byte is in such a group.
Clear(s) == \A j \in DOMAIN s : Unharmed(s, j)

\* As many bytes as s has, and those of s wherever its text is unharmed.
Reads(bytes, s) ==
  /\ bytes \in [DOMAIN s -> Byte]
  /\ \A j \in DOMAIN s : Unharmed(s, j) => bytes[j] = s[j]

=============================================================================
