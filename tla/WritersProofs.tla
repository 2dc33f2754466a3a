---------------------------- MODULE WritersProofs ----------------------------
(***************************************************************************)
(* The two writers of a message file.  The encoded lines at the head of the *)
(* metadata stay apart, leave nothing of the buffer unwritten and read back *)
(* as their bytes, whatever their number and length; the trace header       *)
(* unfolds to its parts and folds in time, whatever the hostname, the       *)
(* limits and the memory that its counter starts from.                      *)
(***************************************************************************)
EXTENDS Writers, SetInduction, FiniteSetTheorems

-----------------------------------------------------------------------------
(* Arithmetic *)

(* The room for whole groups of three bytes, and for what follows them.     *)
LEMMA Room ==
  ASSUME NEW g \in Nat, NEW n \in Nat
  PROVE  /\ n = 3 * g => EncodedLen(n) = 4 * g
         /\ n > 3 * g => EncodedLen(n) >= 4 * g + 4
         /\ n \in {3 * g + 1, 3 * g + 2} => EncodedLen(n) = 4 * g + 4
  BY DEF EncodedLen

(* The room of a line is a number.                                          *)
LEMMA RoomIsNat == ASSUME NEW n \in Nat PROVE EncodedLen(n) \in Nat
  BY DEF EncodedLen

(* Places of earlier lines are below those of later ones.                   *)
LEMMA Monotone ==
  ASSUME NEW a \in Nat, NEW b \in Nat, NEW c \in Nat, a <= b
  PROVE  c * a <= c * b
  OBVIOUS

(* Two items more.                                                          *)
LEMMA Distributes ==
  ASSUME NEW a \in Nat, NEW c \in Nat
  PROVE  c * a \in Nat /\ c * a + 2 * a = (c + 2) * a
  OBVIOUS

(* One item less.                                                           *)
LEMMA Successor ==
  ASSUME NEW a \in Nat, a >= 1, NEW c \in Nat
  PROVE  c * (a - 1) \in Nat /\ c * a = c * (a - 1) + c
<1>1. a - 1 \in Nat
  OBVIOUS
<1>2. c * (a - 1) \in Nat
  BY <1>1
<1>3. c * a = c * (a - 1) + c
  OBVIOUS
<1>4. QED
  BY <1>2, <1>3

(* base64_encode's masks: six bits each.                                    *)
LEMMA Sextets ==
  ASSUME NEW a \in 0 .. 255, NEW b \in 0 .. 255
  PROVE  /\ First(a) \in Alphabet
         /\ Second(a, b) \in Alphabet
         /\ Third(a, b) \in Alphabet
         /\ Fourth(a) \in Alphabet
  BY DEF First, Second, Third, Fourth, Alphabet

-----------------------------------------------------------------------------
(* The bits of a group *)

(* Halving loses the last bit.                                              *)
LEMMA Halve ==
  ASSUME NEW a \in Nat
  PROVE  /\ a = 2 * (a \div 2) + (a % 2)
         /\ a \div 2 = 2 * (a \div 4) + ((a \div 2) % 2)
         /\ a \div 4 = 2 * (a \div 8) + ((a \div 4) % 2)
         /\ a \div 8 = 2 * (a \div 16) + ((a \div 8) % 2)
         /\ a \div 16 = 2 * (a \div 32) + ((a \div 16) % 2)
         /\ a \div 32 = 2 * (a \div 64) + ((a \div 32) % 2)
         /\ a \div 64 = 2 * (a \div 128) + ((a \div 64) % 2)
  OBVIOUS

(* The k-th bit of a byte, counted from the left as Bit does.               *)
BitIn(a, k) == (a \div Weight[k + 1]) % 2

(* The bits of a byte as Halve names them.                                  *)
LEMMA BitsIn ==
  ASSUME NEW a \in 0 .. 255
  PROVE  /\ BitIn(a, 0) = a \div 128 /\ BitIn(a, 1) = (a \div 64) % 2
         /\ BitIn(a, 2) = (a \div 32) % 2 /\ BitIn(a, 3) = (a \div 16) % 2
         /\ BitIn(a, 4) = (a \div 8) % 2 /\ BitIn(a, 5) = (a \div 4) % 2
         /\ BitIn(a, 6) = (a \div 2) % 2 /\ BitIn(a, 7) = a % 2
         /\ \A k \in 0 .. 7 : BitIn(a, k) \in 0 .. 1
<1>1. (a \div 128) % 2 = a \div 128 /\ a \div 1 = a
  OBVIOUS
<1>2. \A k \in 0 .. 7 : BitIn(a, k) \in 0 .. 1
  BY DEF BitIn, Weight
<1>3. QED
  BY <1>1, <1>2 DEF BitIn, Weight

(* What the masks and shifts of base64_encode keep of a byte, bit by bit.   *)
LEMMA Sums ==
  ASSUME NEW a \in 0 .. 255
  PROVE  /\ 32 * BitIn(a, 0) + 16 * BitIn(a, 1) + 8 * BitIn(a, 2)
              + 4 * BitIn(a, 3) + 2 * BitIn(a, 4) + BitIn(a, 5) = a \div 4
         /\ 2 * BitIn(a, 6) + BitIn(a, 7) = (a % 4)
         /\ 8 * BitIn(a, 0) + 4 * BitIn(a, 1) + 2 * BitIn(a, 2) + BitIn(a, 3) = a \div 16
         /\ 8 * BitIn(a, 4) + 4 * BitIn(a, 5) + 2 * BitIn(a, 6) + BitIn(a, 7) = (a % 16)
         /\ 2 * BitIn(a, 0) + BitIn(a, 1) = a \div 64
         /\ 32 * BitIn(a, 2) + 16 * BitIn(a, 3) + 8 * BitIn(a, 4)
              + 4 * BitIn(a, 5) + 2 * BitIn(a, 6) + BitIn(a, 7) = (a % 64)
<1>0. PICK h2, h4, h8, h16, h32, h64, h128, r4, r16, r64 \in Nat :
        /\ h2 = a \div 2 /\ h4 = a \div 4 /\ h8 = a \div 8 /\ h16 = a \div 16
        /\ h32 = a \div 32 /\ h64 = a \div 64 /\ h128 = a \div 128
        /\ r4 = (a % 4) /\ r16 = (a % 16) /\ r64 = (a % 64)
  OBVIOUS
<1>1. a = 4 * h4 + r4 /\ a = 16 * h16 + r16 /\ a = 64 * h64 + r64
  BY <1>0
<1>2. /\ h128 = BitIn(a, 0)
      /\ h64 = 2 * h128 + BitIn(a, 1)
      /\ h32 = 2 * h64 + BitIn(a, 2)
      /\ h16 = 2 * h32 + BitIn(a, 3)
      /\ h8 = 2 * h16 + BitIn(a, 4)
      /\ h4 = 2 * h8 + BitIn(a, 5)
      /\ h2 = 2 * h4 + BitIn(a, 6)
      /\ a = 2 * h2 + BitIn(a, 7)
  <2>1. a \in Nat
    OBVIOUS
  <2>2. /\ h64 = 2 * h128 + (h64 % 2) /\ h32 = 2 * h64 + (h32 % 2)
        /\ h16 = 2 * h32 + (h16 % 2) /\ h8 = 2 * h16 + (h8 % 2)
        /\ h4 = 2 * h8 + (h4 % 2) /\ h2 = 2 * h4 + (h2 % 2) /\ a = 2 * h2 + (a % 2)
    BY <1>0, <2>1, Halve
  <2>3. /\ h128 = BitIn(a, 0) /\ BitIn(a, 1) = h64 % 2 /\ BitIn(a, 2) = h32 % 2
        /\ BitIn(a, 3) = h16 % 2 /\ BitIn(a, 4) = h8 % 2 /\ BitIn(a, 5) = h4 % 2
        /\ BitIn(a, 6) = h2 % 2 /\ BitIn(a, 7) = a % 2
    BY <1>0, BitsIn
  <2>4. QED
    BY <2>2, <2>3
<1>3. \A k \in 0 .. 7 : BitIn(a, k) \in Nat
  BY BitsIn
<1>4. PICK b0, b1, b2, b3, b4, b5, b6, b7 \in Nat :
        /\ BitIn(a, 0) = b0 /\ BitIn(a, 1) = b1 /\ BitIn(a, 2) = b2 /\ BitIn(a, 3) = b3
        /\ BitIn(a, 4) = b4 /\ BitIn(a, 5) = b5 /\ BitIn(a, 6) = b6 /\ BitIn(a, 7) = b7
  <2>1. \A k \in 0 .. 7 : \E b \in Nat : BitIn(a, k) = b
    BY <1>3
  <2>2. /\ 0 \in 0 .. 7 /\ 1 \in 0 .. 7 /\ 2 \in 0 .. 7 /\ 3 \in 0 .. 7
        /\ 4 \in 0 .. 7 /\ 5 \in 0 .. 7 /\ 6 \in 0 .. 7 /\ 7 \in 0 .. 7
    OBVIOUS
  <2>3. QED
    BY <2>1, <2>2, Zenon
<1>5. /\ h128 = b0 /\ h64 = 2 * h128 + b1 /\ h32 = 2 * h64 + b2 /\ h16 = 2 * h32 + b3
      /\ h8 = 2 * h16 + b4 /\ h4 = 2 * h8 + b5 /\ h2 = 2 * h4 + b6 /\ a = 2 * h2 + b7
  BY <1>2, <1>4
<1>6. /\ 32 * b0 + 16 * b1 + 8 * b2 + 4 * b3 + 2 * b4 + b5 = h4
      /\ 2 * b6 + b7 = r4
      /\ 8 * b0 + 4 * b1 + 2 * b2 + b3 = h16
      /\ 8 * b4 + 4 * b5 + 2 * b6 + b7 = r16
      /\ 2 * b0 + b1 = h64
      /\ 32 * b2 + 16 * b3 + 8 * b4 + 4 * b5 + 2 * b6 + b7 = r64
  BY <1>1, <1>5
<1>7. QED
  BY <1>0, <1>4, <1>6

(* The byte at a place of the text, and zeros behind it.                    *)
At(text, p) == IF p < Len(text) THEN text[p + 1] ELSE 0

(* A sequence over a set, element by element.                               *)
LEMMA Element ==
  ASSUME NEW B, NEW text \in Seq(B)
  PROVE  Len(text) \in Nat /\ \A i \in 1 .. Len(text) : text[i] \in B
  OBVIOUS

(* What is at a place is a byte.                                            *)
LEMMA AtIsByte ==
  ASSUME NEW text \in Seq(0 .. 255), NEW p \in Nat
  PROVE  At(text, p) \in 0 .. 255
<1>1. CASE p < Len(text)
  <2>1. Len(text) \in Nat /\ \A i \in 1 .. Len(text) : text[i] \in 0 .. 255
    BY Element
  <2>2. text[p + 1] \in 0 .. 255
    BY <1>1, <2>1
  <2>3. QED
    BY <1>1, <2>2 DEF At
<1>2. CASE ~(p < Len(text))
  BY <1>2 DEF At
<1>3. QED
  BY <1>1, <1>2

(* The bits of a text are those of its bytes.                               *)
LEMMA BitOf ==
  ASSUME NEW text \in Seq(0 .. 255), NEW p \in Nat, NEW k \in 0 .. 7
  PROVE  Bit(text, 8 * p + k) = BitIn(At(text, p), k)
<1>1. (8 * p + k) \div 8 = p /\ (8 * p + k) % 8 = k
  OBVIOUS
<1>2. Len(text) \in Nat /\ (8 * p + k < 8 * Len(text) <=> p < Len(text))
  OBVIOUS
<1>3. CASE p < Len(text)
  BY <1>1, <1>2, <1>3 DEF Bit, BitIn, At
<1>4. CASE ~(p < Len(text))
  <2>1. (0 \div Weight[k + 1]) % 2 = 0
    BY DEF Weight
  <2>2. QED
    BY <1>1, <1>2, <1>4, <2>1 DEF Bit, BitIn, At
<1>5. QED
  BY <1>3, <1>4

(* A group of three bytes is what base64_encode makes of it, also one that  *)
(* the text ends in.                                                        *)
LEMMA SextetOf ==
  ASSUME NEW text \in Seq(0 .. 255), NEW g \in Nat
  PROVE  /\ Sextet(text, 4 * g) =
              IF 3 * g < Len(text) THEN First(At(text, 3 * g)) ELSE Pad
         /\ Sextet(text, 4 * g + 1) =
              IF 3 * g < Len(text) THEN Second(At(text, 3 * g), At(text, 3 * g + 1)) ELSE Pad
         /\ Sextet(text, 4 * g + 2) =
              IF 3 * g + 1 < Len(text) THEN Third(At(text, 3 * g + 1), At(text, 3 * g + 2)) ELSE Pad
         /\ Sextet(text, 4 * g + 3) =
              IF 3 * g + 2 < Len(text) THEN Fourth(At(text, 3 * g + 2)) ELSE Pad
<1> DEFINE a == At(text, 3 * g)
           b == At(text, 3 * g + 1)
           c == At(text, 3 * g + 2)
<1>1. a \in 0 .. 255 /\ b \in 0 .. 255 /\ c \in 0 .. 255
  BY AtIsByte
<1>2. ASSUME NEW k \in 0 .. 7
      PROVE  /\ Bit(text, 24 * g + k) = BitIn(a, k)
             /\ Bit(text, 24 * g + 8 + k) = BitIn(b, k)
             /\ Bit(text, 24 * g + 16 + k) = BitIn(c, k)
  <2>1. 8 * (3 * g) = 24 * g /\ 8 * (3 * g + 1) = 24 * g + 8 /\ 8 * (3 * g + 2) = 24 * g + 16
        /\ 3 * g \in Nat /\ 3 * g + 1 \in Nat /\ 3 * g + 2 \in Nat
    OBVIOUS
  <2>2. /\ Bit(text, 8 * (3 * g) + k) = BitIn(At(text, 3 * g), k)
        /\ Bit(text, 8 * (3 * g + 1) + k) = BitIn(At(text, 3 * g + 1), k)
        /\ Bit(text, 8 * (3 * g + 2) + k) = BitIn(At(text, 3 * g + 2), k)
    BY <2>1, BitOf
  <2>3. QED
    BY <2>1, <2>2
<1>3. Len(text) \in Nat
  OBVIOUS
<1> HIDE DEF a, b, c
<1>4. Sextet(text, 4 * g) = IF 3 * g < Len(text) THEN First(a) ELSE Pad
  <2>1. /\ Bit(text, 24 * g + 0) = BitIn(a, 0) /\ Bit(text, 24 * g + 1) = BitIn(a, 1)
        /\ Bit(text, 24 * g + 2) = BitIn(a, 2) /\ Bit(text, 24 * g + 3) = BitIn(a, 3)
        /\ Bit(text, 24 * g + 4) = BitIn(a, 4) /\ Bit(text, 24 * g + 5) = BitIn(a, 5)
    BY <1>2
  <2>2. 6 * (4 * g) = 24 * g + 0 /\ (24 * g + 0 >= 8 * Len(text) <=> ~(3 * g < Len(text)))
        /\ 24 * g + 0 + 1 = 24 * g + 1 /\ 24 * g + 0 + 2 = 24 * g + 2 /\ 24 * g + 0 + 3 = 24 * g + 3
        /\ 24 * g + 0 + 4 = 24 * g + 4 /\ 24 * g + 0 + 5 = 24 * g + 5
    BY <1>3
  <2>3. 32 * BitIn(a, 0) + 16 * BitIn(a, 1) + 8 * BitIn(a, 2)
          + 4 * BitIn(a, 3) + 2 * BitIn(a, 4) + BitIn(a, 5) = a \div 4
    BY <1>1, Sums
  <2>4. QED
    BY <2>1, <2>2, <2>3 DEF Sextet, First
<1>5. Sextet(text, 4 * g + 1) = IF 3 * g < Len(text) THEN Second(a, b) ELSE Pad
  <2>1. /\ Bit(text, 24 * g + 6) = BitIn(a, 6) /\ Bit(text, 24 * g + 7) = BitIn(a, 7)
        /\ Bit(text, 24 * g + 8 + 0) = BitIn(b, 0) /\ Bit(text, 24 * g + 8 + 1) = BitIn(b, 1)
        /\ Bit(text, 24 * g + 8 + 2) = BitIn(b, 2) /\ Bit(text, 24 * g + 8 + 3) = BitIn(b, 3)
    BY <1>2
  <2>2. 6 * (4 * g + 1) = 24 * g + 6 /\ (24 * g + 6 >= 8 * Len(text) <=> ~(3 * g < Len(text)))
        /\ 24 * g + 6 + 1 = 24 * g + 7 /\ 24 * g + 6 + 2 = 24 * g + 8 + 0 /\ 24 * g + 6 + 3 = 24 * g + 8 + 1
        /\ 24 * g + 6 + 4 = 24 * g + 8 + 2 /\ 24 * g + 6 + 5 = 24 * g + 8 + 3
    BY <1>3
  <2>3. 32 * BitIn(a, 6) + 16 * BitIn(a, 7) + 8 * BitIn(b, 0) + 4 * BitIn(b, 1) + 2 * BitIn(b, 2)
          + BitIn(b, 3) = (a % 4) * 16 + b \div 16
    <3>1. /\ \A k \in 0 .. 7 : BitIn(a, k) \in 0 .. 1 /\ BitIn(b, k) \in 0 .. 1
          /\ 2 * BitIn(a, 6) + BitIn(a, 7) = (a % 4)
          /\ 8 * BitIn(b, 0) + 4 * BitIn(b, 1) + 2 * BitIn(b, 2) + BitIn(b, 3) = b \div 16
      BY <1>1, Sums, BitsIn
    <3>2. QED
      BY <3>1
  <2>4. QED
    BY <2>1, <2>2, <2>3 DEF Sextet, Second
<1>6. Sextet(text, 4 * g + 2) = IF 3 * g + 1 < Len(text) THEN Third(b, c) ELSE Pad
  <2>1. /\ Bit(text, 24 * g + 8 + 4) = BitIn(b, 4) /\ Bit(text, 24 * g + 8 + 5) = BitIn(b, 5)
        /\ Bit(text, 24 * g + 8 + 6) = BitIn(b, 6) /\ Bit(text, 24 * g + 8 + 7) = BitIn(b, 7)
        /\ Bit(text, 24 * g + 16 + 0) = BitIn(c, 0) /\ Bit(text, 24 * g + 16 + 1) = BitIn(c, 1)
    BY <1>2
  <2>2. 6 * (4 * g + 2) = 24 * g + 8 + 4 /\ (24 * g + 8 + 4 >= 8 * Len(text) <=> ~(3 * g + 1 < Len(text)))
        /\ 24 * g + 8 + 4 + 1 = 24 * g + 8 + 5 /\ 24 * g + 8 + 4 + 2 = 24 * g + 8 + 6
        /\ 24 * g + 8 + 4 + 3 = 24 * g + 8 + 7
        /\ 24 * g + 8 + 4 + 4 = 24 * g + 16 + 0 /\ 24 * g + 8 + 4 + 5 = 24 * g + 16 + 1
    BY <1>3
  <2>3. 32 * BitIn(b, 4) + 16 * BitIn(b, 5) + 8 * BitIn(b, 6) + 4 * BitIn(b, 7) + 2 * BitIn(c, 0)
          + BitIn(c, 1) = (b % 16) * 4 + c \div 64
    <3>1. /\ \A k \in 0 .. 7 : BitIn(b, k) \in 0 .. 1 /\ BitIn(c, k) \in 0 .. 1
          /\ 8 * BitIn(b, 4) + 4 * BitIn(b, 5) + 2 * BitIn(b, 6) + BitIn(b, 7) = (b % 16)
          /\ 2 * BitIn(c, 0) + BitIn(c, 1) = c \div 64
      BY <1>1, Sums, BitsIn
    <3>2. QED
      BY <3>1
  <2>4. QED
    BY <2>1, <2>2, <2>3 DEF Sextet, Third
<1>7. Sextet(text, 4 * g + 3) = IF 3 * g + 2 < Len(text) THEN Fourth(c) ELSE Pad
  <2>1. /\ Bit(text, 24 * g + 16 + 2) = BitIn(c, 2) /\ Bit(text, 24 * g + 16 + 3) = BitIn(c, 3)
        /\ Bit(text, 24 * g + 16 + 4) = BitIn(c, 4) /\ Bit(text, 24 * g + 16 + 5) = BitIn(c, 5)
        /\ Bit(text, 24 * g + 16 + 6) = BitIn(c, 6) /\ Bit(text, 24 * g + 16 + 7) = BitIn(c, 7)
    BY <1>2
  <2>2. 6 * (4 * g + 3) = 24 * g + 16 + 2 /\ (24 * g + 16 + 2 >= 8 * Len(text) <=> ~(3 * g + 2 < Len(text)))
        /\ 24 * g + 16 + 2 + 1 = 24 * g + 16 + 3 /\ 24 * g + 16 + 2 + 2 = 24 * g + 16 + 4
        /\ 24 * g + 16 + 2 + 3 = 24 * g + 16 + 5
        /\ 24 * g + 16 + 2 + 4 = 24 * g + 16 + 6 /\ 24 * g + 16 + 2 + 5 = 24 * g + 16 + 7
    BY <1>3
  <2>3. 32 * BitIn(c, 2) + 16 * BitIn(c, 3) + 8 * BitIn(c, 4)
          + 4 * BitIn(c, 5) + 2 * BitIn(c, 6) + BitIn(c, 7) = (c % 64)
    BY <1>1, Sums
  <2>4. QED
    BY <2>1, <2>2, <2>3 DEF Sextet, Fourth
<1>8. QED
  BY <1>4, <1>5, <1>6, <1>7 DEF a, b, c

-----------------------------------------------------------------------------
(* The invariant *)

(* A line has been encoded in whole groups, or to its end, and fills its    *)
(* room then.                                                               *)
Aligned(g) == srcOffset = 3 * g /\ dstOffset = 4 * g /\ srcOffset + remaining = len

Finished == remaining = 0 /\ dstOffset = EncodedLen(len)

Encoding == line <= LineCount /\ (Finished \/ \E g \in Nat : Aligned(g))

(* All lines have been encoded.                                             *)
Encoded == line = LineCount + 1 /\ dstOffset = 0

(* Only terminators are missing before the place that is written next.      *)
Filled ==
  \A k \in 0 .. Size - 1 :
    k < Start + dstOffset => buffer[k] # Garbage \/ CRAt(k) \/ LFAt(k)

(* What has been written of the lines is their encoding.                    *)
Faithful ==
  \A i \in 1 .. LineCount, j \in 0 .. EncodedLen(len) - 1 :
    i < line \/ (i = line /\ j < dstOffset) =>
      buffer[Pitch * (i - 1) + j] = Sextet(lines[i], j)

LinesInv ==
  /\ TypeOK
  /\ pc = "encode" => Encoding
  /\ pc = "terminate" => Encoded
  /\ pc # "written" => Filled /\ Faithful
  /\ pc = "written" => line = LineCount + 1 /\ NothingLeaks /\ LinesAreEncoded

(* The line that is encoded has its room within the buffer.                 *)
LEMMA Places ==
  ASSUME TypeOK
  PROVE  /\ EncodedLen(len) \in Nat /\ Pitch \in Nat /\ Size \in Nat /\ Start \in Nat
         /\ Size = Pitch * LineCount
         /\ line <= LineCount => Start + Pitch <= Size
         /\ Pitch * line = Start + Pitch
<1>1. len \in Nat /\ line \in 1 .. LineCount + 1
  BY BytesAssumption DEF TypeOK
<1>2. EncodedLen(len) \in Nat
  BY <1>1, RoomIsNat
<1>3. Pitch \in Nat /\ Pitch = EncodedLen(len) + 2
  BY <1>2 DEF Pitch
<1>4. Size = Pitch * LineCount /\ Size \in Nat
  <2>1. Size = EncodedLen(len) * LineCount + 2 * LineCount
    BY DEF Size
  <2>2. /\ EncodedLen(len) * LineCount \in Nat
        /\ EncodedLen(len) * LineCount + 2 * LineCount = (EncodedLen(len) + 2) * LineCount
    BY <1>2, CountAssumption, Distributes
  <2>3. QED
    BY <2>1, <2>2, <1>3, CountAssumption
<1>5. Start \in Nat /\ Pitch * line = Start + Pitch
  <2>1. line \in Nat /\ line >= 1
    BY <1>1, CountAssumption
  <2>2. Pitch * (line - 1) \in Nat /\ Pitch * line = Pitch * (line - 1) + Pitch
    BY <2>1, <1>3, Successor
  <2>3. QED
    BY <2>2 DEF Start
<1>6. ASSUME line <= LineCount PROVE Pitch * line <= Pitch * LineCount
  <2>1. line \in Nat
    BY <1>1, CountAssumption
  <2>2. QED
    BY <2>1, <1>3, <1>6, CountAssumption, Monotone
<1>7. QED
  BY <1>2, <1>3, <1>4, <1>5, <1>6

(* The place of an earlier line is below, that of a later one behind.       *)
LEMMA Rows ==
  ASSUME TypeOK, NEW i \in 1 .. LineCount, NEW j \in 0 .. EncodedLen(len) - 1
  PROVE  /\ Pitch * (i - 1) \in Nat /\ Pitch * (i - 1) + j \in 0 .. Size - 1
         /\ i < line => Pitch * (i - 1) + j < Start
         /\ i = line => Pitch * (i - 1) = Start
         /\ ~CRAt(Pitch * (i - 1) + j) /\ ~LFAt(Pitch * (i - 1) + j)
<1>1. /\ EncodedLen(len) \in Nat /\ Pitch \in Nat /\ Size \in Nat /\ Start \in Nat
      /\ Size = Pitch * LineCount /\ Pitch = EncodedLen(len) + 2
  BY Places DEF Pitch
<1>2. /\ i \in Nat /\ i >= 1 /\ i - 1 \in Nat /\ i <= LineCount /\ LineCount \in Nat
      /\ line \in Nat /\ line >= 1
  BY CountAssumption DEF TypeOK
<1>3. Pitch * (i - 1) \in Nat /\ Pitch * i = Pitch * (i - 1) + Pitch
  BY <1>1, <1>2, Successor
<1>4. Pitch * i <= Pitch * LineCount
  BY <1>1, <1>2, Monotone
<1>5. ASSUME i < line PROVE Pitch * i <= Start
  <2>1. i <= line - 1 /\ line - 1 \in Nat
    BY <1>2, <1>5
  <2>2. QED
    BY <1>1, <1>2, <2>1, Monotone DEF Start
<1>6. ASSUME NEW h \in 1 .. LineCount
      PROVE  /\ Pitch * h \in Nat
             /\ Pitch * h <= Pitch * (i - 1) \/ Pitch * (i - 1) + Pitch <= Pitch * h
  <2>1. h \in Nat /\ (h <= i - 1 \/ i <= h)
    BY <1>2
  <2>2. Pitch * h \in Nat
    BY <1>1, <2>1
  <2>3. CASE h <= i - 1
    BY <1>1, <1>2, <2>1, <2>2, <2>3, Monotone
  <2>4. CASE i <= h
    <3>1. Pitch * i <= Pitch * h
      BY <1>1, <1>2, <2>1, <2>4, Monotone
    <3>2. QED
      BY <1>3, <2>2, <3>1
  <2>5. QED
    BY <2>1, <2>2, <2>3, <2>4
<1>7. PICK base \in Nat : base = Pitch * (i - 1)
  BY <1>3
<1>8. ASSUME NEW h \in 1 .. LineCount
      PROVE  base + j # Pitch * h - 2 /\ base + j # Pitch * h - 1
  <2>1. PICK q \in Nat : q = Pitch * h
    BY <1>6
  <2>2. q <= base \/ base + EncodedLen(len) + 2 <= q
    BY <1>1, <1>6, <1>7, <2>1
  <2>3. base + j # q - 2 /\ base + j # q - 1
    BY <1>1, <2>2
  <2>4. QED
    BY <2>1, <2>3
<1>9. base + j \in 0 .. Size - 1
  BY <1>1, <1>3, <1>4, <1>7
<1>10. i < line => base + j < Start
  BY <1>1, <1>3, <1>5, <1>7
<1>11. i = line => base = Start
  BY <1>7 DEF Start
<1>12. ~CRAt(base + j) /\ ~LFAt(base + j)
  BY <1>8 DEF CRAt, LFAt
<1>13. QED
  BY <1>3, <1>7, <1>9, <1>10, <1>11, <1>12

(* Four characters within the room of the line keep the buffer's type and   *)
(* leave what is behind them filled; if they are those of the encoding, so  *)
(* is what is behind them.                                                  *)
LEMMA FourFills ==
  ASSUME TypeOK, Filled, Faithful, line <= LineCount, dstOffset + 4 <= EncodedLen(len),
         NEW p \in Alphabet, NEW q \in Alphabet, NEW r \in Alphabet, NEW s \in Alphabet,
         Four(p, q, r, s), dstOffset' = dstOffset + 4, UNCHANGED <<len, lines, line>>,
         p = Sextet(lines[line], dstOffset), q = Sextet(lines[line], dstOffset + 1),
         r = Sextet(lines[line], dstOffset + 2), s = Sextet(lines[line], dstOffset + 3)
  PROVE  /\ buffer' \in [0 .. Size - 1 -> Alphabet \cup {CR, LF, Garbage}]
         /\ Filled' /\ Faithful'
<1>1. /\ Start \in Nat /\ Size \in Nat /\ dstOffset \in Nat
      /\ Start + dstOffset + 3 < Size
  <2>1. /\ EncodedLen(len) \in Nat /\ Start \in Nat /\ Size \in Nat
        /\ Start + Pitch <= Size
    BY Places
  <2>2. dstOffset \in Nat /\ Pitch = EncodedLen(len) + 2
    BY DEF TypeOK, Pitch
  <2>3. QED
    BY <2>1, <2>2
<1>2. DOMAIN buffer \cup (Start + dstOffset .. Start + dstOffset + 3) = 0 .. Size - 1
  BY <1>1 DEF TypeOK
<1>3. buffer' = [k \in 0 .. Size - 1 |->
                   IF k \in Start + dstOffset .. Start + dstOffset + 3
                   THEN <<p, q, r, s>>[k - (Start + dstOffset) + 1] ELSE buffer[k]]
  BY <1>2 DEF Four
<1>4. \A k \in 0 .. Size - 1 :
        IF k \in Start + dstOffset .. Start + dstOffset + 3
        THEN buffer'[k] \in Alphabet ELSE buffer'[k] = buffer[k]
  <2>1. \A i \in 1 .. 4 : <<p, q, r, s>>[i] \in Alphabet
    OBVIOUS
  <2>2. QED
    BY <1>1, <1>3, <2>1
<1>5. buffer' \in [0 .. Size - 1 -> Alphabet \cup {CR, LF, Garbage}]
  <2>1. \A k \in 0 .. Size - 1 : buffer'[k] \in Alphabet \cup {CR, LF, Garbage}
    BY <1>4 DEF TypeOK
  <2>2. QED
    BY <1>3, <2>1
<1>6. Size' = Size /\ Start' = Start /\ Pitch' = Pitch
  BY DEF Size, Start, Pitch
<1>7. ASSUME NEW k \in 0 .. Size - 1, k < Start + dstOffset + 4
      PROVE  buffer'[k] # Garbage \/ CRAt(k) \/ LFAt(k)
  <2>1. CASE k < Start + dstOffset
    BY <1>1, <1>4, <2>1 DEF Filled
  <2>2. CASE ~(k < Start + dstOffset)
    BY <1>1, <1>4, <1>7, <2>2, SymbolsAssumption
  <2>3. QED
    BY <2>1, <2>2
<1>8. \A k \in 0 .. Size - 1 : (CRAt(k) => CRAt(k)') /\ (LFAt(k) => LFAt(k)')
  BY <1>6 DEF CRAt, LFAt
<1>9. Filled'
  BY <1>1, <1>6, <1>7, <1>8 DEF Filled
<1>10. ASSUME NEW i \in 1 .. LineCount, NEW j \in 0 .. EncodedLen(len) - 1,
              i < line \/ (i = line /\ j < dstOffset + 4)
       PROVE  buffer'[Pitch * (i - 1) + j] = Sextet(lines[i], j)
  <2>1. PICK base \in Nat : base = Pitch * (i - 1)
    BY Rows
  <2>2. /\ base + j \in 0 .. Size - 1 /\ (i < line => base + j < Start)
        /\ (i = line => base = Start)
    BY <2>1, Rows
  <2>3. CASE i < line \/ (i = line /\ j < dstOffset)
    <3>1. buffer[base + j] = Sextet(lines[i], j)
      BY <2>1, <2>3 DEF Faithful
    <3>2. base + j < Start + dstOffset
      BY <1>1, <2>2, <2>3
    <3>3. buffer'[base + j] = buffer[base + j]
      BY <1>1, <1>4, <2>2, <3>2
    <3>4. QED
      BY <2>1, <3>1, <3>3
  <2>4. CASE i = line /\ ~(j < dstOffset)
    <3>1. /\ base + j = Start + j
          /\ j = dstOffset \/ j = dstOffset + 1 \/ j = dstOffset + 2 \/ j = dstOffset + 3
      BY <1>1, <1>10, <2>2, <2>4
    <3>2. /\ buffer'[Start + dstOffset] = p /\ buffer'[Start + (dstOffset + 1)] = q
          /\ buffer'[Start + (dstOffset + 2)] = r /\ buffer'[Start + (dstOffset + 3)] = s
      BY <1>1, <1>3
    <3>3. buffer'[Start + j] = Sextet(lines[line], j)
      BY <3>1, <3>2
    <3>4. QED
      BY <2>1, <2>4, <3>1, <3>3
  <2>5. QED
    BY <1>10, <2>3, <2>4
<1>11. Faithful'
  BY <1>6, <1>10 DEF Faithful
<1>12. QED
  BY <1>5, <1>9, <1>11

-----------------------------------------------------------------------------
(* The steps *)

(* What each action that encodes a group has in common.                     *)
LEMMA GroupStep ==
  ASSUME LinesInv, NEW n \in 1 .. 3, Take(n), pc = "encode",
         n = 3 => remaining >= 3, n < 3 => remaining = n,
         NEW p \in Alphabet, NEW q \in Alphabet, NEW r \in Alphabet, NEW s \in Alphabet,
         Four(p, q, r, s),
         p = Sextet(lines[line], dstOffset), q = Sextet(lines[line], dstOffset + 1),
         r = Sextet(lines[line], dstOffset + 2), s = Sextet(lines[line], dstOffset + 3)
  PROVE  LinesInv'
<1>1. PICK g \in Nat : Aligned(g)
  BY DEF LinesInv, Encoding, Finished
<1>2. len \in Nat /\ remaining \in Nat /\ line <= LineCount /\ len >= 3 * g + n
  BY <1>1, BytesAssumption DEF LinesInv, TypeOK, Aligned, Encoding
<1>3. dstOffset + 4 <= EncodedLen(len)
  BY <1>1, <1>2, Room, RoomIsNat DEF Aligned
<1>4. UNCHANGED <<len, lines, line, pc>> /\ dstOffset' = dstOffset + 4
  BY DEF Take
<1>5. buffer' \in [0 .. Size - 1 -> Alphabet \cup {CR, LF, Garbage}] /\ Filled' /\ Faithful'
  BY <1>2, <1>3, <1>4, FourFills DEF LinesInv
<1>6. TypeOK'
  <2>1. Size' = Size
    BY <1>4 DEF Size
  <2>2. srcOffset' \in Nat /\ remaining' \in Nat /\ dstOffset' \in Nat
    BY <1>2 DEF Take, LinesInv, TypeOK
  <2>3. QED
    BY <1>4, <1>5, <2>1, <2>2 DEF LinesInv, TypeOK
<1>7. Encoding'
  <2>1. CASE n = 3
    <3>1. Aligned(g + 1)'
      BY <1>1, <1>2, <2>1 DEF Aligned, Take
    <3>2. QED
      BY <1>2, <1>4, <3>1 DEF Encoding
  <2>2. CASE n < 3
    <3>1. len \in {3 * g + 1, 3 * g + 2}
      BY <1>1, <1>2, <2>2 DEF Aligned
    <3>2. Finished'
      BY <1>1, <1>2, <1>4, <2>2, <3>1, Room DEF Finished, Take, Aligned
    <3>3. QED
      BY <1>2, <1>4, <3>2 DEF Encoding
  <2>3. QED
    BY <2>1, <2>2
<1>8. QED
  BY <1>4, <1>5, <1>6, <1>7 DEF LinesInv

(* The group that is encoded next, in the text of its line.                 *)
LEMMA GroupOfLine ==
  ASSUME LinesInv, pc = "encode", remaining # 0
  PROVE  /\ lines[line] \in Seq(0 .. 255)
         /\ Len(lines[line]) = srcOffset + remaining
         /\ \E g \in Nat : srcOffset = 3 * g /\ dstOffset = 4 * g
<1>1. PICK g \in Nat : Aligned(g)
  BY DEF LinesInv, Encoding, Finished
<1>2. len \in Nat /\ line \in 1 .. LineCount
  BY BytesAssumption, CountAssumption DEF LinesInv, TypeOK, Encoding
<1>3. lines[line] \in [1 .. len -> Bytes]
  BY <1>2 DEF LinesInv, TypeOK
<1>4. lines[line] \in Seq(Bytes) /\ Len(lines[line]) = len
  BY <1>2, <1>3
<1>5. lines[line] \in Seq(0 .. 255)
  <2>1. \A B : Bytes \subseteq B => lines[line] \in [1 .. len -> B]
    BY <1>3
  <2>2. \A B : lines[line] \in [1 .. len -> B] => lines[line] \in Seq(B)
    BY <1>2
  <2>3. QED
    BY <2>1, <2>2, BytesAssumption, Zenon
<1>6. QED
  BY <1>1, <1>4, <1>5 DEF Aligned

(* Its bytes, and zeros where the line has ended.                           *)
LEMMA BytesOfGroup ==
  ASSUME LinesInv, pc = "encode", remaining # 0,
         NEW p, p = IF remaining >= 1 THEN First(Byte(1)) ELSE Pad,
         NEW q, q = IF remaining >= 1 THEN Second(Byte(1), IF remaining >= 2 THEN Byte(2) ELSE 0) ELSE Pad,
         NEW r, r = IF remaining >= 2 THEN Third(Byte(2), IF remaining >= 3 THEN Byte(3) ELSE 0) ELSE Pad,
         NEW s, s = IF remaining >= 3 THEN Fourth(Byte(3)) ELSE Pad
  PROVE  /\ p = Sextet(lines[line], dstOffset) /\ q = Sextet(lines[line], dstOffset + 1)
         /\ r = Sextet(lines[line], dstOffset + 2) /\ s = Sextet(lines[line], dstOffset + 3)
<1>1. PICK g \in Nat : srcOffset = 3 * g /\ dstOffset = 4 * g
  BY GroupOfLine
<1> DEFINE text == lines[line]
<1>2. text \in Seq(0 .. 255) /\ Len(text) = 3 * g + remaining /\ remaining \in Nat
  BY <1>1, GroupOfLine DEF LinesInv, TypeOK
<1>3. /\ At(text, 3 * g) = IF remaining >= 1 THEN Byte(1) ELSE 0
      /\ At(text, 3 * g + 1) = IF remaining >= 2 THEN Byte(2) ELSE 0
      /\ At(text, 3 * g + 2) = IF remaining >= 3 THEN Byte(3) ELSE 0
  BY <1>1, <1>2 DEF At, Byte
<1> HIDE DEF text
<1>4. /\ Sextet(text, 4 * g) = p /\ Sextet(text, 4 * g + 1) = q
      /\ Sextet(text, 4 * g + 2) = r /\ Sextet(text, 4 * g + 3) = s
  <2>1. /\ (3 * g < Len(text) <=> remaining >= 1) /\ (3 * g + 1 < Len(text) <=> remaining >= 2)
        /\ (3 * g + 2 < Len(text) <=> remaining >= 3) /\ remaining >= 1
    BY <1>2
  <2>2. /\ Sextet(text, 4 * g) =
              IF 3 * g < Len(text) THEN First(At(text, 3 * g)) ELSE Pad
        /\ Sextet(text, 4 * g + 1) =
              IF 3 * g < Len(text) THEN Second(At(text, 3 * g), At(text, 3 * g + 1)) ELSE Pad
        /\ Sextet(text, 4 * g + 2) =
              IF 3 * g + 1 < Len(text) THEN Third(At(text, 3 * g + 1), At(text, 3 * g + 2)) ELSE Pad
        /\ Sextet(text, 4 * g + 3) =
              IF 3 * g + 2 < Len(text) THEN Fourth(At(text, 3 * g + 2)) ELSE Pad
    BY <1>2, SextetOf
  <2>3. /\ remaining >= 2 => remaining >= 1
        /\ remaining >= 3 => remaining >= 2
    BY <1>2
  <2>4. QED
    BY <1>3, <2>1, <2>2, <2>3
<1>5. QED
  BY <1>1, <1>4 DEF text

(* A byte of the line that is encoded is one of the line.                   *)
LEMMA ByteOfLine ==
  ASSUME LinesInv, pc = "encode", NEW i \in 1 .. remaining
  PROVE  Byte(i) \in 0 .. 255
<1>1. PICK g \in Nat : Aligned(g)
  BY DEF LinesInv, Encoding, Finished, TypeOK
<1>2. srcOffset + i \in 1 .. len /\ line \in 1 .. LineCount
  BY <1>1, BytesAssumption, CountAssumption DEF LinesInv, TypeOK, Aligned, Encoding
<1>3. QED
  BY <1>2, BytesAssumption DEF Byte, LinesInv, TypeOK

(* The padding is written like any character.                               *)
LEMMA PadIsCharacter == Pad \in Alphabet
  BY DEF Pad, Alphabet

(* A whole group fits into its room and has the bits of its bytes.          *)
LEMMA ThreeStep == ASSUME LinesInv, Three PROVE LinesInv'
<1>1. remaining \in Nat /\ remaining >= 3 /\ pc = "encode" /\ Take(3)
  BY DEF Three, LinesInv, TypeOK
<1>2. 1 \in 1 .. remaining /\ 2 \in 1 .. remaining /\ 3 \in 1 .. remaining
  BY <1>1
<1>3. Byte(1) \in 0 .. 255 /\ Byte(2) \in 0 .. 255 /\ Byte(3) \in 0 .. 255
  BY <1>1, <1>2, ByteOfLine
<1>4. /\ First(Byte(1)) \in Alphabet /\ Second(Byte(1), Byte(2)) \in Alphabet
      /\ Third(Byte(2), Byte(3)) \in Alphabet /\ Fourth(Byte(3)) \in Alphabet
  BY <1>3, Sextets
<1>5. Four(First(Byte(1)), Second(Byte(1), Byte(2)), Third(Byte(2), Byte(3)), Fourth(Byte(3)))
  BY DEF Three
<1>6. 3 \in 1 .. 3 /\ (3 = 3 => remaining >= 3) /\ (3 < 3 => remaining = 3)
  BY <1>1
<1>7. /\ First(Byte(1)) = Sextet(lines[line], dstOffset)
      /\ Second(Byte(1), Byte(2)) = Sextet(lines[line], dstOffset + 1)
      /\ Third(Byte(2), Byte(3)) = Sextet(lines[line], dstOffset + 2)
      /\ Fourth(Byte(3)) = Sextet(lines[line], dstOffset + 3)
  BY <1>1, BytesOfGroup
<1>8. QED
  BY <1>1, <1>4, <1>5, <1>6, <1>7, GroupStep

(* Two bytes that are left over, with one character of padding.             *)
LEMMA TwoStep == ASSUME LinesInv, Two PROVE LinesInv'
<1>1. remaining = 2 /\ pc = "encode" /\ Take(2)
  BY DEF Two
<1>2. 1 \in 1 .. remaining /\ 2 \in 1 .. remaining
  BY <1>1
<1>3. Byte(1) \in 0 .. 255 /\ Byte(2) \in 0 .. 255 /\ 0 \in 0 .. 255
  BY <1>1, <1>2, ByteOfLine
<1>4. /\ First(Byte(1)) \in Alphabet /\ Second(Byte(1), Byte(2)) \in Alphabet
      /\ Third(Byte(2), 0) \in Alphabet /\ Pad \in Alphabet
  BY <1>3, Sextets, PadIsCharacter
<1>5. Four(First(Byte(1)), Second(Byte(1), Byte(2)), Third(Byte(2), 0), Pad)
  BY DEF Two
<1>6. 2 \in 1 .. 3 /\ (2 = 3 => remaining >= 3) /\ (2 < 3 => remaining = 2)
  BY <1>1
<1>7. /\ First(Byte(1)) = Sextet(lines[line], dstOffset)
      /\ Second(Byte(1), Byte(2)) = Sextet(lines[line], dstOffset + 1)
      /\ Third(Byte(2), 0) = Sextet(lines[line], dstOffset + 2)
      /\ Pad = Sextet(lines[line], dstOffset + 3)
  BY <1>1, BytesOfGroup
<1>8. QED
  BY <1>1, <1>4, <1>5, <1>6, <1>7, GroupStep

(* One byte that is left over, with two characters of padding.              *)
LEMMA OneStep == ASSUME LinesInv, One PROVE LinesInv'
<1>1. remaining = 1 /\ pc = "encode" /\ Take(1)
  BY DEF One
<1>2. 1 \in 1 .. remaining
  BY <1>1
<1>3. Byte(1) \in 0 .. 255 /\ 0 \in 0 .. 255
  BY <1>1, <1>2, ByteOfLine
<1>4. First(Byte(1)) \in Alphabet /\ Second(Byte(1), 0) \in Alphabet /\ Pad \in Alphabet
  BY <1>3, Sextets, PadIsCharacter
<1>5. Four(First(Byte(1)), Second(Byte(1), 0), Pad, Pad)
  BY DEF One
<1>6. 1 \in 1 .. 3 /\ (1 = 3 => remaining >= 3) /\ (1 < 3 => remaining = 1)
  BY <1>1
<1>7. /\ First(Byte(1)) = Sextet(lines[line], dstOffset)
      /\ Second(Byte(1), 0) = Sextet(lines[line], dstOffset + 1)
      /\ Pad = Sextet(lines[line], dstOffset + 2)
      /\ Pad = Sextet(lines[line], dstOffset + 3)
  BY <1>1, BytesOfGroup
<1>8. QED
  BY <1>1, <1>4, <1>5, <1>6, <1>7, GroupStep

(* A line that is done with fills its room, and behind that is its          *)
(* terminator.                                                              *)
LEMMA NextLineStep == ASSUME LinesInv, NextLine PROVE LinesInv'
<1>1. /\ len \in Nat /\ line \in 1 .. LineCount
      /\ dstOffset = EncodedLen(len)
  <2>1. len \in Nat /\ line \in 1 .. LineCount /\ remaining = 0
    BY BytesAssumption, CountAssumption DEF NextLine, LinesInv, TypeOK, Encoding
  <2>2. CASE Finished
    BY <2>1, <2>2 DEF Finished
  <2>3. CASE \E g \in Nat : Aligned(g)
    BY <2>1, <2>3, Room DEF Aligned
  <2>4. QED
    BY <2>1, <2>2, <2>3 DEF NextLine, LinesInv, Encoding
<1>2. /\ UNCHANGED <<len, lines, buffer>> /\ line' = line + 1
      /\ srcOffset' = 0 /\ remaining' = len /\ dstOffset' = 0
      /\ pc' = IF line = LineCount THEN "terminate" ELSE "encode"
      /\ Size' = Size /\ Pitch' = Pitch
  BY DEF NextLine, Size, Pitch
<1>3. TypeOK'
  BY <1>1, <1>2, CountAssumption DEF LinesInv, TypeOK
<1>4. pc' = "encode" => Encoding'
  <2>1. Aligned(0)'
    BY <1>1, <1>2 DEF Aligned
  <2>2. pc' = "encode" => line' <= LineCount
    BY <1>1, <1>2, CountAssumption
  <2>3. QED
    BY <2>1, <2>2 DEF Encoding
<1>5. pc' = "terminate" => Encoded'
  BY <1>1, <1>2 DEF Encoded
<1>6. Filled'
  <2>1. /\ Start \in Nat /\ Pitch \in Nat /\ Pitch = EncodedLen(len) + 2
        /\ EncodedLen(len) \in Nat
        /\ Pitch * line = Start + Pitch /\ Size \in Nat
    BY Places DEF LinesInv, Pitch
  <2>2. Start' + dstOffset' = Pitch * line
    BY <1>1, <1>2, <2>1, CountAssumption DEF Start
  <2>3. ASSUME NEW k \in 0 .. Size - 1, k < Pitch * line
        PROVE  buffer[k] # Garbage \/ CRAt(k) \/ LFAt(k)
    <3>1. CASE k < Start + dstOffset
      BY <3>1 DEF LinesInv, Filled, NextLine
    <3>2. CASE k = Pitch * line - 2
      BY <1>1, <3>2 DEF CRAt
    <3>3. CASE k = Pitch * line - 1
      BY <1>1, <3>3 DEF LFAt
    <3>4. k < Start + dstOffset \/ k = Pitch * line - 2 \/ k = Pitch * line - 1
      <4>1. k \in Nat /\ k < Start + (dstOffset + 2) /\ dstOffset \in Nat
        BY <1>1, <2>1, <2>3
      <4>2. Pitch * line = Start + (dstOffset + 2)
        BY <1>1, <2>1
      <4>3. QED
        BY <2>1, <4>1, <4>2
    <3>5. QED
      BY <3>1, <3>2, <3>3, <3>4
  <2>4. \A k \in 0 .. Size - 1 : (CRAt(k) => CRAt(k)') /\ (LFAt(k) => LFAt(k)')
    BY <1>2 DEF CRAt, LFAt
  <2>5. QED
    BY <1>2, <2>2, <2>3, <2>4 DEF Filled
<1>7. pc' # "written"
  BY <1>2
<1>8. Faithful'
  <2>1. \A i \in 1 .. LineCount, j \in 0 .. EncodedLen(len) - 1 :
          i < line + 1 => buffer[Pitch * (i - 1) + j] = Sextet(lines[i], j)
    <3>1. Faithful
      BY DEF LinesInv, NextLine
    <3>2. \A i \in 1 .. LineCount, j \in 0 .. EncodedLen(len) - 1 :
            i < line + 1 => i < line \/ (i = line /\ j < dstOffset)
      BY <1>1, RoomIsNat, CountAssumption
    <3>3. QED
      BY <3>1, <3>2 DEF Faithful
  <2>2. \A j \in 0 .. EncodedLen(len) - 1 : ~(j < 0)
    BY <1>1, RoomIsNat
  <2>3. QED
    BY <1>2, <2>1, <2>2 DEF Faithful
<1>9. QED
  BY <1>3, <1>4, <1>5, <1>6, <1>7, <1>8 DEF LinesInv

(* The terminators fill the places between the lines.                       *)
LEMMA TerminateStep == ASSUME LinesInv, Terminate PROVE LinesInv'
<1>1. /\ UNCHANGED <<len, lines, line, srcOffset, remaining, dstOffset>> /\ pc' = "written"
      /\ Size' = Size
  BY DEF Terminate, Size
<1>2. DOMAIN buffer = 0 .. Size - 1
  BY DEF LinesInv, TypeOK
<1>3. \A k \in 0 .. Size - 1 :
        buffer'[k] = IF CRAt(k) THEN CR ELSE IF LFAt(k) THEN LF ELSE buffer[k]
  BY <1>2 DEF Terminate
<1>4. buffer' \in [0 .. Size - 1 -> Alphabet \cup {CR, LF, Garbage}]
  <2>1. \A k \in 0 .. Size - 1 : buffer'[k] \in Alphabet \cup {CR, LF, Garbage}
    BY <1>3 DEF LinesInv, TypeOK
  <2>2. QED
    BY <1>2, <2>1 DEF Terminate
<1>5. TypeOK'
  BY <1>1, <1>4 DEF LinesInv, TypeOK
<1>6. Start + dstOffset = Size /\ line = LineCount + 1 /\ Size \in Nat
  <2>1. line = LineCount + 1 /\ dstOffset = 0
    BY DEF Terminate, LinesInv, Encoded
  <2>2. Start = Pitch * LineCount
    BY <2>1, CountAssumption DEF Start
  <2>3. QED
    BY <2>1, <2>2, Places DEF LinesInv
<1>7. NothingLeaks'
  BY <1>1, <1>3, <1>6, SymbolsAssumption DEF NothingLeaks, LinesInv, Filled, Terminate
<1>8. LinesAreEncoded'
  <2>1. /\ EncodedLen(len) \in Nat /\ Pitch = EncodedLen(len) + 2 /\ Pitch \in Nat
        /\ Pitch' = Pitch /\ TypeOK /\ Faithful /\ LineCount \in Nat
        /\ Size = Pitch * LineCount
    BY <1>1, Places, CountAssumption DEF Pitch, LinesInv, Terminate
  <2>2. ASSUME NEW i \in 1 .. LineCount, NEW j \in 0 .. EncodedLen(len) - 1
        PROVE  buffer'[Pitch * (i - 1) + j] = Sextet(lines[i], j)
    <3>1. i < line
      BY <1>6, <2>1
    <3>2. buffer[Pitch * (i - 1) + j] = Sextet(lines[i], j)
      BY <2>1, <3>1 DEF Faithful
    <3>3. /\ Pitch * (i - 1) + j \in 0 .. Size - 1
          /\ ~CRAt(Pitch * (i - 1) + j) /\ ~LFAt(Pitch * (i - 1) + j)
      BY <2>1, Rows
    <3>4. QED
      BY <1>3, <3>2, <3>3
  <2>3. ASSUME NEW i \in 1 .. LineCount
        PROVE  /\ buffer'[Pitch * (i - 1) + EncodedLen(len)] = CR
               /\ buffer'[Pitch * (i - 1) + EncodedLen(len) + 1] = LF
    <3>1. i \in Nat /\ i >= 1 /\ i <= LineCount
      BY <2>1
    <3>2. Pitch * (i - 1) \in Nat /\ Pitch * i = Pitch * (i - 1) + Pitch
      BY <2>1, <3>1, Successor
    <3>3. Pitch * i <= Pitch * LineCount
      BY <2>1, <3>1, Monotone
    <3>4. PICK base \in Nat, top \in Nat :
            base = Pitch * (i - 1) /\ top = Pitch * i /\ top = base + EncodedLen(len) + 2
      BY <2>1, <3>2
    <3>5. base + EncodedLen(len) \in 0 .. Size - 1 /\ base + EncodedLen(len) + 1 \in 0 .. Size - 1
      BY <1>6, <2>1, <3>3, <3>4
    <3>6. base + EncodedLen(len) = top - 2 /\ base + EncodedLen(len) + 1 = top - 1
      BY <2>1, <3>4
    <3>7. CRAt(base + EncodedLen(len))
      BY <3>4, <3>6 DEF CRAt
    <3>8. LFAt(base + EncodedLen(len) + 1)
      BY <3>4, <3>6 DEF LFAt
    <3>9. ~CRAt(base + EncodedLen(len) + 1)
      <4>1. ASSUME NEW h \in 1 .. LineCount PROVE Pitch * h - 2 # top - 1
        <5>1. h \in Nat /\ (h <= i - 1 \/ h = i \/ i <= h - 1) /\ i - 1 \in Nat
          BY <3>1, <2>1
        <5>2. Pitch * h \in Nat
          BY <2>1, <5>1
        <5>3. PICK q \in Nat : q = Pitch * h
          BY <5>2
        <5>4. CASE h <= i - 1
          <6>1. q <= base
            BY <2>1, <5>1, <5>3, <5>4, <3>4, Monotone
          <6>2. QED
            BY <5>3, <6>1, <3>4, <2>1
        <5>5. CASE h = i
          BY <5>3, <5>5, <3>4
        <5>6. CASE i <= h - 1
          <6>1. h - 1 \in Nat /\ h >= 1
            BY <5>1, <5>6, <3>1
          <6>2. Pitch * (h - 1) \in Nat /\ Pitch * h = Pitch * (h - 1) + Pitch
            BY <2>1, <5>1, <6>1, Successor
          <6>3. Pitch * i <= Pitch * (h - 1)
            BY <2>1, <3>1, <5>6, <6>1, Monotone
          <6>4. q >= top + 2
            BY <2>1, <3>4, <5>3, <6>2, <6>3
          <6>5. QED
            BY <5>3, <6>4, <3>4
        <5>7. QED
          BY <5>1, <5>4, <5>5, <5>6
      <4>2. QED
        BY <3>6, <4>1 DEF CRAt
    <3>10. QED
      BY <1>3, <3>4, <3>5, <3>7, <3>8, <3>9
  <2>4. QED
    BY <1>1, <2>1, <2>2, <2>3 DEF LinesAreEncoded
<1>9. QED
  BY <1>1, <1>5, <1>6, <1>7, <1>8 DEF LinesInv

-----------------------------------------------------------------------------
(* The theorems *)

(* Nothing has been encoded yet.                                            *)
LEMMA InitInv == Init => LinesInv
<1> SUFFICES ASSUME Init PROVE LinesInv
  OBVIOUS
<1>1. len \in Nat /\ EncodedLen(len) \in Nat
  BY BytesAssumption, RoomIsNat DEF Init
<1>2. TypeOK
  BY <1>1, CountAssumption DEF Init, TypeOK
<1>3. Start = 0
  BY <1>1 DEF Init, Start, Pitch
<1>4. Filled
  BY <1>2, <1>3, Places DEF Init, Filled
<1>5. Aligned(0)
  BY <1>1 DEF Aligned, Init
<1>6. pc = "encode" => line <= LineCount
  BY CountAssumption DEF Init
<1>7. pc = "terminate" => Encoded
  BY CountAssumption DEF Init, Encoded
<1>8. pc # "written"
  BY DEF Init
<1>9. Faithful
  <2>1. \A i \in 1 .. LineCount, j \in 0 .. EncodedLen(len) - 1 : ~(i < 1) /\ ~(j < 0)
    BY <1>1, CountAssumption
  <2>2. QED
    BY <2>1 DEF Faithful, Init
<1>10. QED
  BY <1>2, <1>4, <1>5, <1>6, <1>7, <1>8, <1>9 DEF LinesInv, Encoding

(* Every step.                                                              *)
LEMMA StepInv == LinesInv /\ [Next]_vars => LinesInv'
<1> SUFFICES ASSUME LinesInv, [Next]_vars PROVE LinesInv'
  OBVIOUS
<1>1. CASE Next
  BY <1>1, ThreeStep, TwoStep, OneStep, NextLineStep, TerminateStep DEF Next
<1>2. CASE UNCHANGED vars
  BY <1>2 DEF vars, LinesInv, TypeOK, Encoding, Finished, Aligned, Encoded, Filled, Faithful, NothingLeaks,
     LinesAreEncoded, Size, Start, Pitch, CRAt, LFAt
<1>3. QED
  BY <1>1, <1>2

(* LinesInv holds in every reachable state of write_to.                     *)
THEOREM LinesInvariant == Spec => []LinesInv
  BY InitInv, StepInv, PTL DEF Spec

(* Every place that base64_encode writes is one of the buffer of write_to,  *)
(* however many lines there are and however long they are.                  *)
THEOREM WithinBuffer == Spec => []TypeOK
<1>1. LinesInv => TypeOK
  BY DEF LinesInv
<1>2. QED
  BY <1>1, LinesInvariant, PTL

(* No encoded line gets into the place of its terminator or of the next.    *)
THEOREM LinesApart == Spec => []StaysInLine
<1>1. LinesInv => StaysInLine
  <2> SUFFICES ASSUME LinesInv, line <= LineCount PROVE dstOffset <= EncodedLen(len)
    BY DEF StaysInLine
  <2>1. pc = "encode" /\ len \in Nat /\ EncodedLen(len) \in Nat
    BY CountAssumption, BytesAssumption, RoomIsNat DEF LinesInv, TypeOK, Encoded
  <2>2. CASE Finished
    BY <2>1, <2>2 DEF Finished
  <2>3. CASE \E g \in Nat : Aligned(g)
    <3>1. PICK g \in Nat : Aligned(g)
      BY <2>3
    <3>2. len = 3 * g \/ len > 3 * g
      BY <2>1, <3>1 DEF Aligned, LinesInv, TypeOK
    <3>3. QED
      BY <2>1, <3>1, <3>2, Room DEF Aligned
  <2>4. QED
    BY <2>1, <2>2, <2>3 DEF LinesInv, Encoding
<1>2. QED
  BY <1>1, LinesInvariant, PTL

(* The file holds each of the lines in the encoding of RFC 4648, whatever   *)
(* their number and length: the masks, the padding, the room of a line and  *)
(* the places of the terminators agree.                                     *)
THEOREM Encoding64 == Spec => []LinesAreEncoded
<1>1. LinesInv => LinesAreEncoded
  BY DEF LinesInv, LinesAreEncoded
<1>2. QED
  BY <1>1, LinesInvariant, PTL

(* Nothing that was in the memory of the buffer gets into the file.         *)
THEOREM NoLeak == Spec => []NothingLeaks
<1>1. LinesInv => NothingLeaks
  BY DEF LinesInv, NothingLeaks
<1>2. QED
  BY <1>1, LinesInvariant, PTL

-----------------------------------------------------------------------------
(* The sums of what has been written *)

TokenType == [kind : {"name", "colon", "fold", "blank", "part"}, len : Nat]

(* g holds the sums of the first tokens, up to n of them.                   *)
IsSum(g, tokens, n) ==
  g = [i \in 0 .. n |-> IF i = 0 THEN 0 ELSE g[i - 1] + tokens[i].len]

(* The recursion of Sums has a solution, in the naturals.                   *)
LEMMA SumExists ==
  ASSUME NEW q \in Seq(TokenType)
  PROVE  \E g \in [0 .. Len(q) -> Nat] : IsSum(g, q, Len(q))
<1> DEFINE N == Len(q)
           Has(n) == \E g \in [0 .. n -> Nat] : IsSum(g, q, n)
           T == {n \in Nat : n <= N => Has(n)}
<1>1. N \in Nat /\ \A i \in 1 .. N : q[i].len \in Nat
  <2>1. N \in Nat /\ \A i \in 1 .. N : q[i] \in TokenType
    OBVIOUS
  <2> QED
    BY <2>1 DEF TokenType
<1> HIDE DEF N
<1>2. 0 \in T
  <2> DEFINE g == [i \in 0 .. 0 |-> 0]
  <2>1. g \in [0 .. 0 -> Nat] /\ IsSum(g, q, 0)
    BY DEF IsSum
  <2> QED
    BY <2>1
<1>3. ASSUME NEW n \in T
      PROVE  n + 1 \in T
  <2> SUFFICES ASSUME n + 1 <= N
               PROVE  Has(n + 1)
    OBVIOUS
  <2>1. n \in Nat /\ n <= N
    BY <1>1
  <2>2. PICK g \in [0 .. n -> Nat] : IsSum(g, q, n)
    BY <2>1
  <2>3. PICK d \in Nat : d = q[n + 1].len
    <3>1. n + 1 \in 1 .. N
      BY <1>1, <2>1
    <3> QED
      BY <1>1, <3>1
  <2> DEFINE h == [i \in 0 .. n + 1 |-> IF i = n + 1 THEN g[n] + d ELSE g[i]]
  <2>4. h \in [0 .. n + 1 -> Nat]
    BY <2>1
  <2>5. \A i \in 0 .. n + 1 : h[i] = IF i = 0 THEN 0 ELSE h[i - 1] + q[i].len
    <3>1. \A i \in 0 .. n : g[i] = IF i = 0 THEN 0 ELSE g[i - 1] + q[i].len
      BY <2>2 DEF IsSum
    <3>2. h[n + 1] = h[n] + d
      BY <2>1
    <3>3. \A i \in 0 .. n : h[i] = g[i] /\ (i # 0 => h[i - 1] = g[i - 1])
      BY <2>1
    <3> HIDE DEF h
    <3>4. ASSUME NEW i \in 0 .. n + 1, i # n + 1
          PROVE  h[i] = IF i = 0 THEN 0 ELSE h[i - 1] + q[i].len
      <4>1. i \in 0 .. n
        BY <2>1, <3>4
      <4> QED
        BY <3>1, <3>3, <4>1
    <3>5. n + 1 # 0 /\ (n + 1) - 1 = n
      BY <2>1
    <3> QED
      BY <2>3, <3>2, <3>4, <3>5
  <2>6. IsSum(h, q, n + 1)
    <3> HIDE DEF h
    <3> QED
      BY <2>4, <2>5 DEF IsSum
  <2> QED
    BY <2>4, <2>6
<1>4. N \in T
  <2> HIDE DEF Has
  <2> QED
    BY <1>1, <1>2, <1>3, Induction
<1> QED
  BY <1>1, <1>4 DEF N

(* The sums of one sequence are those of a longer one, as far as they go.   *)
LEMMA SumUnique ==
  ASSUME NEW p \in Seq(TokenType), NEW q \in Seq(TokenType),
         NEW n \in Nat, NEW m \in Nat, NEW g, NEW h, n <= m,
         \A i \in 1 .. n : p[i] = q[i], IsSum(g, p, n), IsSum(h, q, m)
  PROVE  \A i \in 0 .. n : g[i] = h[i]
<1> DEFINE T == {k \in Nat : k <= n => g[k] = h[k]}
<1>1. 0 \in T
  BY DEF IsSum
<1>2. ASSUME NEW k \in T
      PROVE  k + 1 \in T
  <2> SUFFICES ASSUME k + 1 <= n
               PROVE  g[k + 1] = h[k + 1]
    OBVIOUS
  <2>1. k + 1 \in 1 .. n /\ k + 1 \in 0 .. n /\ k + 1 \in 0 .. m /\ k + 1 # 0 /\ (k + 1) - 1 = k
    OBVIOUS
  <2>2. g[k + 1] = g[k] + p[k + 1].len
    BY <2>1 DEF IsSum
  <2>3. h[k + 1] = h[k] + q[k + 1].len
    BY <2>1 DEF IsSum
  <2>4. g[k] = h[k] /\ p[k + 1] = q[k + 1]
    BY <2>1
  <2> QED
    BY <2>2, <2>3, <2>4
<1>3. T = Nat
  BY <1>1, <1>2, Induction
<1> QED
  BY <1>3

(* Sums is that solution.                                                   *)
LEMMA SumsType ==
  ASSUME NEW q \in Seq(TokenType)
  PROVE  IsSum(H!Sums(q), q, Len(q)) /\ \A i \in 0 .. Len(q) : H!Sums(q)[i] \in Nat
<1> DEFINE Eq(g) == g = [i \in 0 .. Len(q) |-> IF i = 0 THEN 0 ELSE g[i - 1] + q[i].len]
           f == CHOOSE g : Eq(g)
<1>1. PICK g \in [0 .. Len(q) -> Nat] : Eq(g)
  BY SumExists DEF IsSum
<1>2. Eq(f)
  BY <1>1
<1>3. H!Sums(q) = f
  BY DEF H!Sums
<1>4. IsSum(f, q, Len(q)) /\ IsSum(g, q, Len(q))
  BY <1>1, <1>2 DEF IsSum
<1>5. Len(q) \in Nat
  OBVIOUS
<1>6. \A i \in 0 .. Len(q) : f[i] = g[i]
  <2> HIDE DEF f
  <2> QED
    BY <1>4, <1>5, SumUnique
<1> QED
  BY <1>1, <1>3, <1>4, <1>6

(* What is written next adds its length, and changes no earlier sum.        *)
LEMMA SumsAppend ==
  ASSUME NEW q \in Seq(TokenType), NEW t \in TokenType
  PROVE  /\ \A i \in 0 .. Len(q) : H!Sums(Append(q, t))[i] = H!Sums(q)[i]
         /\ H!Sums(Append(q, t))[Len(q) + 1] = H!Sums(q)[Len(q)] + t.len
         /\ H!Sums(q)[0] = 0
<1>1. PICK n \in Nat : n = Len(q)
  OBVIOUS
<1>2. PICK a \in Seq(TokenType) : a = Append(q, t)
  <2>1. Append(q, t) \in Seq(TokenType)
    OBVIOUS
  <2> QED
    BY <2>1
<1>3. Len(a) = n + 1 /\ a[n + 1] = t /\ \A i \in 1 .. n : q[i] = a[i]
  BY <1>1, <1>2
<1>4. IsSum(H!Sums(q), q, n) /\ IsSum(H!Sums(a), a, n + 1)
  BY <1>1, <1>3, SumsType
<1>5. \A i \in 0 .. n : H!Sums(q)[i] = H!Sums(a)[i]
  <2>1. n + 1 \in Nat /\ n <= n + 1
    OBVIOUS
  <2> QED
    BY <2>1, <1>3, <1>4, SumUnique
<1>6. H!Sums(a)[n + 1] = H!Sums(a)[n] + t.len
  <2>1. n + 1 \in 0 .. n + 1 /\ n + 1 # 0 /\ (n + 1) - 1 = n
    OBVIOUS
  <2> QED
    BY <1>3, <1>4, <2>1 DEF IsSum
<1>7. H!Sums(q)[0] = 0
  BY <1>4 DEF IsSum
<1> QED
  BY <1>1, <1>2, <1>5, <1>6, <1>7

-----------------------------------------------------------------------------
(* The header *)

Here == Len(out)

(* The part that has been counted, but is not written yet.                  *)
Pending == IF hpc = "part" THEN parts[next].len ELSE 0

(* write_trace_info begins with a part that is apart from what is before.   *)
Opened ==
  hpc # "done" => parts # <<>> /\ parts[1] = H!Part(H!By, TRUE)

(* Before the first part there is nothing but the name and its colon.       *)
Named ==
  /\ hpc = "name" => next = 1 /\ Here = 0
  /\ hpc = "colon" => next = 1 /\ Here = 1 /\ H!Length(1, 1) = 8
  /\ hpc = "separate" /\ next = 1 => Here = 2 /\ H!Length(1, 2) = 9

(* As many parts are written as have been passed.                           *)
Numbered ==
  /\ IsFiniteSet(H!Written) /\ next = Cardinality(H!Written) + 1
  /\ \A i \in H!Written : i > 2
  /\ hpc \in {"end", "done"} => next = Len(parts) + 1

(* What is written last is no gap, or the one that its part asks for.       *)
Apart ==
  /\ hpc \in {"separate", "part"} => Here >= 2
  /\ hpc = "separate" => ~H!Gap(out[Here])
  /\ hpc = "part" =>
       /\ parts[next].space => H!Gap(out[Here]) /\ ~H!Gap(out[Here - 1])
       /\ ~parts[next].space /\ H!Gap(out[Here]) => out[Here] = H!Fold

(* The counter is the length of the line, with the part that is about to be *)
(* written; in the first line, from its first part on, the line is longer   *)
(* by no more than the head.                                                *)
Measured ==
  hpc \in {"separate", "part"} =>
    \A s \in 1 .. Here :
      H!IsLine(s, Here) =>
        /\ s # 1 => line_length = H!Length(s, Here) + Pending
        /\ s = 1 /\ (next > 1 \/ hpc = "part") =>
             H!Length(s, Here) + Pending <= line_length + H!FirstHead
        /\ hpc = "part" => line_length <= Preferred \/ (s # 1 /\ H!Written \cap s .. Here = {})

HeaderInv ==
  /\ HeaderUnfolds /\ HeaderLinesFit
  /\ Opened /\ Named /\ Numbered /\ Apart /\ Measured

(* The token t is written behind the n that there are.                      *)
Appends(t, n) ==
  /\ out \in Seq(TokenType) /\ t \in TokenType /\ out' = Append(out, t)
  /\ n \in Nat /\ n = Here

(* What has been written so far stays.                                      *)
LEMMA Appending ==
  ASSUME NEW t, NEW n, Appends(t, n)
  PROVE  /\ Here' = n + 1
         /\ out' \in Seq(TokenType) /\ out'[n + 1] = t
         /\ \A i \in 1 .. n : out'[i] = out[i]
         /\ H!Written' = IF t.kind = "part" THEN H!Written \cup {n + 1} ELSE H!Written
         /\ H!FoldsAt' = IF t = H!Fold THEN H!FoldsAt \cup {n + 1} ELSE H!FoldsAt
         /\ H!Written \subseteq 1 .. n /\ H!FoldsAt \subseteq 1 .. n
<1> USE DEF Appends
<1>1. PICK a \in Seq(TokenType) : a = out'
  OBVIOUS
<1>2. Len(a) = n + 1 /\ a[n + 1] = t /\ \A i \in 1 .. n : a[i] = out[i]
  BY <1>1 DEF Here
<1>3. DOMAIN out = 1 .. n /\ DOMAIN a = 1 .. n + 1
  BY <1>2 DEF Here
<1>4. \A i : i \in DOMAIN a <=> i \in DOMAIN out \/ i = n + 1
  BY <1>3
<1>5. {i \in DOMAIN a : a[i].kind = "part"}
      = IF t.kind = "part" THEN H!Written \cup {n + 1} ELSE H!Written
  BY <1>2, <1>3, <1>4 DEF H!Written
<1>6. {i \in DOMAIN a : a[i] = H!Fold}
      = IF t = H!Fold THEN H!FoldsAt \cup {n + 1} ELSE H!FoldsAt
  BY <1>2, <1>3, <1>4 DEF H!FoldsAt
<1>7. H!Written \subseteq 1 .. n /\ H!FoldsAt \subseteq 1 .. n
  BY <1>3 DEF H!Written, H!FoldsAt
<1>8. H!Written' = {i \in DOMAIN a : a[i].kind = "part"}
      /\ H!FoldsAt' = {i \in DOMAIN a : a[i] = H!Fold}
  BY <1>1 DEF H!Written, H!FoldsAt
<1>9. Here' = n + 1
  BY <1>1, <1>2 DEF Here
<1> QED
  BY <1>1, <1>2, <1>5, <1>6, <1>7, <1>8, <1>9

(* The lines up to each earlier place are what they were; a fold begins a   *)
(* line, and anything else lengthens the one that it follows.               *)
LEMMA LinesGrow ==
  ASSUME NEW t, NEW n, Appends(t, n)
  PROVE  /\ \A i \in 1 .. n : \A s \in 1 .. i :
              /\ H!IsLine(s, i)' <=> H!IsLine(s, i)
              /\ H!Length(s, i)' = H!Length(s, i) /\ H!Length(s, i) \in Int
         /\ \A s \in 1 .. n + 1 : H!IsLine(s, n + 1)' =>
              IF s = n + 1
                THEN (t = H!Fold \/ n = 0) /\ H!Length(s, n + 1)' = t.len
                ELSE /\ t # H!Fold /\ H!IsLine(s, n)
                     /\ H!Length(s, n + 1)' = H!Length(s, n) + t.len
<1> USE DEF H!IsLine, Appends
<1>1. /\ H!FoldsAt' = IF t = H!Fold THEN H!FoldsAt \cup {n + 1} ELSE H!FoldsAt
      /\ H!FoldsAt \subseteq 1 .. n
  BY Appending
<1>2. \A i \in 1 .. n : \A s \in 1 .. i : H!IsLine(s, i)' <=> H!IsLine(s, i)
  BY <1>1
<1>3. \A s \in 1 .. n + 1 : H!IsLine(s, n + 1)' =>
        IF s = n + 1 THEN t = H!Fold \/ n = 0 ELSE t # H!Fold /\ H!IsLine(s, n)
  <2> SUFFICES ASSUME NEW s \in 1 .. n + 1, H!IsLine(s, n + 1)'
               PROVE  IF s = n + 1 THEN t = H!Fold \/ n = 0 ELSE t # H!Fold /\ H!IsLine(s, n)
    OBVIOUS
  <2>1. CASE t = H!Fold
    BY <1>1, <2>1
  <2>2. CASE t # H!Fold
    BY <1>1, <2>2
  <2> QED
    BY <2>1, <2>2
<1>4. /\ \A i \in 0 .. n : H!Sums(out')[i] = H!Sums(out)[i] /\ H!Sums(out)[i] \in Nat
      /\ H!Sums(out')[n + 1] = H!Sums(out)[n] + t.len
      /\ t.len \in Nat
  BY SumsAppend, SumsType DEF Here, TokenType
<1>5. \A i, s : H!Length(s, i)' = H!Sums(out')[i] - H!Sums(out')[s - 1]
  BY DEF H!Length, H!Sums
<1>6. \A i \in 1 .. n : \A s \in 1 .. i :
        H!Length(s, i)' = H!Length(s, i) /\ H!Length(s, i) \in Int
  <2> SUFFICES ASSUME NEW i \in 1 .. n, NEW s \in 1 .. i
               PROVE  H!Length(s, i)' = H!Length(s, i) /\ H!Length(s, i) \in Int
    OBVIOUS
  <2>1. i \in 0 .. n /\ s - 1 \in 0 .. n
    OBVIOUS
  <2> QED
    BY <1>4, <1>5, <2>1 DEF H!Length
<1>7. \A s \in 1 .. n + 1 :
        H!Length(s, n + 1)' = IF s = n + 1 THEN t.len ELSE H!Length(s, n) + t.len
  <2> SUFFICES ASSUME NEW s \in 1 .. n + 1
               PROVE  H!Length(s, n + 1)'
                      = IF s = n + 1 THEN t.len ELSE H!Length(s, n) + t.len
    OBVIOUS
  <2>1. n \in 0 .. n /\ s - 1 \in 0 .. n
    OBVIOUS
  <2> QED
    BY <1>4, <1>5, <2>1 DEF H!Length
<1> QED
  BY <1>2, <1>3, <1>6, <1>7

(* What is assumed of the limits and of the memory.                         *)
LEMMA Limits ==
  /\ Preferred \in Nat /\ MaxLine \in Nat /\ Leftovers \subseteq Int /\ HostLens \subseteq Nat
  /\ H!FirstHead = 12
  BY HeaderAssumption DEF H!Sensible, H!FirstHead, H!Received, H!By

(* The finite sets of the header writer are those of the library's facts.   *)
LEMMA SameFinite == \A S : H!IsFiniteSet(S) <=> IsFiniteSet(S)
  BY DEF H!IsFiniteSet, IsFiniteSet

(* The instance counts as this module does.                                 *)
LEMMA SameCardinality == \A S : H!Cardinality(S) = Cardinality(S)
  BY SameFinite DEF H!Cardinality, Cardinality

(* A part that is written at i stands behind the gap that it asks for.      *)
InPlace(i) ==
  /\ out[i].len = H!PartAt(i).len
  /\ H!PartAt(i).space => H!Gap(out[i - 1]) /\ ~H!Gap(out[i - 2])
  /\ ~H!PartAt(i).space /\ H!Gap(out[i - 1]) => out[i - 1] = H!Fold

(* What is no part comes between parts without disturbing them.             *)
LEMMA OthersBetween ==
  ASSUME NEW t, NEW n, Appends(t, n),
         t.kind # "part", UNCHANGED <<parts, next>>, hpc' # "done",
         H!UnfoldsToParts, Numbered
  PROVE  H!UnfoldsToParts' /\ H!Written' = H!Written
<1>1. /\ \A i \in 1 .. n : out'[i] = out[i]
      /\ H!Written' = H!Written /\ H!Written \subseteq 1 .. n /\ n \in Nat
  BY Appending DEF Appends
<1>2. \A i \in H!Written : H!PartAt(i)' = H!PartAt(i)
  BY <1>1 DEF H!PartAt
<1>3. ASSUME NEW i \in H!Written
      PROVE  InPlace(i)'
  <2>1. i \in 1 .. n /\ i > 2
    BY <1>1 DEF Numbered
  <2>2. i - 1 \in 1 .. n /\ i - 2 \in 1 .. n
    BY <1>1, <2>1
  <2>3. out'[i] = out[i] /\ out'[i - 1] = out[i - 1] /\ out'[i - 2] = out[i - 2]
    BY <1>1, <2>1, <2>2
  <2>4. InPlace(i)
    BY DEF H!UnfoldsToParts, InPlace
  <2> QED
    BY <1>2, <2>3, <2>4 DEF InPlace, H!Gap, H!Fold, H!Token
<1> QED
  BY <1>1, <1>3 DEF H!UnfoldsToParts, InPlace

(* What LinesFit says of one line.                                          *)
Fits(s, i) ==
  IF s = 1
    THEN H!Length(s, i) <= Preferred + H!FirstHead
    ELSE H!Length(s, i) > Preferred => \A j, k \in H!Written \cap s .. i : j = k

(* The lines fit as long as the one that is written at does.                *)
LEMMA LastLineFits ==
  ASSUME NEW t, NEW n, Appends(t, n), H!LinesFit,
         \A s \in 1 .. n + 1 : H!IsLine(s, n + 1)' => Fits(s, n + 1)'
  PROVE  H!LinesFit'
<1> USE DEF Appends
<1>1. /\ DOMAIN out' = 1 .. n + 1 /\ DOMAIN out = 1 .. n
      /\ H!Written' \ {n + 1} \subseteq H!Written
  <2>1. Len(out) = n
    BY DEF Here
  <2>2. H!Written' = IF t.kind = "part" THEN H!Written \cup {n + 1} ELSE H!Written
    BY Appending
  <2> QED
    BY <2>1, <2>2
<1>2. \A i \in 1 .. n : \A s \in 1 .. i :
        /\ H!IsLine(s, i)' <=> H!IsLine(s, i)
        /\ H!Length(s, i)' = H!Length(s, i)
  BY LinesGrow
<1>3. ASSUME NEW i \in 1 .. n + 1, NEW s \in 1 .. i, H!IsLine(s, i)'
      PROVE  Fits(s, i)'
  <2>1. CASE i = n + 1
    BY <1>3, <2>1
  <2>2. CASE i # n + 1
    <3>1. i \in 1 .. n /\ i \in DOMAIN out
      BY <1>1, <2>2
    <3>2. H!IsLine(s, i) /\ H!Length(s, i)' = H!Length(s, i)
      BY <1>2, <1>3, <3>1
    <3>3. H!Written' \cap s .. i \subseteq H!Written \cap s .. i
      BY <1>1, <3>1
    <3> QED
      BY <3>1, <3>2, <3>3 DEF H!LinesFit, Fits
  <2> QED
    BY <2>1, <2>2
<1> QED
  BY <1>1, <1>3 DEF H!LinesFit, Fits

(* What TypeOK says of the header, element by element.                      *)
LEMMA HeaderTypes ==
  ASSUME H!TypeOK
  PROVE  out \in Seq(TokenType) /\ Here \in Nat /\ line_length \in Int /\ next \in 1 .. Len(parts) + 1
         /\ parts \in Seq([len : Nat, space : BOOLEAN]) /\ Len(parts) \in Nat
         /\ \A k \in 1 .. Len(parts) : parts[k].len \in Nat /\ parts[k].space \in BOOLEAN
<1>1. parts \in Seq([len : Nat, space : BOOLEAN]) /\ Len(parts) \in Nat
  BY DEF H!TypeOK
<1>2. \A k \in 1 .. Len(parts) : parts[k] \in [len : Nat, space : BOOLEAN]
  BY <1>1, Element
<1> QED
  BY <1>1, <1>2 DEF H!TypeOK, TokenType, Here

(* In the beginning nothing is written, in the metadata's behaviours ever.  *)
LEMMA HeaderInit == WritersInit => HeaderInv
<1> SUFFICES ASSUME WritersInit
             PROVE  HeaderInv
  OBVIOUS
<1>1. out = <<>> /\ next = 1 /\ hpc \in {"name", "done"}
  BY DEF WritersInit, NoHeader, H!Init
<1>2. H!Written = {} /\ H!FoldsAt = {} /\ Here = 0 /\ DOMAIN out = {}
  BY <1>1 DEF H!Written, H!FoldsAt, Here
<1>3. IsFiniteSet(H!Written) /\ Cardinality(H!Written) = 0 /\ H!Cardinality(H!Written) = 0
  BY <1>2, FS_EmptySet, SameCardinality
<1>4. /\ parts \in Seq([len : Nat, space : BOOLEAN]) /\ line_length \in Int
      /\ hpc = "name" => parts # <<>> /\ parts[1] = H!Part(H!By, TRUE)
      /\ hpc = "done" => Len(parts) = 0
  <2>1. CASE H!Init
    <3>1. PICK host \in HostLens : parts = H!TraceParts(host)
      BY <2>1 DEF H!Init
    <3>2. host \in Nat /\ line_length \in Int
      BY <2>1, Limits DEF H!Init
    <3> QED
      BY <2>1, <3>1, <3>2 DEF H!TraceParts, H!Part, H!By, H!Init
  <2>2. CASE NoHeader
    BY <2>2 DEF NoHeader
  <2> QED
    BY <2>1, <2>2 DEF WritersInit
<1>5. H!TypeOK
  <2>1. Len(parts) \in Nat
    BY <1>4
  <2> QED
    BY <1>1, <1>4, <2>1 DEF H!TypeOK
<1>6. H!UnfoldsToParts /\ H!LinesFit
  BY <1>1, <1>2, <1>3, <1>4 DEF H!UnfoldsToParts, H!LinesFit
<1>7. Named /\ Apart /\ Measured
  BY <1>1, <1>2 DEF Named, Apart, Measured
<1>8. Opened
  BY <1>1, <1>4, Zenon DEF Opened
<1>9. Numbered
  BY <1>1, <1>2, <1>3, <1>4 DEF Numbered
<1> QED
  BY <1>5, <1>6, <1>7, <1>8, <1>9 DEF HeaderInv, HeaderUnfolds, HeaderLinesFit

(* What is not written disturbs nothing.                                    *)
LEMMA NothingWritten ==
  ASSUME HeaderInv, UNCHANGED <<parts, next, out>>, hpc' # "done" \/ next = Len(parts) + 1
  PROVE  /\ H!UnfoldsToParts' /\ H!LinesFit'
         /\ Here' = Here /\ H!Written' = H!Written
         /\ \A s, i : (H!IsLine(s, i)' <=> H!IsLine(s, i)) /\ H!Length(s, i)' = H!Length(s, i)
<1>1. H!Written' = H!Written /\ H!FoldsAt' = H!FoldsAt /\ Here' = Here
  BY DEF H!Written, H!FoldsAt, H!Fold, H!Token, Here
<1>2. \A s, i : (H!IsLine(s, i)' <=> H!IsLine(s, i)) /\ H!Length(s, i)' = H!Length(s, i)
  BY <1>1 DEF H!IsLine, H!Length, H!Sums
<1>3. H!LinesFit'
  BY <1>1, <1>2 DEF HeaderInv, HeaderLinesFit, H!LinesFit
<1>4. \A i \in H!Written : InPlace(i)'
  <2>1. \A i \in H!Written : InPlace(i)
    BY DEF HeaderInv, HeaderUnfolds, H!UnfoldsToParts, InPlace
  <2>2. \A i : H!PartAt(i)' = H!PartAt(i)
    BY <1>1 DEF H!PartAt
  <2> QED
    BY <2>1, <2>2 DEF InPlace, H!Gap, H!Fold, H!Token
<1>5. hpc' = "done" => H!Cardinality(H!Written) = Len(parts)
  <2> SUFFICES ASSUME next = Len(parts) + 1
               PROVE  H!Cardinality(H!Written) = Len(parts)
    OBVIOUS
  <2>1. next = Cardinality(H!Written) + 1 /\ Cardinality(H!Written) \in Nat /\ Len(parts) \in Nat
    BY HeaderTypes, FS_CardinalityType DEF HeaderInv, Numbered, HeaderUnfolds
  <2> QED
    BY <2>1, SameCardinality
<1>6. H!UnfoldsToParts'
  BY <1>1, <1>4, <1>5 DEF H!UnfoldsToParts, InPlace
<1> QED
  BY <1>1, <1>2, <1>3, <1>6

(* Nor does the other writer.                                               *)
LEMMA HeaderStutters == ASSUME HeaderInv, UNCHANGED headerVars PROVE HeaderInv'
<1>1. UNCHANGED <<parts, line_length, next, out, hpc>>
  BY DEF headerVars
<1>2. hpc' # "done" \/ next = Len(parts) + 1
  BY <1>1 DEF HeaderInv, Numbered
<1>3. /\ H!UnfoldsToParts' /\ H!LinesFit' /\ H!Written' = H!Written /\ Here' = Here
      /\ \A s, i : (H!IsLine(s, i)' <=> H!IsLine(s, i)) /\ H!Length(s, i)' = H!Length(s, i)
  BY <1>1, <1>2, NothingWritten
<1>4. H!TypeOK'
  BY <1>1 DEF HeaderInv, HeaderUnfolds, H!TypeOK
<1>5. Opened' /\ Named' /\ Numbered'
  BY <1>1, <1>3 DEF HeaderInv, Opened, Named, Numbered, H!Part
<1>6. Apart'
  BY <1>1, <1>3 DEF HeaderInv, Apart, H!Gap, H!Fold, H!Token
<1>7. Measured'
  BY <1>1, <1>3 DEF HeaderInv, Measured, Pending
<1> QED
  BY <1>3, <1>4, <1>5, <1>6, <1>7 DEF HeaderInv, HeaderUnfolds, HeaderLinesFit

(* The header ends, or one of its writes fails.                             *)
LEMMA EndStep == ASSUME HeaderInv, H!EndHeader \/ H!Fail PROVE HeaderInv'
<1>1. /\ UNCHANGED <<parts, line_length, next, out>> /\ hpc' \in {"done", "failed"}
      /\ hpc' = "done" => next = Len(parts) + 1
      /\ hpc # "done"
  BY DEF H!EndHeader, H!Fail, HeaderInv, Numbered
<1>2. H!UnfoldsToParts' /\ H!LinesFit' /\ H!Written' = H!Written
  BY <1>1, NothingWritten
<1>3. H!TypeOK'
  BY <1>1 DEF HeaderInv, HeaderUnfolds, H!TypeOK
<1>4. Opened' /\ Named' /\ Numbered' /\ Apart' /\ Measured'
  BY <1>1, <1>2 DEF HeaderInv, Opened, Named, Numbered, Apart, Measured
<1> QED
  BY <1>2, <1>3, <1>4 DEF HeaderInv, HeaderUnfolds, HeaderLinesFit

(* The name begins the first line, to which nothing is compared yet.        *)
LEMMA NameStep == ASSUME HeaderInv, H!BeginHeader, hpc = "name" PROVE HeaderInv'
<1> DEFINE t == H!Token("name", H!Received)
<1>1. /\ next = 1 /\ Here = 0 /\ out' = Append(out, t) /\ hpc' = "colon"
      /\ line_length' = line_length + 8 /\ UNCHANGED <<parts, next>>
  BY DEF HeaderInv, Named, H!BeginHeader, H!Write, H!Received
<1>2. H!TypeOK /\ H!UnfoldsToParts /\ H!LinesFit /\ Numbered /\ Opened
  BY DEF HeaderInv, HeaderUnfolds, HeaderLinesFit
<1>3. t \in TokenType /\ t.kind = "name" /\ t.len = 8 /\ out \in Seq(TokenType)
  BY <1>1, <1>2, HeaderTypes DEF TokenType, H!Token, H!Received
<1> HIDE DEF t
<1>a. Appends(t, 0)
  BY <1>1, <1>3 DEF Appends
<1>4. H!UnfoldsToParts' /\ H!Written' = H!Written
  BY <1>1, <1>2, <1>3, <1>a, OthersBetween
<1>5. H!LinesFit'
  <2>1. \A s \in 1 .. 0 + 1 : H!IsLine(s, 0 + 1)' => s = 1 /\ H!Length(s, 0 + 1)' = 8
    <3>1. \A s \in 1 .. 0 + 1 : H!IsLine(s, 0 + 1)' => s = 0 + 1 /\ H!Length(s, 0 + 1)' = 8
      BY <1>3, <1>a, LinesGrow
    <3> QED
      BY <3>1
  <2>2. \A s \in 1 .. 0 + 1 : H!IsLine(s, 0 + 1)' => Fits(s, 0 + 1)'
    BY <2>1, Limits DEF Fits
  <2> QED
    BY <1>2, <1>a, <2>2, LastLineFits, Zenon
<1>6. H!TypeOK'
  <2>1. out' \in Seq(TokenType) /\ line_length' \in Int
    BY <1>1, <1>2, <1>3, HeaderTypes
  <2> QED
    BY <1>1, <1>2, <2>1 DEF H!TypeOK, TokenType
<1>7. Opened' /\ Numbered' /\ Apart' /\ Measured'
  BY <1>1, <1>2, <1>4 DEF Opened, Numbered, Apart, Measured, H!Part
<1>8. Named'
  <2>1. Here' = 1
    BY <1>a, Appending
  <2>2. 1 \in {1} \cup H!FoldsAt' /\ \A f \in H!FoldsAt' : ~(1 < f /\ f <= 1)
    <3>1. H!FoldsAt' \subseteq 1 .. 1
      BY <1>3, <1>a, Appending
    <3> QED
      BY <3>1
  <2>3. H!IsLine(1, 0 + 1)'
    BY <2>2 DEF H!IsLine
  <2>4. H!Length(1, 0 + 1)' = 8
    BY <1>3, <1>a, <2>3, LinesGrow
  <2> QED
    BY <1>1, <2>1, <2>4 DEF Named
<1> QED
  BY <1>4, <1>5, <1>6, <1>7, <1>8 DEF HeaderInv, HeaderUnfolds, HeaderLinesFit

(* The colon is not counted.                                                *)
LEMMA ColonStep == ASSUME HeaderInv, H!BeginHeader, hpc = "colon" PROVE HeaderInv'
<1> DEFINE t == H!Token("colon", 1)
<1>1. /\ next = 1 /\ Here = 1 /\ H!Length(1, 1) = 8
      /\ out' = Append(out, t) /\ hpc' = "separate"
      /\ UNCHANGED <<parts, next, line_length>>
  BY DEF HeaderInv, Named, H!BeginHeader, H!Write
<1>2. H!TypeOK /\ H!UnfoldsToParts /\ H!LinesFit /\ Numbered /\ Opened
  BY DEF HeaderInv, HeaderUnfolds, HeaderLinesFit
<1>3. /\ t \in TokenType /\ t.kind = "colon" /\ t # H!Fold /\ t.len = 1
      /\ out \in Seq(TokenType)
  BY <1>1, <1>2, HeaderTypes DEF TokenType, H!Token, H!Fold
<1>a. Appends(t, 1)
  BY <1>1, <1>3 DEF Appends
<1>4. H!UnfoldsToParts' /\ H!Written' = H!Written
  <2> HIDE DEF t
  <2> QED
    BY <1>1, <1>2, <1>3, <1>a, OthersBetween
<1>5. \A s \in 1 .. 1 + 1 : H!IsLine(s, 1 + 1)' => s = 1 /\ H!Length(s, 1 + 1)' = 9
  <2>1. \A s \in 1 .. 1 + 1 : H!IsLine(s, 1 + 1)' =>
          s # 1 + 1 /\ H!Length(s, 1 + 1)' = H!Length(s, 1) + 1
    <3> HIDE DEF t
    <3> QED
      BY <1>3, <1>a, LinesGrow
  <2> QED
    BY <1>1, <2>1
<1>6. H!LinesFit'
  <2>1. \A s \in 1 .. 1 + 1 : H!IsLine(s, 1 + 1)' => Fits(s, 1 + 1)'
    BY <1>5, Limits DEF Fits
  <2> HIDE DEF t
  <2> QED
    BY <1>2, <1>a, <2>1, LastLineFits, Zenon
<1>7. H!TypeOK'
  <2>1. out' \in Seq(TokenType)
    BY <1>1, <1>3
  <2>2. next <= Len(parts)
    <3>1. next = 1
      BY <1>1
    <3>2. parts # <<>> /\ Len(parts) \in Nat /\ parts \in Seq([len : Nat, space : BOOLEAN])
      BY <1>2, HeaderTypes DEF Opened
    <3>3. Len(parts) >= 1
      BY <3>2
    <3> QED
      BY <3>1, <3>2, <3>3
  <2> QED
    BY <1>1, <1>2, <2>1, <2>2 DEF H!TypeOK, TokenType
<1>8. Opened' /\ Numbered'
  BY <1>1, <1>2, <1>4 DEF Opened, Numbered, H!Part
<1>9. Here' = 2 /\ out'[2] = t /\ H!FoldsAt' = H!FoldsAt /\ H!FoldsAt \subseteq 1 .. 1
  <2>1. Here' = 1 + 1 /\ out'[1 + 1] = t /\ H!FoldsAt' = H!FoldsAt /\ H!FoldsAt \subseteq 1 .. 1
    <3> HIDE DEF t
    <3> QED
      BY <1>3, <1>a, Appending, Zenon
  <2> QED
    BY <2>1
<1>10. Apart'
  <2>1. ~H!Gap(t)
    BY DEF H!Gap, H!Token
  <2>2. ~H!Gap(out[Here])'
    BY <1>9, <2>1 DEF H!Gap
  <2>3. Here' >= 2
    BY <1>9
  <2> QED
    BY <1>1, <2>2, <2>3, Zenon DEF Apart
<1>11. Named'
  <2>1. H!IsLine(1, 1 + 1)'
    BY <1>9 DEF H!IsLine
  <2>2. H!Length(1, 1 + 1)' = 9
    BY <1>5, <2>1
  <2> QED
    BY <1>1, <1>9, <2>2 DEF Named
<1>12. Measured'
  BY <1>1, <1>5, <1>9 DEF Measured
<1> QED
  BY <1>4, <1>6, <1>7, <1>8, <1>10, <1>11, <1>12 DEF HeaderInv, HeaderUnfolds, HeaderLinesFit

(* What separates a part from the one before, and what it does to the       *)
(* counter.                                                                 *)
LEMMA Separators ==
  ASSUME H!TypeOK, H!Separate
  PROVE  /\ hpc = "separate" /\ hpc' = "part" /\ UNCHANGED <<parts, next>>
         /\ next \in 1 .. Len(parts)
         /\ \/ /\ H!Folds
               /\ out' = Append(out, H!Fold) /\ line_length' = 1 + parts[next].len
            \/ /\ ~H!Folds /\ parts[next].space
               /\ out' = Append(out, H!Blank)
               /\ line_length' = line_length + 1 + parts[next].len
               /\ line_length' <= Preferred /\ line_length' >= 0
            \/ /\ ~H!Folds /\ ~parts[next].space
               /\ out' = out
               /\ line_length' = line_length + parts[next].len
               /\ line_length' <= Preferred
<1>1. /\ out \in Seq(TokenType) /\ line_length \in Int /\ Preferred \in Nat
      /\ next \in 1 .. Len(parts) /\ parts[next].len \in Nat /\ parts[next].space \in BOOLEAN
  <2>1. next \in 1 .. Len(parts)
    BY HeaderTypes DEF H!TypeOK, H!Separate
  <2> QED
    BY <2>1, HeaderTypes, Limits
<1>2. H!Fold \in TokenType /\ H!Blank \in TokenType
  BY DEF H!Fold, H!Blank, H!Token, TokenType
<1>3. /\ out \o <<H!Fold>> = Append(out, H!Fold) /\ out \o <<H!Blank>> = Append(out, H!Blank)
      /\ out \o <<>> = out /\ Append(out, H!Fold) \o <<>> = Append(out, H!Fold)
  BY <1>1, <1>2
<1>4. CASE H!Folds
  <2>1. ~H!NeedsBlank
    BY <1>4 DEF H!NeedsBlank
  <2>2. out' = (out \o <<H!Fold>>) \o <<>> /\ line_length' = H!Indent + parts[next].len
    BY <1>4, <2>1, Zenon DEF H!Separate
  <2> QED
    BY <1>1, <1>3, <1>4, <2>2 DEF H!Separate, H!Indent
<1>5. CASE ~H!Folds /\ parts[next].space
  <2>1. H!NeedsBlank
    BY <1>5 DEF H!NeedsBlank
  <2>2. out' = (out \o <<>>) \o <<H!Blank>> /\ line_length' = line_length + 1 + parts[next].len
    BY <1>5, <2>1, Zenon DEF H!Separate
  <2>3. ~H!Over(line_length + 1 + parts[next].len)
    BY <1>5, Zenon DEF H!Folds
  <2>4. line_length' <= Preferred /\ line_length' >= 0
    BY <1>1, <2>2, <2>3 DEF H!Over
  <2> QED
    BY <1>1, <1>3, <1>5, <2>2, <2>4 DEF H!Separate
<1>6. CASE ~H!Folds /\ ~parts[next].space
  <2>1. ~H!NeedsBlank
    BY <1>6 DEF H!NeedsBlank
  <2>2. out' = (out \o <<>>) \o <<>> /\ line_length' = line_length + parts[next].len
    BY <1>6, <2>1, Zenon DEF H!Separate
  <2>3. ~H!Over(line_length + 0 + parts[next].len)
    BY <1>6, Zenon DEF H!Folds
  <2>4. line_length' <= Preferred
    BY <1>1, <2>2, <2>3 DEF H!Over
  <2> QED
    BY <1>1, <1>3, <1>6, <2>2, <2>4 DEF H!Separate
<1> QED
  BY <1>1, <1>4, <1>5, <1>6

(* What is the same wherever a part is separated.                           *)
LEMMA SeparatedRest ==
  ASSUME HeaderInv, H!Separate, out' \in Seq(TokenType), line_length' \in Int,
         H!Written' = H!Written
  PROVE  H!TypeOK' /\ Opened' /\ Named' /\ Numbered'
<1>1. /\ hpc = "separate" /\ hpc' = "part" /\ UNCHANGED <<parts, next>> /\ next \in 1 .. Len(parts)
      /\ H!TypeOK /\ Opened /\ Numbered
  BY Separators DEF HeaderInv, HeaderUnfolds
<1>2. next <= Len(parts)
  BY <1>1
<1>3. H!TypeOK'
  BY <1>1, <1>2 DEF H!TypeOK, TokenType
<1> QED
  BY <1>1, <1>3 DEF Opened, Named, Numbered, H!Part

(* A fold begins a line, whose length the counter is from then on.          *)
LEMMA FoldStep == ASSUME HeaderInv, H!Separate, H!Folds PROVE HeaderInv'
<1>1. /\ hpc = "separate" /\ hpc' = "part" /\ UNCHANGED <<parts, next>>
      /\ out' = Append(out, H!Fold) /\ line_length' = 1 + parts[next].len
      /\ next \in 1 .. Len(parts)
  BY Separators DEF HeaderInv, HeaderUnfolds
<1>2. H!TypeOK /\ H!UnfoldsToParts /\ H!LinesFit /\ Numbered /\ Apart
  BY DEF HeaderInv, HeaderUnfolds, HeaderLinesFit
<1>3. /\ out \in Seq(TokenType) /\ parts[next].len \in Nat
      /\ H!Fold \in TokenType /\ H!Fold.kind = "fold" /\ H!Fold.len = 1
  BY <1>1, <1>2, HeaderTypes DEF H!Fold, H!Token, TokenType
<1>4. PICK n \in Nat : n = Here /\ n >= 2
  BY <1>1, <1>2, HeaderTypes DEF Apart
<1>a. Appends(H!Fold, n)
  BY <1>1, <1>3, <1>4 DEF Appends
<1>5. H!UnfoldsToParts' /\ H!Written' = H!Written /\ H!Written \subseteq 1 .. n
  BY <1>1, <1>2, <1>3, <1>a, OthersBetween, Appending
<1>6. \A s \in 1 .. n + 1 : H!IsLine(s, n + 1)' => s = n + 1 /\ H!Length(s, n + 1)' = 1
  BY <1>3, <1>a, LinesGrow
<1>7. H!Written' \cap n + 1 .. n + 1 = {}
  BY <1>5
<1>8. H!LinesFit'
  <2>1. \A s \in 1 .. n + 1 : H!IsLine(s, n + 1)' => Fits(s, n + 1)'
    BY <1>4, <1>6, <1>7 DEF Fits
  <2> QED
    BY <1>2, <1>a, <2>1, LastLineFits, Zenon
<1>9. /\ Here' = n + 1 /\ out'[n + 1] = H!Fold /\ out'[n] = out[n] /\ out' \in Seq(TokenType)
  <2>1. n \in 1 .. n
    BY <1>4
  <2> QED
    BY <1>a, <2>1, Appending
<1>10. Apart'
  <2>1. H!Gap(out'[n + 1])
    BY <1>9 DEF H!Gap, H!Fold, H!Token
  <2>2. ~H!Gap(out'[n]) /\ n + 1 >= 2 /\ (n + 1) - 1 = n
    BY <1>1, <1>2, <1>4, <1>9 DEF Apart
  <2> QED
    BY <1>1, <1>9, <2>1, <2>2 DEF Apart, H!Gap, H!Fold, H!Token
<1>11. Measured'
  <2> SUFFICES ASSUME NEW s \in 1 .. n + 1, H!IsLine(s, n + 1)'
               PROVE  /\ s # 1 /\ H!Written' \cap s .. n + 1 = {}
                      /\ line_length' = H!Length(s, n + 1)' + Pending'
    BY <1>1, <1>9 DEF Measured
  <2>1. Pending' = parts[next].len
    BY <1>1 DEF Pending
  <2> QED
    BY <1>1, <1>4, <1>6, <1>7, <2>1
<1>12. line_length' \in Int
  BY <1>1, <1>3
<1> QED
  BY <1>5, <1>8, <1>9, <1>10, <1>11, <1>12, SeparatedRest DEF HeaderInv, HeaderUnfolds, HeaderLinesFit

(* A blank is written where the part fits behind it: so the counter was not *)
(* below zero, nor the head longer than it by more than itself.             *)
LEMMA BlankStep ==
  ASSUME HeaderInv, H!Separate, ~H!Folds, parts[next].space
  PROVE  HeaderInv'
<1>1. /\ hpc = "separate" /\ hpc' = "part" /\ UNCHANGED <<parts, next>>
      /\ out' = Append(out, H!Blank) /\ line_length' = line_length + 1 + parts[next].len
      /\ line_length' <= Preferred /\ line_length' >= 0
      /\ next \in 1 .. Len(parts)
  BY Separators DEF HeaderInv, HeaderUnfolds
<1>2. H!TypeOK /\ H!UnfoldsToParts /\ H!LinesFit /\ Numbered /\ Apart /\ Opened /\ Named /\ Measured
  BY DEF HeaderInv, HeaderUnfolds, HeaderLinesFit
<1>3. /\ out \in Seq(TokenType) /\ parts[next].len \in Nat /\ line_length \in Int
      /\ H!Blank \in TokenType /\ H!Blank.kind = "blank" /\ H!Blank.len = 1 /\ H!Blank # H!Fold
  BY <1>1, <1>2, HeaderTypes DEF H!Fold, H!Blank, H!Token, TokenType
<1>4. PICK n \in Nat : n = Here /\ n >= 2
  BY <1>1, <1>2, HeaderTypes DEF Apart
<1>a. Appends(H!Blank, n)
  BY <1>1, <1>3, <1>4 DEF Appends
<1>5. H!UnfoldsToParts' /\ H!Written' = H!Written
  BY <1>1, <1>2, <1>3, <1>a, OthersBetween
<1>6. ASSUME NEW s \in 1 .. n + 1, H!IsLine(s, n + 1)'
      PROVE  /\ s # 1 => H!Length(s, n + 1)' + parts[next].len = line_length'
             /\ s = 1 => H!Length(s, n + 1)' + parts[next].len <= line_length' + H!FirstHead
             /\ H!Length(s, n + 1)' \in Int
  <2>1. s # n + 1 /\ H!IsLine(s, n) /\ H!Length(s, n + 1)' = H!Length(s, n) + 1
    <3>1. \A r \in 1 .. n + 1 : H!IsLine(r, n + 1)' =>
            r # n + 1 /\ H!IsLine(r, n) /\ H!Length(r, n + 1)' = H!Length(r, n) + 1
      BY <1>3, <1>4, <1>a, LinesGrow
    <3> QED
      BY <1>6, <3>1, Zenon
  <2>2. s \in 1 .. n /\ n \in 1 .. n /\ H!Length(s, n) \in Int
    <3>1. s \in 1 .. n /\ n \in 1 .. n
      BY <1>4, <2>1
    <3> QED
      BY <1>a, <3>1, LinesGrow
  <2>3. /\ s # 1 => line_length = H!Length(s, n) + 0
        /\ s = 1 /\ next > 1 => H!Length(s, n) + 0 <= line_length + H!FirstHead
    BY <1>1, <1>2, <1>4, <2>1, <2>2 DEF Measured, Pending
  <2>4. s = 1 /\ ~(next > 1) => H!Length(s, n) = 9 /\ parts[next].len = 2
    <3> SUFFICES ASSUME s = 1, ~(next > 1)
                 PROVE  H!Length(1, n) = 9 /\ parts[next].len = 2
      OBVIOUS
    <3>1. next = 1
      BY <1>1
    <3>2. n = 2 /\ H!Length(1, 2) = 9
      BY <1>1, <1>2, <1>4, <3>1 DEF Named
    <3>3. parts[1] = H!Part(H!By, TRUE)
      BY <1>1, <1>2 DEF Opened
    <3> QED
      BY <3>1, <3>2, <3>3 DEF H!Part, H!By
  <2> DEFINE a == H!Length(s, n)
             b == H!Length(s, n + 1)'
  <2>5. b = a + 1 /\ a \in Int
    BY <2>1, <2>2
  <2>6. /\ s # 1 => line_length = a
        /\ s = 1 /\ next > 1 => a <= line_length + 12
        /\ s = 1 /\ ~(next > 1) => a = 9 /\ parts[next].len = 2
    BY <2>2, <2>3, <2>4, Limits
  <2> HIDE DEF a, b
  <2>7. /\ s # 1 => b + parts[next].len = line_length'
        /\ s = 1 => b + parts[next].len <= line_length' + 12
        /\ b \in Int
    BY <1>1, <1>3, <2>5, <2>6
  <2> QED
    BY <2>7, Limits DEF b
<1>7. H!LinesFit'
  <2>1. ASSUME NEW s \in 1 .. n + 1, H!IsLine(s, n + 1)'
        PROVE  Fits(s, n + 1)'
    <3>1. PICK b \in Int : b = H!Length(s, n + 1)'
      BY <1>6, <2>1
    <3>2. /\ s # 1 => b + parts[next].len = line_length'
          /\ s = 1 => b + parts[next].len <= line_length' + 12
      BY <1>6, <2>1, <3>1, Limits
    <3>3. (s = 1 => b <= Preferred + 12) /\ (s # 1 => ~(b > Preferred))
      BY <1>1, <1>3, <3>2, Limits
    <3> QED
      BY <3>1, <3>3, Limits DEF Fits
  <2> QED
    BY <1>2, <1>a, <2>1, LastLineFits, Zenon
<1>8. /\ Here' = n + 1 /\ out'[n + 1] = H!Blank /\ out'[n] = out[n] /\ out' \in Seq(TokenType)
  <2>1. n \in 1 .. n
    BY <1>4
  <2> QED
    BY <1>a, <2>1, Appending
<1>9. Apart'
  <2>1. H!Gap(out'[n + 1])
    BY <1>8 DEF H!Gap, H!Blank, H!Token
  <2>2. ~H!Gap(out'[n]) /\ n + 1 >= 2 /\ (n + 1) - 1 = n
    BY <1>1, <1>2, <1>4, <1>8 DEF Apart
  <2> QED
    BY <1>1, <1>8, <2>1, <2>2 DEF Apart, H!Gap
<1>10. Measured'
  <2> SUFFICES ASSUME NEW s \in 1 .. n + 1, H!IsLine(s, n + 1)'
               PROVE  /\ s # 1 => line_length' = H!Length(s, n + 1)' + Pending'
                      /\ s = 1 => H!Length(s, n + 1)' + Pending' <= line_length' + H!FirstHead
    BY <1>1, <1>8 DEF Measured
  <2>1. Pending' = parts[next].len
    BY <1>1 DEF Pending
  <2> QED
    BY <1>6, <2>1
<1>11. line_length' \in Int
  BY <1>1, <1>3
<1> QED
  BY <1>5, <1>7, <1>8, <1>9, <1>10, <1>11, SeparatedRest DEF HeaderInv, HeaderUnfolds, HeaderLinesFit

(* Nothing separates a part that is to follow at once, and is not the first. *)
LEMMA NoBlankStep ==
  ASSUME HeaderInv, H!Separate, ~H!Folds, ~parts[next].space
  PROVE  HeaderInv'
<1>1. /\ hpc = "separate" /\ hpc' = "part" /\ UNCHANGED <<parts, next, out>>
      /\ line_length' = line_length + parts[next].len /\ line_length' <= Preferred
      /\ next \in 1 .. Len(parts)
  BY Separators DEF HeaderInv, HeaderUnfolds
<1>2. H!TypeOK /\ Numbered /\ Apart /\ Opened /\ Measured
  BY DEF HeaderInv, HeaderUnfolds
<1>3. out \in Seq(TokenType) /\ parts[next].len \in Nat /\ line_length \in Int
  BY <1>1, <1>2, HeaderTypes
<1>4. PICK n \in Nat : n = Here /\ n >= 2
  BY <1>1, <1>2, HeaderTypes DEF Apart
<1>5. /\ H!UnfoldsToParts' /\ H!LinesFit' /\ H!Written' = H!Written /\ Here' = n
      /\ \A s \in 1 .. n : (H!IsLine(s, n)' <=> H!IsLine(s, n)) /\ H!Length(s, n)' = H!Length(s, n)
  BY <1>1, <1>4, NothingWritten
<1>6. next > 1
  <2>1. parts[1].space
    BY <1>1, <1>2 DEF Opened, H!Part
  <2>2. next # 1
    BY <2>1
  <2> QED
    BY <1>1, <2>2
<1>7. Apart'
  <2>1. ~H!Gap(out[n])
    BY <1>1, <1>2, <1>4 DEF Apart
  <2>2. ~H!Gap(out'[n])
    BY <1>1, <2>1 DEF H!Gap
  <2> QED
    BY <1>1, <1>4, <1>5, <2>2 DEF Apart, H!Gap
<1>8. Measured'
  <2> SUFFICES ASSUME NEW s \in 1 .. n, H!IsLine(s, n)'
               PROVE  /\ s # 1 => line_length' = H!Length(s, n)' + Pending'
                      /\ s = 1 => H!Length(s, n)' + Pending' <= line_length' + H!FirstHead
    BY <1>1, <1>5 DEF Measured
  <2>1. Pending' = parts[next].len
    BY <1>1 DEF Pending
  <2>2. n \in 1 .. n /\ H!IsLine(s, n) /\ H!Length(s, n)' = H!Length(s, n)
    BY <1>4, <1>5
  <2>3. /\ s # 1 => line_length = H!Length(s, n) + 0
        /\ s = 1 => H!Length(s, n) + 0 <= line_length + H!FirstHead
    BY <1>1, <1>2, <1>4, <1>6, <2>2 DEF Measured, Pending
  <2>4. H!Length(s, n) \in Int
    <3>1. n \in 0 .. n /\ s - 1 \in 0 .. n
      BY <1>4
    <3>2. H!Sums(out)[n] \in Nat /\ H!Sums(out)[s - 1] \in Nat
      BY <1>3, <1>4, <3>1, SumsType DEF Here
    <3> QED
      BY <3>2 DEF H!Length
  <2> QED
    BY <1>1, <1>3, <2>1, <2>2, <2>3, <2>4, Limits
<1>9. line_length' \in Int /\ out' \in Seq(TokenType)
  BY <1>1, <1>3
<1> QED
  BY <1>5, <1>7, <1>8, <1>9, SeparatedRest DEF HeaderInv, HeaderUnfolds, HeaderLinesFit

(* A part goes behind its gap, as the next of the parts, and to the end of  *)
(* a line that has room for it or has no other part.                        *)
LEMMA PartStep == ASSUME HeaderInv, H!WritePart PROVE HeaderInv'
<1> DEFINE t == H!Token("part", parts[next].len)
<1>1. /\ hpc = "part" /\ out' = Append(out, t) /\ next' = next + 1
      /\ hpc' = (IF next = Len(parts) THEN "end" ELSE "separate")
      /\ UNCHANGED <<parts, line_length>>
  BY DEF H!WritePart, H!Write, H!LastPart
<1>2. H!TypeOK /\ H!UnfoldsToParts /\ H!LinesFit /\ Numbered /\ Apart /\ Opened /\ Measured
  BY DEF HeaderInv, HeaderUnfolds, HeaderLinesFit
<1>3. /\ next \in 1 .. Len(parts) /\ Len(parts) \in Nat
      /\ out \in Seq(TokenType) /\ line_length \in Int
      /\ parts[next].len \in Nat /\ parts[next].space \in BOOLEAN
  <2>1. next \in 1 .. Len(parts)
    BY <1>1, <1>2, HeaderTypes DEF H!TypeOK
  <2> QED
    BY <1>2, <2>1, HeaderTypes
<1>4. t \in TokenType /\ t.kind = "part" /\ t.len = parts[next].len /\ t # H!Fold
  BY <1>3 DEF H!Token, H!Fold, TokenType
<1> HIDE DEF t
<1>5. PICK n \in Nat : n = Here /\ n >= 2
  BY <1>1, <1>2, HeaderTypes DEF Apart
<1>a. Appends(t, n)
  BY <1>1, <1>3, <1>4, <1>5 DEF Appends
<1>6. /\ Here' = n + 1 /\ out' \in Seq(TokenType) /\ out'[n + 1] = t
      /\ \A i \in 1 .. n : out'[i] = out[i]
      /\ H!Written' = H!Written \cup {n + 1} /\ H!Written \subseteq 1 .. n
  BY <1>4, <1>a, Appending
<1>7. ASSUME NEW s \in 1 .. n + 1, H!IsLine(s, n + 1)'
      PROVE  /\ s # 1 => H!Length(s, n + 1)' = line_length
             /\ s = 1 => H!Length(s, n + 1)' <= line_length + H!FirstHead
             /\ line_length <= Preferred \/ (s # 1 /\ H!Written \cap s .. n = {})
             /\ H!Length(s, n + 1)' \in Int
  <2>1. s # n + 1 /\ H!IsLine(s, n) /\ H!Length(s, n + 1)' = H!Length(s, n) + parts[next].len
    <3>1. \A r \in 1 .. n + 1 : H!IsLine(r, n + 1)' =>
            /\ r # n + 1 /\ H!IsLine(r, n)
            /\ H!Length(r, n + 1)' = H!Length(r, n) + parts[next].len
      BY <1>4, <1>5, <1>a, LinesGrow
    <3> QED
      BY <1>7, <3>1, Zenon
  <2>2. s \in 1 .. n /\ n \in 1 .. n
    BY <1>5, <2>1
  <2>3. H!Length(s, n) \in Int
    BY <1>a, <2>2, LinesGrow
  <2>4. /\ s # 1 => line_length = H!Length(s, n) + parts[next].len
        /\ s = 1 => H!Length(s, n) + parts[next].len <= line_length + H!FirstHead
        /\ line_length <= Preferred \/ (s # 1 /\ H!Written \cap s .. n = {})
    BY <1>1, <1>2, <1>5, <2>1, <2>2 DEF Measured, Pending
  <2> QED
    BY <1>3, <2>1, <2>3, <2>4
<1>8. H!LinesFit'
  <2>1. ASSUME NEW s \in 1 .. n + 1, H!IsLine(s, n + 1)'
        PROVE  Fits(s, n + 1)'
    <3>1. PICK b \in Int : b = H!Length(s, n + 1)'
      BY <1>7, <2>1
    <3>2. /\ s # 1 => b = line_length
          /\ s = 1 => b <= line_length + 12
          /\ line_length <= Preferred \/ (s # 1 /\ H!Written \cap s .. n = {})
      BY <1>7, <2>1, <3>1, Limits
    <3>3. CASE s = 1
      <4>1. b <= Preferred + 12
        BY <1>3, <3>2, <3>3, Limits
      <4> QED
        BY <3>1, <3>3, <4>1, Limits DEF Fits
    <3>4. CASE s # 1 /\ b > Preferred
      <4>1. H!Written \cap s .. n = {}
        BY <1>3, <3>2, <3>4, Limits
      <4>2. \A i \in H!Written' \cap s .. n + 1 : i = n + 1
        BY <1>6, <4>1
      <4> QED
        BY <3>4, <4>2 DEF Fits
    <3>5. CASE s # 1 /\ ~(b > Preferred)
      BY <3>1, <3>5 DEF Fits
    <3> QED
      BY <3>3, <3>4, <3>5
  <2> QED
    BY <1>2, <1>a, <2>1, LastLineFits, Zenon
<1>9. /\ IsFiniteSet(H!Written') /\ Cardinality(H!Written') = next
      /\ Cardinality(H!Written) \in Nat /\ next = Cardinality(H!Written) + 1
  <2>1. IsFiniteSet(H!Written) /\ next = Cardinality(H!Written) + 1 /\ n + 1 \notin H!Written
    BY <1>2, <1>6 DEF Numbered
  <2> QED
    BY <1>6, <2>1, FS_AddElement, FS_CardinalityType
<1>10. \A i \in H!Written' : InPlace(i)'
  <2>1. ASSUME NEW i \in H!Written
        PROVE  InPlace(i)'
    <3>1. i \in 1 .. n /\ i > 2
      BY <1>2, <1>6 DEF Numbered
    <3>2. i - 1 \in 1 .. n /\ i - 2 \in 1 .. n
      BY <3>1
    <3>3. out'[i] = out[i] /\ out'[i - 1] = out[i - 1] /\ out'[i - 2] = out[i - 2]
      BY <1>6, <3>1, <3>2
    <3>4. {j \in H!Written' : j <= i} = {j \in H!Written : j <= i}
      BY <1>6, <3>1
    <3>5. H!PartAt(i)' = H!PartAt(i)
      BY <1>1, <3>4 DEF H!PartAt
    <3>6. InPlace(i)
      BY <1>2 DEF H!UnfoldsToParts, InPlace
    <3> QED
      BY <3>3, <3>5, <3>6 DEF InPlace, H!Gap, H!Fold, H!Token
  <2>2. InPlace(n + 1)'
    <3>1. {j \in H!Written' : j <= n + 1} = H!Written'
      <4>1. \A j \in H!Written' : j <= n + 1
        BY <1>6
      <4> QED
        BY <4>1, Zenon
    <3>2. H!Cardinality({j \in H!Written' : j <= n + 1}) = next
      BY <1>9, <3>1, SameCardinality
    <3>3. H!PartAt(n + 1)' = parts[next]
      BY <1>1, <3>2 DEF H!PartAt
    <3>4. /\ parts[next].space => H!Gap(out[n]) /\ ~H!Gap(out[n - 1])
          /\ ~parts[next].space /\ H!Gap(out[n]) => out[n] = H!Fold
      BY <1>1, <1>2, <1>5 DEF Apart
    <3>5. /\ (n + 1) - 1 = n /\ (n + 1) - 2 = n - 1
          /\ out'[n] = out[n] /\ out'[n - 1] = out[n - 1]
      <4>1. n \in 1 .. n /\ n - 1 \in 1 .. n /\ (n + 1) - 1 = n /\ (n + 1) - 2 = n - 1
        BY <1>5
      <4> QED
        BY <1>6, <4>1
    <3> QED
      BY <1>4, <1>6, <3>3, <3>4, <3>5 DEF InPlace, H!Gap, H!Fold, H!Token
  <2> QED
    BY <1>6, <2>1, <2>2
<1>11. H!UnfoldsToParts'
  BY <1>1, <1>10 DEF H!UnfoldsToParts, InPlace
<1>12. Numbered'
  BY <1>1, <1>2, <1>3, <1>5, <1>6, <1>9 DEF Numbered
<1>13. H!TypeOK'
  <2>1. next' \in 1 .. Len(parts) + 1 /\ (hpc' = "separate" => next' <= Len(parts))
    BY <1>1, <1>3
  <2> QED
    BY <1>1, <1>2, <1>3, <1>6, <2>1 DEF H!TypeOK, TokenType
<1>14. Opened' /\ Named'
  BY <1>1, <1>2, <1>3 DEF Opened, Named, H!Part
<1>15. Apart'
  <2>1. ~H!Gap(out'[n + 1])
    BY <1>4, <1>6 DEF H!Gap
  <2>2. n + 1 >= 2
    BY <1>5
  <2> QED
    BY <1>1, <1>6, <2>1, <2>2 DEF Apart, H!Gap
<1>16. Measured'
  <2> SUFFICES ASSUME hpc' = "separate", NEW s \in 1 .. n + 1, H!IsLine(s, n + 1)'
               PROVE  /\ s # 1 => line_length' = H!Length(s, n + 1)' + Pending'
                      /\ s = 1 => H!Length(s, n + 1)' + Pending' <= line_length' + H!FirstHead
    BY <1>1, <1>6 DEF Measured
  <2>1. Pending' = 0
    BY DEF Pending
  <2> QED
    BY <1>1, <1>3, <1>7, <2>1
<1> QED
  BY <1>8, <1>11, <1>12, <1>13, <1>14, <1>15, <1>16 DEF HeaderInv, HeaderUnfolds, HeaderLinesFit

(* Every step of either writer preserves the invariant.                     *)
LEMMA HeaderNext == HeaderInv /\ [WritersNext]_<<which, vars, headerVars>> => HeaderInv'
<1> SUFFICES ASSUME HeaderInv, [WritersNext]_<<which, vars, headerVars>>
             PROVE  HeaderInv'
  OBVIOUS
<1>1. CASE H!BeginHeader
  BY <1>1, NameStep, ColonStep DEF H!BeginHeader
<1>2. CASE H!Separate
  BY <1>2, FoldStep, BlankStep, NoBlankStep
<1>3. CASE H!WritePart
  BY <1>3, PartStep
<1>4. CASE H!EndHeader \/ H!Fail
  BY <1>4, EndStep
<1>5. CASE UNCHANGED headerVars
  BY <1>5, HeaderStutters
<1> QED
  BY <1>1, <1>2, <1>3, <1>4, <1>5 DEF WritersNext, H!Next

(* The header, however far it is written, is made of its parts and lines.   *)
THEOREM HeaderInvariant == WritersSpec => []HeaderInv
  BY HeaderInit, HeaderNext, PTL DEF WritersSpec

(* The header unfolds to its parts, for a hostname of any length, whatever  *)
(* the limits and the memory.                                               *)
THEOREM Unfolding == WritersSpec => []HeaderUnfolds
<1>1. HeaderInv => HeaderUnfolds
  BY DEF HeaderInv
<1> QED
  BY <1>1, HeaderInvariant, PTL

(* A line of it is too long for no other reason than a part that is, and    *)
(* the first line not even for the memory that its counter starts from.     *)
THEOREM Folding == WritersSpec => []HeaderLinesFit
<1>1. HeaderInv => HeaderLinesFit
  BY DEF HeaderInv
<1> QED
  BY <1>1, HeaderInvariant, PTL

(* The run of the two writers contains that of the metadata: what holds for *)
(* Spec holds there.                                                        *)
THEOREM MetadataAlone == WritersSpec => Spec
<1>1. WritersInit => Init
  BY DEF WritersInit
<1>2. [WritersNext]_<<which, vars, headerVars>> => [Next]_vars
  BY DEF WritersNext, vars
<1> QED
  BY <1>1, <1>2, PTL DEF WritersSpec, Spec

=============================================================================
