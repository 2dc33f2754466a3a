---------------------------- MODULE ArchiveProofs ----------------------------
(***************************************************************************)
(* That a complete message file holds both entries whole, and that one that *)
(* is left at any time claims nothing it does not hold, for blocks, sizes   *)
(* and writes of every length.                                              *)
(***************************************************************************)
EXTENDS Archive, SetInduction

-----------------------------------------------------------------------------
(* Sizes in octal                                                           *)

(* g is the first powers of 8, up to the n-th.                              *)
IsPower(g, n) == g = [k \in 0 .. n |-> IF k = 0 THEN 1 ELSE 8 * g[k - 1]]

(* The powers of 8: their recursion has a solution.                         *)
LEMMA PowersOf8 ==
  /\ Power8[0] = 1
  /\ \A k \in 0 .. Digits : Power8[k] \in Nat \ {0}
  /\ \A k \in 1 .. Digits : Power8[k] = 8 * Power8[k - 1]
<1> DEFINE T == {n \in Nat : \E g \in [0 .. n -> Nat \ {0}] : IsPower(g, n)}
<1>1. 0 \in T
  <2> DEFINE g == [k \in 0 .. 0 |-> 1]
  <2>1. g \in [0 .. 0 -> Nat \ {0}] /\ IsPower(g, 0)
    BY DEF IsPower
  <2> QED
    BY <2>1
<1>2. ASSUME NEW n \in T
      PROVE  n + 1 \in T
  <2>1. PICK g \in [0 .. n -> Nat \ {0}] : IsPower(g, n)
    OBVIOUS
  <2> DEFINE h == [k \in 0 .. n + 1 |-> IF k = n + 1 THEN 8 * g[n] ELSE g[k]]
  <2>2. h \in [0 .. n + 1 -> Nat \ {0}]
    OBVIOUS
  <2>3. \A k \in 0 .. n + 1 : h[k] = IF k = 0 THEN 1 ELSE 8 * h[k - 1]
    <3>1. \A k \in 0 .. n : g[k] = IF k = 0 THEN 1 ELSE 8 * g[k - 1]
      BY <2>1 DEF IsPower
    <3>2. n \in Nat /\ h[n + 1] = 8 * h[n]
      OBVIOUS
    <3>3. \A k \in 0 .. n : h[k] = g[k] /\ (k # 0 => h[k - 1] = g[k - 1])
      OBVIOUS
    <3> HIDE DEF h
    <3>4. ASSUME NEW k \in 0 .. n + 1, k # n + 1
          PROVE  h[k] = IF k = 0 THEN 1 ELSE 8 * h[k - 1]
      <4>1. k \in 0 .. n
        BY <3>2, <3>4
      <4> QED
        BY <3>1, <3>3, <4>1
    <3>5. n + 1 # 0 /\ (n + 1) - 1 = n
      BY <3>2
    <3> QED
      BY <3>2, <3>4, <3>5
  <2>4. IsPower(h, n + 1)
    <3> HIDE DEF h
    <3> QED
      BY <2>2, <2>3 DEF IsPower
  <2>5. \E m \in [0 .. n + 1 -> Nat \ {0}] : IsPower(m, n + 1)
    <3> HIDE DEF h, T
    <3> QED
      BY <2>2, <2>4, Zenon
  <2>6. n + 1 \in Nat
    OBVIOUS
  <2> QED
    BY <2>5, <2>6
<1>3. \E g : IsPower(g, Digits)
  BY <1>1, <1>2, Induction, SizesAssumption
<1> DEFINE f == CHOOSE g : g = [k \in 0 .. Digits |-> IF k = 0 THEN 1 ELSE 8 * g[k - 1]]
<1>4. IsPower(f, Digits)
  BY <1>3 DEF IsPower
<1>5. Power8 = f
  BY DEF Power8
<1>6. \A k \in 0 .. Digits : Power8[k] = IF k = 0 THEN 1 ELSE 8 * Power8[k - 1]
  <2> HIDE DEF f
  <2> QED
    BY <1>4, <1>5 DEF IsPower
<1>7. \A k \in Nat : k <= Digits => Power8[k] \in Nat \ {0}
  <2> DEFINE U == {k \in Nat : k <= Digits => Power8[k] \in Nat \ {0}}
  <2>1. 0 \in U
    BY <1>6, SizesAssumption
  <2>2. ASSUME NEW k \in U
        PROVE  k + 1 \in U
    <3> SUFFICES ASSUME k + 1 <= Digits
                 PROVE  Power8[k + 1] \in Nat \ {0}
      OBVIOUS
    <3>1. Power8[k] \in Nat \ {0} /\ k + 1 \in 0 .. Digits /\ k + 1 # 0 /\ (k + 1) - 1 = k
      BY SizesAssumption
    <3>2. Power8[k + 1] = 8 * Power8[k]
      BY <1>6, <3>1
    <3> QED
      BY <3>1, <3>2
  <2>3. U = Nat
    BY <2>1, <2>2, Induction
  <2> QED
    BY <2>3
<1> QED
  BY <1>6, <1>7, SizesAssumption

(* Dividing by 8 w is dividing by w and then by 8.                          *)
LEMMA DigitStep ==
  ASSUME NEW n \in Nat, NEW w \in Nat \ {0}
  PROVE  n \div w \in Nat /\ 8 * (n \div (8 * w)) + ((n \div w) % 8) = n \div w
OBVIOUS

(* The digits are digits.                                                   *)
LEMMA OctalType ==
  ASSUME NEW v \in Nat
  PROVE  Octal(v) \in Seq(0 .. 7) /\ Len(Octal(v)) = Digits
<1>1. ASSUME NEW k \in 1 .. Digits
      PROVE  (v \div Power8[Digits - k]) % 8 \in 0 .. 7
  <2>1. Digits - k \in 0 .. Digits
    BY SizesAssumption
  <2>2. PICK w \in Nat \ {0} : w = Power8[Digits - k]
    BY <2>1, PowersOf8
  <2>3. v \div w \in Nat
    BY DigitStep
  <2> QED
    BY <2>2, <2>3
<1> QED
  BY <1>1, SizesAssumption DEF Octal

(* g is the value of the first digits, up to n of them.                     *)
IsValue(g, digits, n) ==
  g = [k \in 0 .. n |-> IF k = 0 THEN 0 ELSE 8 * g[k - 1] + digits[k]]

(* The recursion of a size that is read has a solution, in the naturals.    *)
LEMMA ValueExists ==
  ASSUME NEW digits \in Seq(0 .. 7)
  PROVE  \E g : /\ \A k \in 0 .. Len(digits) : g[k] \in Nat
                /\ IsValue(g, digits, Len(digits))
                /\ Decoded(digits) = g[Len(digits)]
<1> DEFINE Has(n) == \E g \in [0 .. n -> Nat] : IsValue(g, digits, n)
           T == {n \in Nat : n <= Len(digits) => Has(n)}
<1>1. 0 \in T
  <2> DEFINE g == [k \in 0 .. 0 |-> 0]
  <2>1. g \in [0 .. 0 -> Nat] /\ IsValue(g, digits, 0)
    BY DEF IsValue
  <2> QED
    BY <2>1
<1>2. ASSUME NEW n \in T
      PROVE  n + 1 \in T
  <2> SUFFICES ASSUME n + 1 <= Len(digits)
               PROVE  Has(n + 1)
    OBVIOUS
  <2>1. n \in Nat /\ n <= Len(digits) /\ Len(digits) \in Nat
    OBVIOUS
  <2>2. PICK g \in [0 .. n -> Nat] : IsValue(g, digits, n)
    BY <2>1
  <2>3. PICK d \in Nat : d = digits[n + 1]
    <3>1. digits[n + 1] \in 0 .. 7
      BY <2>1
    <3> QED
      BY <3>1
  <2> DEFINE h == [k \in 0 .. n + 1 |-> IF k = n + 1 THEN 8 * g[n] + d ELSE g[k]]
  <2>4. h \in [0 .. n + 1 -> Nat]
    BY <2>1
  <2>5. \A k \in 0 .. n + 1 : h[k] = IF k = 0 THEN 0 ELSE 8 * h[k - 1] + digits[k]
    <3>1. \A k \in 0 .. n : g[k] = IF k = 0 THEN 0 ELSE 8 * g[k - 1] + digits[k]
      BY <2>2 DEF IsValue
    <3>2. h[n + 1] = 8 * h[n] + d
      BY <2>1
    <3>3. \A k \in 0 .. n : h[k] = g[k] /\ (k # 0 => h[k - 1] = g[k - 1])
      BY <2>1
    <3> HIDE DEF h
    <3>4. ASSUME NEW k \in 0 .. n + 1, k # n + 1
          PROVE  h[k] = IF k = 0 THEN 0 ELSE 8 * h[k - 1] + digits[k]
      <4>1. k \in 0 .. n
        BY <2>1, <3>4
      <4> QED
        BY <3>1, <3>3, <4>1
    <3>5. n + 1 # 0 /\ (n + 1) - 1 = n
      BY <2>1
    <3> QED
      BY <2>3, <3>2, <3>4, <3>5
  <2>6. IsValue(h, digits, n + 1)
    <3> HIDE DEF h
    <3> QED
      BY <2>4, <2>5 DEF IsValue
  <2> QED
    BY <2>4, <2>6
<1>3. Has(Len(digits))
  <2>1. Len(digits) \in Nat /\ Len(digits) <= Len(digits)
    OBVIOUS
  <2> HIDE DEF Has
  <2> QED
    BY <1>1, <1>2, <2>1, Induction
<1> DEFINE f == CHOOSE g : g = [k \in 0 .. Len(digits) |-> IF k = 0 THEN 0 ELSE 8 * g[k - 1] + digits[k]]
<1>4. IsValue(f, digits, Len(digits))
  BY <1>3 DEF IsValue
<1>5. Decoded(digits) = f[Len(digits)]
  BY DEF Decoded
<1> HIDE DEF f
<1>6. \A k \in Nat : k <= Len(digits) => f[k] \in Nat
  <2> DEFINE U == {k \in Nat : k <= Len(digits) => f[k] \in Nat}
  <2>1. 0 \in U
    BY <1>4 DEF IsValue
  <2>2. ASSUME NEW k \in U
        PROVE  k + 1 \in U
    <3> SUFFICES ASSUME k + 1 <= Len(digits)
                 PROVE  f[k + 1] \in Nat
      OBVIOUS
    <3>1. k \in Nat /\ k <= Len(digits) /\ Len(digits) \in Nat /\ f[k] \in Nat
      OBVIOUS
    <3>2. k + 1 \in 1 .. Len(digits) /\ k + 1 \in 0 .. Len(digits) /\ k + 1 # 0 /\ (k + 1) - 1 = k
      BY <3>1
    <3>3. digits[k + 1] \in Nat
      <4>1. digits[k + 1] \in 0 .. 7
        BY <3>2
      <4> QED
        BY <4>1
    <3>4. f[k + 1] = 8 * f[k] + digits[k + 1]
      BY <1>4, <3>2 DEF IsValue
    <3> QED
      BY <3>1, <3>3, <3>4
  <2>3. U = Nat
    BY <2>1, <2>2, Induction
  <2> QED
    BY <2>3
<1>7. \A k \in 0 .. Len(digits) : f[k] \in Nat
  <2>1. Len(digits) \in Nat
    OBVIOUS
  <2> QED
    BY <1>6, <2>1
<1> QED
  BY <1>4, <1>5, <1>7

(* What is written in octal is read back, if it has no more digits.         *)
LEMMA OctalIsRead ==
  ASSUME NEW v \in Nat, v < Power8[Digits]
  PROVE  Decoded(Octal(v)) = v
<1>1. PICK o : o \in Seq(0 .. 7) /\ o = Octal(v) /\ Len(o) = Digits
  BY OctalType
<1>2. PICK g : /\ \A k \in 0 .. Digits : g[k] \in Nat
              /\ IsValue(g, o, Digits) /\ Decoded(o) = g[Digits]
  BY <1>1, ValueExists
<1>3. \A k \in 0 .. Digits : Power8[k] \in Nat \ {0}
  BY PowersOf8
<1> DEFINE T == {k \in Nat : k <= Digits => g[k] = v \div Power8[Digits - k]}
<1>4. 0 \in T
  <2>1. g[0] = 0
    BY <1>1, <1>2, SizesAssumption DEF IsValue
  <2>2. PICK w \in Nat \ {0} : w = Power8[Digits]
    BY <1>3, SizesAssumption
  <2>3. v \div w = 0
    BY <2>2
  <2> QED
    BY <2>1, <2>2, <2>3, SizesAssumption
<1>5. ASSUME NEW k \in T
      PROVE  k + 1 \in T
  <2> SUFFICES ASSUME k + 1 <= Digits
               PROVE  g[k + 1] = v \div Power8[Digits - (k + 1)]
    OBVIOUS
  <2>1. PICK w \in Nat \ {0} : w = Power8[Digits - (k + 1)]
    BY <1>3, SizesAssumption
  <2>2. Power8[Digits - k] = 8 * w
    <3>1. Digits - k \in 1 .. Digits /\ (Digits - k) - 1 = Digits - (k + 1)
      BY SizesAssumption
    <3> QED
      BY <2>1, <3>1, PowersOf8
  <2>3. g[k] = v \div (8 * w)
    BY <2>2, SizesAssumption
  <2>4. o[k + 1] = (v \div w) % 8
    <3>1. k + 1 \in 1 .. Digits
      BY SizesAssumption
    <3> QED
      BY <1>1, <2>1, <3>1 DEF Octal
  <2>5. g[k + 1] = 8 * g[k] + o[k + 1]
    <3>1. k + 1 \in 0 .. Digits /\ k + 1 # 0 /\ (k + 1) - 1 = k
      BY <1>1, SizesAssumption
    <3> QED
      BY <1>2, <3>1 DEF IsValue
  <2> QED
    BY <2>1, <2>3, <2>4, <2>5, DigitStep
<1>6. T = Nat
  BY <1>4, <1>5, Induction
<1>7. g[Digits] = v \div Power8[0]
  BY <1>6, SizesAssumption
<1> QED
  BY <1>1, <1>2, <1>7, PowersOf8

-----------------------------------------------------------------------------
(* What is written                                                          *)

(* The bytes of a write are bytes, as many as are meant.                    *)
LEMMA ZerosType ==
  ASSUME NEW n \in Nat
  PROVE  Zeros(n) \in Seq(ByteType) /\ Len(Zeros(n)) = n /\ \A k \in 1 .. n : Zeros(n)[k] = Zero
<1>1. Zero \in ByteType
  BY DEF Zero, Byte, ByteType
<1> QED
  BY <1>1 DEF Zeros

(* The bytes of a piece of text or metadata.                                *)
LEMMA PieceType ==
  ASSUME NEW origin \in {"text", "metadata"}, NEW first \in Nat, first >= 1, NEW n \in Nat
  PROVE  /\ Piece(origin, first, n) \in Seq(ByteType)
         /\ Len(Piece(origin, first, n)) = n
         /\ \A k \in 1 .. n : Piece(origin, first, n)[k] = Byte(origin, first + k - 1)
<1>1. \A k \in 1 .. n : Byte(origin, first + k - 1) \in ByteType
  BY DEF Byte, ByteType
<1> QED
  BY <1>1 DEF Piece

(* The same of a piece from the first byte on.                              *)
LEMMA PieceFromFirst ==
  ASSUME NEW origin \in {"text", "metadata"}, NEW n \in Nat
  PROVE  /\ Piece(origin, 1, n) \in Seq(ByteType)
         /\ Len(Piece(origin, 1, n)) = n
         /\ \A k \in 1 .. n : Piece(origin, 1, n)[k] = Byte(origin, k)
<1>1. \A k \in 1 .. n : 1 + k - 1 = k
  OBVIOUS
<1>2. \A k \in 1 .. n : Byte(origin, k) \in ByteType
  BY DEF Byte, ByteType
<1> QED
  BY <1>1, <1>2 DEF Piece

(* A header is a block of bytes that carry its name and its size.           *)
LEMMA TarHeaderType ==
  ASSUME NEW name \in {"message.mbox", "metadata.ervan"}, NEW v \in Nat
  PROVE  /\ TarHeader(name, v) \in Seq(ByteType)
         /\ Len(TarHeader(name, v)) = Block
         /\ \A k \in 1 .. Block : TarHeader(name, v)[k] = [of |-> name, at |-> k, told |-> Octal(v)]
<1>1. Octal(v) \in Seq(0 .. 7)
  BY OctalType
<1>2. \A k \in 1 .. Block : [of |-> name, at |-> k, told |-> Octal(v)] \in ByteType
  BY <1>1, SizesAssumption DEF ByteType
<1> QED
  BY <1>2, SizesAssumption DEF TarHeader

(* Padding ends a block: it fills the last one, or it is a whole one.       *)
Padded(n) == n + (Block - (n % Block))

(* What is padded has whole blocks, and at least one byte of padding.       *)
LEMMA PaddedSize ==
  ASSUME NEW n \in Nat
  PROVE  /\ Padded(n) \in Nat /\ Padded(n) > n
         /\ Padding(n) = Zeros(Padded(n) - n)
         /\ Padded(n) = (n \div Block + 1) * Block
<1>1. PICK m \in Nat \ {0} : m = Block
  BY SizesAssumption
<1>2. n \div m \in Nat /\ (n % m) \in 0 .. m - 1 /\ n = m * (n \div m) + (n % m)
  OBVIOUS
<1>3. PICK q \in Nat, r \in Nat : q = n \div m /\ r = (n % m)
  BY <1>2
<1>4. r < m /\ n = m * q + r
  BY <1>2, <1>3
<1>5. n + (m - r) = (q + 1) * m
  BY <1>4
<1>6. n + (m - r) \in Nat /\ n + (m - r) > n /\ (n + (m - r)) - n = m - r
  BY <1>4
<1> QED
  BY <1>1, <1>3, <1>5, <1>6 DEF Padded, Padding

(* A part of the bytes, and bytes behind bytes.                             *)
LEMMA PartType ==
  ASSUME NEW s \in Seq(ByteType), NEW i \in Nat, NEW j \in Nat, j <= Len(s)
  PROVE  /\ SubSeq(s, i + 1, j) \in Seq(ByteType)
         /\ Len(SubSeq(s, i + 1, j)) = IF j <= i THEN 0 ELSE j - i
         /\ \A k \in 1 .. j - i : SubSeq(s, i + 1, j)[k] = s[i + k]
<1>1. Len(s) \in Nat
  OBVIOUS
<1>2. CASE j <= i
  BY <1>1, <1>2
<1>3. CASE j > i
  <2>1. SubSeq(s, i + 1, j) \in Seq(ByteType)
    BY <1>1, <1>3
  <2>2. Len(SubSeq(s, i + 1, j)) = j - i
    BY <1>1, <1>3
  <2>3. \A k \in 1 .. j - i : SubSeq(s, i + 1, j)[k] = s[i + k]
    BY <1>1, <1>3
  <2> QED
    BY <1>3, <2>1, <2>2, <2>3
<1> QED
  BY <1>2, <1>3

(* The bytes of two pieces one behind the other.                            *)
LEMMA JoinType ==
  ASSUME NEW s \in Seq(ByteType), NEW t \in Seq(ByteType)
  PROVE  /\ s \o t \in Seq(ByteType)
         /\ Len(s \o t) = Len(s) + Len(t)
         /\ \A k \in 1 .. Len(s) : (s \o t)[k] = s[k]
         /\ \A k \in 1 .. Len(t) : (s \o t)[Len(s) + k] = t[k]
OBVIOUS

(* What a write leaves: its bytes at the place of the file, and around them *)
(* what was there.                                                          *)
LEMMA Writing ==
  ASSUME NEW bytes \in Seq(ByteType), file \in Seq(ByteType), pos \in 0 .. Len(file)
  PROVE  /\ Overwritten(bytes) \in Seq(ByteType)
         /\ Len(Overwritten(bytes)) = IF pos + Len(bytes) > Len(file) THEN pos + Len(bytes) ELSE Len(file)
         /\ \A k \in 1 .. Len(bytes) : Overwritten(bytes)[pos + k] = bytes[k]
         /\ \A k \in 1 .. Len(file) :
              k <= pos \/ k > pos + Len(bytes) => Overwritten(bytes)[k] = file[k]
<1>1. PICK p \in Nat, n \in Nat, l \in Nat : p = pos /\ n = Len(bytes) /\ l = Len(file) /\ p <= l
  <2>1. Len(file) \in Nat /\ Len(bytes) \in Nat
    OBVIOUS
  <2> QED
    BY <2>1
<1> DEFINE a == SubSeq(file, 1, p)
           c == SubSeq(file, (p + n) + 1, l)
           ab == a \o bytes
           w == ab \o c
<1>2. a \in Seq(ByteType) /\ Len(a) = p /\ \A k \in 1 .. p : a[k] = file[k]
  BY <1>1, PartType
<1>3. /\ c \in Seq(ByteType)
      /\ Len(c) = IF l <= p + n THEN 0 ELSE l - (p + n)
      /\ \A k \in 1 .. l - (p + n) : c[k] = file[p + n + k]
  <2>1. p + n \in Nat /\ l <= Len(file)
    BY <1>1
  <2> QED
    BY <2>1, PartType
<1> HIDE DEF a, c
<1>4. /\ ab \in Seq(ByteType) /\ Len(ab) = p + n
      /\ \A k \in 1 .. p : ab[k] = a[k]
      /\ \A k \in 1 .. n : ab[p + k] = bytes[k]
  <2>1. a \in Seq(ByteType)
    BY <1>2
  <2>2. /\ ab \in Seq(ByteType) /\ Len(ab) = Len(a) + Len(bytes)
        /\ \A k \in 1 .. Len(a) : ab[k] = a[k]
        /\ \A k \in 1 .. Len(bytes) : ab[Len(a) + k] = bytes[k]
    BY <2>1, JoinType, Zenon
  <2> HIDE DEF ab
  <2> QED
    BY <1>1, <1>2, <2>2
<1> HIDE DEF ab
<1>5. /\ w \in Seq(ByteType) /\ Len(w) = (p + n) + Len(c)
      /\ \A k \in 1 .. p + n : w[k] = ab[k]
      /\ \A k \in 1 .. Len(c) : w[p + n + k] = c[k]
  <2>1. ab \in Seq(ByteType) /\ c \in Seq(ByteType)
    BY <1>3, <1>4
  <2>2. /\ w \in Seq(ByteType) /\ Len(w) = Len(ab) + Len(c)
        /\ \A k \in 1 .. Len(ab) : w[k] = ab[k]
        /\ \A k \in 1 .. Len(c) : w[Len(ab) + k] = c[k]
    BY <2>1, JoinType, Zenon
  <2> HIDE DEF w
  <2> QED
    BY <1>4, <2>2
<1> HIDE DEF w
<1>6. w = Overwritten(bytes)
  BY <1>1 DEF Overwritten, w, ab, a, c
<1>7. \A k \in 1 .. n : w[p + k] = bytes[k]
  BY <1>4, <1>5
<1>8. \A k \in 1 .. p : w[k] = file[k]
  BY <1>2, <1>4, <1>5
<1>9. \A k \in 1 .. l : k > p + n => w[k] = file[k]
  <2> SUFFICES ASSUME NEW k \in 1 .. l, k > p + n
               PROVE  w[k] = file[k]
    OBVIOUS
  <2>1. k - (p + n) \in 1 .. Len(c) /\ k - (p + n) \in 1 .. l - (p + n) /\ p + n + (k - (p + n)) = k
    BY <1>3
  <2> QED
    BY <1>3, <1>5, <2>1
<1>10. Len(w) = IF p + n > l THEN p + n ELSE l
  BY <1>3, <1>5
<1>11. \A k \in 1 .. l : k <= p \/ k > p + n => w[k] = file[k]
  <2>1. \A k \in 1 .. l : k <= p => k \in 1 .. p
    OBVIOUS
  <2> QED
    BY <1>8, <1>9, <2>1
<1> QED
  BY <1>1, <1>5, <1>6, <1>7, <1>10, <1>11

-----------------------------------------------------------------------------
(* What a reader finds                                                      *)

(* The file has the bytes b behind its first o bytes.                       *)
Holds(f, o, b) ==
  /\ o + Len(b) <= Len(f)
  /\ \A k \in 1 .. Len(b) : f[o + k] = b[k]

(* It skips the blocks of a body, of which there is none or more.           *)
LEMMA BlocksOfType ==
  ASSUME NEW n \in Nat
  PROVE  BlocksOf(n) \in Nat
<1>1. PICK m \in Nat \ {0} : m = Block
  BY SizesAssumption
<1>2. (n + m - 1) \in Nat
  OBVIOUS
<1>3. (n + m - 1) \div m \in Nat
  BY <1>2
<1> QED
  BY <1>1, <1>3 DEF BlocksOf

(* A size that is read is a size.                                           *)
LEMMA DecodedType ==
  ASSUME NEW digits \in Seq(0 .. 7)
  PROVE  Decoded(digits) \in Nat
<1>1. PICK g : /\ \A k \in 0 .. Len(digits) : g[k] \in Nat
               /\ Decoded(digits) = g[Len(digits)]
  BY ValueExists
<1>2. Len(digits) \in 0 .. Len(digits)
  OBVIOUS
<1> QED
  BY <1>1, <1>2

(* The block b is in the file when the file reaches to its end.             *)
LEMMA BlockInside ==
  ASSUME NEW b \in Nat, NEW l \in Nat
  PROVE  /\ b * Block \in Nat
         /\ (b + 1) * Block = b * Block + Block
         /\ b < l \div Block <=> b * Block + Block <= l
<1>1. PICK m \in Nat \ {0} : m = Block
  BY SizesAssumption
<1>2. PICK q \in Nat, r \in Nat : q = l \div m /\ r < m /\ l = q * m + r
  <2>1. l \div m \in Nat /\ (l % m) \in 0 .. m - 1 /\ l = m * (l \div m) + (l % m)
    OBVIOUS
  <2> QED
    BY <2>1
<1>3. b * m \in Nat /\ (b + 1) * m = b * m + m
  OBVIOUS
<1>4. ASSUME b < q
      PROVE  b * m + m <= l
  <2>1. PICK d \in Nat : q = b + 1 + d
    <3>1. q - (b + 1) \in Nat /\ q = b + 1 + (q - (b + 1))
      BY <1>4
    <3> QED
      BY <3>1
  <2>2. q * m = b * m + m + d * m /\ d * m \in Nat
    BY <2>1
  <2> QED
    BY <1>2, <1>3, <2>2
<1>5. ASSUME ~(b < q)
      PROVE  ~(b * m + m <= l)
  <2>1. PICK d \in Nat : b = q + d
    <3>1. b - q \in Nat /\ b = q + (b - q)
      BY <1>5
    <3> QED
      BY <3>1
  <2>2. b * m = q * m + d * m /\ d * m \in Nat /\ q * m \in Nat
    BY <2>1
  <2> QED
    BY <1>2, <1>3, <2>2
<1> QED
  BY <1>1, <1>2, <1>3, <1>4, <1>5

(* A block of the file.                                                     *)
LEMMA BlockType ==
  ASSUME file \in Seq(ByteType), NEW b \in Nat, b * Block + Block <= Len(file)
  PROVE  /\ BlockAt(b) \in Seq(ByteType)
         /\ Len(BlockAt(b)) = Block
         /\ \A k \in 1 .. Block : BlockAt(b)[k] = file[b * Block + k]
<1>1. Len(file) \in Nat
  OBVIOUS
<1>2. PICK i \in Nat, m \in Nat \ {0} : i = b * Block /\ m = Block /\ (b + 1) * Block = i + m
  BY <1>1, BlockInside, SizesAssumption
<1>3. i + m <= Len(file) /\ i + m \in Nat /\ (i + m) - i = m /\ i + m > i
  BY <1>2
<1>4. /\ SubSeq(file, i + 1, i + m) \in Seq(ByteType)
      /\ Len(SubSeq(file, i + 1, i + m)) = m
      /\ \A k \in 1 .. m : SubSeq(file, i + 1, i + m)[k] = file[i + k]
  BY <1>3, PartType
<1> QED
  BY <1>2, <1>4 DEF BlockAt

(* What is found from b on depends on what is found behind b only.          *)
LEMMA FromBehind ==
  ASSUME file \in Seq(ByteType), NEW skip, NEW g, NEW h, NEW b \in Nat,
         \A c \in Nat : c > b => g[c] = h[c]
  PROVE  From(skip, g, b) = From(skip, h, b)
<1>1. g[b + 1] = h[b + 1]
  OBVIOUS
<1>2. Len(file) \in Nat
  OBVIOUS
<1>3. CASE b >= Len(file) \div Block
  BY <1>3 DEF From
<1>4. CASE b < Len(file) \div Block
  <2> DEFINE n == Decoded(BlockAt(b)[1].told)
  <2>1. BlockAt(b)[1] \in ByteType
    <3>1. BlockAt(b) \in Seq(ByteType) /\ Len(BlockAt(b)) = Block
      BY <1>2, <1>4, BlockInside, BlockType
    <3>2. 1 \in 1 .. Block
      BY SizesAssumption
    <3> QED
      BY <3>1, <3>2
  <2>2. n \in Nat
    BY <2>1, DecodedType DEF ByteType
  <2>3. b + 1 + BlocksOf(n) \in Nat /\ b + 1 + BlocksOf(n) > b
    <3> HIDE DEF n
    <3>1. BlocksOf(n) \in Nat
      BY <2>2, BlocksOfType
    <3> QED
      BY <3>1
  <2>4. g[b + 1 + BlocksOf(n)] = h[b + 1 + BlocksOf(n)]
    BY <2>3
  <2> QED
    BY <1>1, <2>4 DEF From
<1> QED
  <2>1. Len(file) \div Block \in Nat
    BY <1>2, SizesAssumption
  <2> QED
    BY <1>3, <1>4, <2>1

(* The recursion of the reader has a solution: from the last block back.    *)
LEMMA EntriesExist ==
  ASSUME file \in Seq(ByteType), NEW skip
  PROVE  \E g : Entries(skip) = g[0] /\ \A b \in Nat : g[b] = From(skip, g, b)
<1>1. PICK blocks \in Nat : blocks = Len(file) \div Block
  <2>1. Len(file) \in Nat
    OBVIOUS
  <2> QED
    BY <2>1, SizesAssumption
<1> DEFINE Lasts(n) == {b \in Nat : b + n >= blocks}
           Has(n) == \E g : g = [b \in Lasts(n) |-> From(skip, g, b)]
           T == {n \in Nat : Has(n)}
<1>2. 0 \in T
  <2> DEFINE g == [b \in Lasts(0) |-> <<>>]
  <2>1. \A b \in Lasts(0) : From(skip, g, b) = <<>>
    BY <1>1 DEF From
  <2>2. g = [b \in Lasts(0) |-> From(skip, g, b)]
    BY <2>1
  <2> QED
    BY <2>2
<1>3. ASSUME NEW n \in T
      PROVE  n + 1 \in T
  <2>1. PICK g : g = [b \in Lasts(n) |-> From(skip, g, b)]
    OBVIOUS
  <2> DEFINE h == [b \in Lasts(n + 1) |-> From(skip, g, b)]
  <2>2. \A b \in Lasts(n) : h[b] = g[b]
    BY <2>1
  <2>3. ASSUME NEW b \in Lasts(n + 1)
        PROVE  From(skip, g, b) = From(skip, h, b)
    <3>1. ASSUME NEW c \in Nat, c > b
          PROVE  g[c] = h[c]
      <4>1. c \in Lasts(n)
        BY <1>1, <3>1
      <4> QED
        BY <2>2, <4>1
    <3> HIDE DEF h
    <3> QED
      BY <3>1, FromBehind
  <2>4. h = [b \in Lasts(n + 1) |-> From(skip, h, b)]
    <3> HIDE DEF Lasts
    <3> QED
      BY <2>3
  <2>5. n + 1 \in Nat
    OBVIOUS
  <2> HIDE DEF h, Lasts
  <2> QED
    BY <2>4, <2>5
<1>4. Has(blocks)
  <2> HIDE DEF Has
  <2> QED
    BY <1>2, <1>3, Induction
<1>5. Lasts(blocks) = Nat
  BY <1>1
<1>6. \E g : g = [b \in Nat |-> From(skip, g, b)]
  <2> HIDE DEF Lasts
  <2> QED
    BY <1>4, <1>5
<1> DEFINE f == CHOOSE g : g = [b \in Nat |-> From(skip, g, b)]
<1>7. f = [b \in Nat |-> From(skip, f, b)]
  BY <1>6
<1>8. Entries(skip) = f[0]
  BY DEF Entries
<1> HIDE DEF f
<1> QED
  BY <1>7, <1>8

(* Sequences of bytes with the same bytes are the same.                     *)
LEMMA SameBytes ==
  ASSUME NEW s \in Seq(ByteType), NEW t \in Seq(ByteType), Len(s) = Len(t),
         \A k \in 1 .. Len(s) : s[k] = t[k]
  PROVE  s = t
OBVIOUS

(* Behind the last block nothing is found, behind an empty one what follows *)
(* or nothing, and nothing where a header was begun only.                   *)
LEMMA FromEnd ==
  ASSUME file \in Seq(ByteType), NEW skip, NEW g, NEW b \in Nat, b * Block + Block > Len(file)
  PROVE  From(skip, g, b) = <<>>
<1>1. Len(file) \in Nat
  OBVIOUS
<1>2. PICK i \in Nat, m \in Nat, l \in Nat : i = b * Block /\ m = Block /\ l = Len(file)
  BY <1>1, BlockInside, SizesAssumption
<1>3. ~(b < l \div Block)
  <2>1. ~(i + m <= l)
    BY <1>2
  <2> QED
    BY <1>2, <2>1, BlockInside
<1>4. l \div Block \in Nat
  BY SizesAssumption
<1>5. b >= l \div Block /\ ~(b < l \div Block)
  BY <1>3, <1>4
<1> QED
  BY <1>2, <1>5 DEF From

(* At an empty block a reader skips or stops.                               *)
LEMMA FromZeros ==
  ASSUME file \in Seq(ByteType), NEW skip, NEW g, NEW b \in Nat, Holds(file, b * Block, Zeros(Block))
  PROVE  From(skip, g, b) = IF skip THEN g[b + 1] ELSE <<>>
<1>1. Block \in Nat /\ Len(file) \in Nat
  BY SizesAssumption
<1>2. /\ b * Block + Block <= Len(file)
      /\ \A k \in 1 .. Block : file[b * Block + k] = Zeros(Block)[k]
  BY <1>1, ZerosType DEF Holds
<1>3. BlockAt(b) = Zeros(Block)
  BY <1>1, <1>2, BlockType, ZerosType, SameBytes
<1>4. b < Len(file) \div Block /\ ~(b >= Len(file) \div Block)
  <2>1. b < Len(file) \div Block
    BY <1>1, <1>2, BlockInside
  <2>2. Len(file) \div Block \in Nat
    BY <1>1, SizesAssumption
  <2> QED
    BY <2>1, <2>2
<1>5. ~IsHeader(BlockAt(b))
  <2>1. 1 \in 1 .. Block
    BY SizesAssumption
  <2>2. BlockAt(b)[1] = Zero
    BY <1>1, <1>3, <2>1, ZerosType
  <2>3. Zero.of = "nothing"
    BY DEF Zero, Byte
  <2> QED
    BY <2>2, <2>3 DEF IsHeader
<1> QED
  BY <1>3, <1>4, <1>5 DEF From

(* A header of which only the beginning is written is none.                 *)
LEMMA FromBegun ==
  ASSUME file \in Seq(ByteType), NEW skip, NEW g, NEW b \in Nat,
         b * Block + Block <= Len(file),
         file[b * Block + 1] # Zero, file[b * Block + Block] = Zero
  PROVE  From(skip, g, b) = <<>>
<1>1. Block \in Nat /\ Len(file) \in Nat /\ 1 \in 1 .. Block /\ Block \in 1 .. Block
  BY SizesAssumption
<1>2. BlockAt(b)[1] # Zero /\ BlockAt(b)[Block] = Zero
  BY <1>1, BlockType
<1>3. BlockAt(b) # Zeros(Block)
  BY <1>1, <1>2, ZerosType
<1>4. ~IsHeader(BlockAt(b))
  <2> SUFFICES ASSUME IsHeader(BlockAt(b))
               PROVE  FALSE
    OBVIOUS
  <2>1. BlockAt(b)[1].of \in {"message.mbox", "metadata.ervan"}
    BY DEF IsHeader
  <2>2. BlockAt(b)[Block] = [BlockAt(b)[1] EXCEPT !.at = Block]
    BY <1>1 DEF IsHeader
  <2>3. BlockAt(b)[1] \in ByteType
    BY <1>1, BlockType
  <2>4. [BlockAt(b)[1] EXCEPT !.at = Block].of = BlockAt(b)[1].of
    BY <2>3 DEF ByteType
  <2>5. Zero.of = "nothing"
    BY DEF Zero, Byte
  <2> QED
    BY <1>2, <2>1, <2>2, <2>4, <2>5
<1> QED
  BY <1>3, <1>4 DEF From

(* Where a header and all that it tells of is, the entry is found.          *)
EntryAt(b, name, origin, n) ==
  /\ Holds(file, b * Block, TarHeader(name, n))
  /\ Holds(file, (b + 1) * Block, Piece(origin, 1, n))

(* An entry is read entire, and then what follows it.                       *)
LEMMA FromEntry ==
  ASSUME file \in Seq(ByteType), NEW skip, NEW g, NEW b \in Nat,
         NEW name \in {"message.mbox", "metadata.ervan"}, NEW origin \in {"text", "metadata"},
         NEW n \in Nat, n < Power8[Digits], EntryAt(b, name, origin, n)
  PROVE  From(skip, g, b) = <<[name |-> name, body |-> Piece(origin, 1, n)]>>
                              \o g[b + 1 + BlocksOf(n)]
<1>1. Block \in Nat /\ Len(file) \in Nat /\ 1 \in 1 .. Block /\ 1 \in Nat
  BY SizesAssumption
<1> DEFINE hdr == [k \in 1 .. Block |-> [of |-> name, at |-> k, told |-> Octal(n)]]
<1>2. /\ b * Block + Block <= Len(file)
      /\ \A k \in 1 .. Block : file[b * Block + k] = hdr[k]
  BY <1>1, TarHeaderType DEF EntryAt, Holds
<1>3. \A k \in 1 .. Block : BlockAt(b)[k] = [of |-> name, at |-> k, told |-> Octal(n)]
  BY <1>2, BlockType
<1>4. BlockAt(b)[1] = [of |-> name, at |-> 1, told |-> Octal(n)]
  BY <1>1, <1>3
<1>5. BlockAt(b)[1].of = name /\ BlockAt(b)[1].told = Octal(n)
  BY <1>4
<1>6. IsHeader(BlockAt(b))
  <2>1. \A k \in 1 .. Block : BlockAt(b)[k] = [BlockAt(b)[1] EXCEPT !.at = k]
    BY <1>3, <1>4
  <2> QED
    BY <1>5, <2>1 DEF IsHeader
<1>7. BlockAt(b) # Zeros(Block)
  <2>1. Zeros(Block)[1] = Zero
    BY <1>1, ZerosType
  <2>2. Zero.of = "nothing"
    BY DEF Zero, Byte
  <2> QED
    BY <1>5, <2>1, <2>2
<1>8. Decoded(BlockAt(b)[1].told) = n
  BY <1>5, OctalIsRead
<1>9. Body(b + 1, n) = Piece(origin, 1, n)
  <2>1. PICK i \in Nat : i = (b + 1) * Block
    BY <1>1, BlockInside
  <2>2. /\ i + n <= Len(file)
        /\ \A k \in 1 .. n : file[i + k] = Piece(origin, 1, n)[k]
    BY <2>1, PieceFromFirst DEF EntryAt, Holds
  <2>3. Min({i + n, Len(file)}) = i + n
    BY <1>1, <2>2 DEF Min
  <2>4. i + n \in Nat /\ (i + n) - i = n /\ (i + n <= i => n = 0)
    OBVIOUS
  <2> DEFINE s == SubSeq(file, i + 1, i + n)
  <2>5. /\ s \in Seq(ByteType) /\ Len(s) = n
        /\ \A k \in 1 .. n : s[k] = file[i + k]
    BY <2>2, <2>4, PartType
  <2>6. s = Piece(origin, 1, n)
    <3> HIDE DEF s
    <3> DEFINE t == Piece(origin, 1, n)
    <3>1. t \in Seq(ByteType) /\ Len(t) = n
      BY PieceFromFirst
    <3>2. \A k \in 1 .. Len(s) : s[k] = t[k]
      BY <2>2, <2>5
    <3> HIDE DEF t
    <3>3. s = t
      BY <2>5, <3>1, <3>2, SameBytes
    <3> QED
      BY <3>3 DEF t
  <2> QED
    BY <2>1, <2>3, <2>6 DEF Body
<1>10. b < Len(file) \div Block /\ ~(b >= Len(file) \div Block)
  <2>1. b < Len(file) \div Block
    BY <1>1, <1>2, BlockInside
  <2>2. Len(file) \div Block \in Nat
    BY <1>1, SizesAssumption
  <2> QED
    BY <2>1, <2>2
<1> QED
  BY <1>5, <1>6, <1>7, <1>8, <1>9, <1>10 DEF From

-----------------------------------------------------------------------------
(* What is found of a message                                               *)

(* The reader finds nothing at block b.                                     *)
Ends(b) ==
  \/ b * Block + Block > Len(file)
  \/ Holds(file, b * Block, Zeros(Block))
  \/ /\ b * Block + Block <= Len(file)
     /\ file[b * Block + 1] # Zero
     /\ file[b * Block + Block] = Zero

(* The block behind an entry of n bytes at block b.                         *)
NextOf(b, n) == b + 1 + BlocksOf(n)

MessageAt == EntryAt(0, "message.mbox", "text", text)

MetadataAt(b) == EntryAt(b, "metadata.ervan", "metadata", meta)

(* Nothing, or the message, or the message and the metadata.                *)
Shape ==
  \/ Ends(0)
  \/ MessageAt /\ Ends(NextOf(0, text))
  \/ /\ MessageAt
     /\ MetadataAt(NextOf(0, text))
     /\ Ends(NextOf(NextOf(0, text), meta))

(* The block behind an entry.                                               *)
LEMMA NextOfType ==
  ASSUME NEW b \in Nat, NEW n \in Nat
  PROVE  NextOf(b, n) \in Nat
<1>1. BlocksOf(n) \in Nat
  BY BlocksOfType
<1> QED
  BY <1>1 DEF NextOf

(* Where no entry follows a reader finds none.                              *)
LEMMA FromEnds ==
  ASSUME file \in Seq(ByteType), NEW g, NEW b \in Nat, Ends(b)
  PROVE  From(FALSE, g, b) = <<>>
BY FromEnd, FromZeros, FromBegun DEF Ends

(* The sizes fit the digits.                                                *)
LEMMA SizesFit ==
  /\ \A n \in 0 .. MaxText : n \in Nat /\ n < Power8[Digits]
  /\ \A n \in 0 .. MaxMeta : n \in Nat /\ n < Power8[Digits]
<1>1. Power8[Digits] \in Nat
  BY PowersOf8, SizesAssumption
<1> QED
  BY <1>1, SizesAssumption

(* The text is read entire, and then what follows it.                       *)
LEMMA FromMessage ==
  ASSUME TypeOK, NEW skip, NEW g, MessageAt
  PROVE  From(skip, g, 0) = <<Message>> \o g[NextOf(0, text)]
<1>1. text \in Nat /\ text < Power8[Digits] /\ file \in Seq(ByteType) /\ 0 \in Nat
  BY SizesFit DEF TypeOK
<1>2. From(skip, g, 0) = <<[name |-> "message.mbox", body |-> Piece("text", 1, text)]>>
                           \o g[0 + 1 + BlocksOf(text)]
  BY <1>1, FromEntry DEF MessageAt
<1> QED
  BY <1>2 DEF Message, NextOf

(* The metadata is read entire, and then what follows it.                   *)
LEMMA FromMetadata ==
  ASSUME TypeOK, NEW skip, NEW g, NEW b \in Nat, MetadataAt(b)
  PROVE  From(skip, g, b) = <<Metadata>> \o g[NextOf(b, meta)]
<1>1. meta \in Nat /\ meta < Power8[Digits] /\ file \in Seq(ByteType)
  BY SizesFit DEF TypeOK
<1>2. From(skip, g, b) = <<[name |-> "metadata.ervan", body |-> Piece("metadata", 1, meta)]>>
                           \o g[b + 1 + BlocksOf(meta)]
  BY <1>1, FromEntry DEF MetadataAt
<1> QED
  BY <1>2 DEF Metadata, NextOf

(* Sequences of no, one and two entries.                                    *)
LEMMA OneAndTwo ==
  ASSUME NEW e, NEW f
  PROVE  /\ <<e>> \o <<>> = <<e>>
         /\ <<e>> \o (<<f>> \o <<>>) = <<e, f>>
         /\ IsPrefix(<<>>, <<e, f>>) /\ IsPrefix(<<e>>, <<e, f>>) /\ IsPrefix(<<e, f>>, <<e, f>>)
<1>1. <<e>> \o <<>> = <<e>>
  OBVIOUS
<1>2. <<f>> \o <<>> = <<f>>
  OBVIOUS
<1>3. <<e>> \o <<f>> = <<e, f>>
  <2> DEFINE S == {e, f}
  <2>1. <<e>> \in Seq(S) /\ <<f>> \in Seq(S) /\ <<e, f>> \in Seq(S)
    OBVIOUS
  <2>2. PICK s \in Seq(S), t \in Seq(S) : s = <<e>> /\ t = <<f>> /\ Len(s) = 1 /\ Len(t) = 1 /\ s[1] = e /\ t[1] = f
    BY <2>1
  <2> HIDE DEF S
  <2>3. s \o t \in Seq(S) /\ Len(s \o t) = 2 /\ (s \o t)[1] = e /\ (s \o t)[2] = f
    BY <2>2
  <2>4. PICK u \in Seq(S) : u = <<e, f>> /\ Len(u) = 2 /\ u[1] = e /\ u[2] = f
    BY <2>1
  <2>5. PICK v \in Seq(S) : v = s \o t /\ Len(v) = 2 /\ v[1] = e /\ v[2] = f
    BY <2>3
  <2>6. \A k \in 1 .. 2 : u[k] = v[k]
    <3>1. \A k \in 1 .. 2 : k = 1 \/ k = 2
      OBVIOUS
    <3> QED
      BY <2>4, <2>5, <3>1
  <2>7. u = v
    <3>1. Len(u) = Len(v) /\ \A k \in 1 .. Len(u) : u[k] = v[k]
      BY <2>4, <2>5, <2>6
    <3> QED
      BY ONLY <3>1, u \in Seq(S), v \in Seq(S)
  <2> QED
    BY <2>2, <2>4, <2>5, <2>7
<1>4. IsPrefix(<<>>, <<e, f>>)
  BY DEF IsPrefix
<1>5. IsPrefix(<<e>>, <<e, f>>)
  BY DEF IsPrefix
<1>6. IsPrefix(<<e, f>>, <<e, f>>)
  BY DEF IsPrefix
<1> QED
  BY <1>1, <1>2, <1>3, <1>4, <1>5, <1>6

(* Whatever the shape, what is found is whole.                              *)
LEMMA ShapeIsWhole ==
  ASSUME TypeOK, Shape
  PROVE  FoundIsWhole
<1>1. file \in Seq(ByteType) /\ text \in Nat /\ meta \in Nat
  BY SizesFit DEF TypeOK
<1>2. PICK g : Entries(FALSE) = g[0] /\ \A b \in Nat : g[b] = From(FALSE, g, b)
  BY <1>1, EntriesExist
<1>3. PICK b \in Nat : b = NextOf(0, text)
  BY <1>1, NextOfType
<1>4. PICK c \in Nat : c = NextOf(b, meta)
  BY <1>1, NextOfType
<1>5. g[0] = From(FALSE, g, 0) /\ g[b] = From(FALSE, g, b) /\ g[c] = From(FALSE, g, c)
  BY <1>2
<1>6. CASE Ends(0)
  <2>1. g[0] = <<>>
    BY <1>1, <1>5, <1>6, FromEnds
  <2> QED
    BY <1>2, <2>1, OneAndTwo DEF FoundIsWhole
<1>7. CASE MessageAt /\ Ends(b)
  <2>1. g[b] = <<>>
    BY <1>1, <1>5, <1>7, FromEnds
  <2>2. g[0] = <<Message>> \o g[b]
    BY <1>3, <1>5, <1>7, FromMessage
  <2> QED
    BY <1>2, <2>1, <2>2, OneAndTwo DEF FoundIsWhole
<1>8. CASE MessageAt /\ MetadataAt(b) /\ Ends(c)
  <2>1. g[c] = <<>>
    BY <1>1, <1>5, <1>8, FromEnds
  <2>2. g[b] = <<Metadata>> \o g[c]
    BY <1>4, <1>5, <1>8, FromMetadata
  <2>3. g[0] = <<Message>> \o g[b]
    BY <1>3, <1>5, <1>8, FromMessage
  <2> QED
    BY <1>2, <2>1, <2>2, <2>3, OneAndTwo DEF FoundIsWhole
<1> QED
  BY <1>3, <1>4, <1>6, <1>7, <1>8 DEF Shape

(* Quotient and remainder are what they are said to be.                     *)
LEMMA Divided ==
  ASSUME NEW m \in Nat \ {0}, NEW q \in Nat, NEW r \in Nat, r < m, NEW n \in Nat, n = m * q + r
  PROVE  n \div m = q /\ (n % m) = r
<1>1. n \div m \in Nat /\ (n % m) \in 0 .. m - 1 /\ n = m * (n \div m) + (n % m)
  OBVIOUS
<1>2. PICK a \in Nat, s \in Nat : a = n \div m /\ s = (n % m) /\ s < m /\ n = m * a + s
  BY <1>1
<1>3. a = q
  <2>1. ~(a < q)
    <3> SUFFICES ASSUME a < q
                 PROVE  FALSE
      OBVIOUS
    <3>1. PICK d \in Nat : q = a + 1 + d
      <4>1. q - (a + 1) \in Nat /\ q = a + 1 + (q - (a + 1))
        OBVIOUS
      <4> QED
        BY <4>1
    <3>2. m * q = m * a + m + m * d /\ m * d \in Nat /\ m * a \in Nat
      BY <3>1
    <3> QED
      BY <1>2, <3>2
  <2>2. ~(q < a)
    <3> SUFFICES ASSUME q < a
                 PROVE  FALSE
      OBVIOUS
    <3>1. PICK d \in Nat : a = q + 1 + d
      <4>1. a - (q + 1) \in Nat /\ a = q + 1 + (a - (q + 1))
        OBVIOUS
      <4> QED
        BY <4>1
    <3>2. m * a = m * q + m + m * d /\ m * d \in Nat /\ m * q \in Nat
      BY <3>1
    <3> QED
      BY <1>2, <3>2
  <2> QED
    BY <2>1, <2>2
<1> QED
  BY <1>2, <1>3

(* Where a body of n bytes behind the header in block b is padded to: the   *)
(* next entry or, after whole blocks, an empty block before it.             *)
LEMMA BehindBody ==
  ASSUME NEW b \in Nat, NEW n \in Nat
  PROVE  /\ (b + 1) * Block + n \in Nat
         /\ n % Block = 0 => /\ (b + 1) * Block + n = NextOf(b, n) * Block
                             /\ Padded((b + 1) * Block + n) = (NextOf(b, n) + 1) * Block
         /\ n % Block # 0 => /\ (b + 1) * Block + n < NextOf(b, n) * Block
                             /\ Padded((b + 1) * Block + n) = NextOf(b, n) * Block
<1>1. PICK m \in Nat \ {0} : m = Block
  BY SizesAssumption
<1>2. PICK q \in Nat, r \in Nat : q = n \div m /\ r = (n % m) /\ r < m /\ n = m * q + r
  <2>1. n \div m \in Nat /\ (n % m) \in 0 .. m - 1 /\ n = m * (n \div m) + (n % m)
    OBVIOUS
  <2> QED
    BY <2>1
<1>3. PICK l \in Nat : l = (b + 1) * m + n
  <2>1. (b + 1) * m \in Nat
    OBVIOUS
  <2> QED
    BY <2>1
<1>4. l = m * (b + 1 + q) + r
  <2>1. (b + 1) * m + (m * q + r) = m * (b + 1 + q) + r
    OBVIOUS
  <2>2. n = m * q + r
    BY <1>2
  <2> QED
    BY <1>3, <2>1, <2>2
<1>5. l \div m = b + 1 + q /\ (l % m) = r
  <2>1. PICK a \in Nat : a = b + 1 + q
    OBVIOUS
  <2>2. l = m * a + r /\ r < m
    BY <1>2, <1>4, <2>1
  <2>3. l \div m = a /\ (l % m) = r
    BY <2>2, Divided
  <2> QED
    BY <2>1, <2>3
<1>6. l + (m - r) = (b + 1 + q + 1) * m
  BY <1>4
<1>7. CASE r = 0
  <2>1. (n + m - 1) \div m = q
    <3>1. n + m - 1 \in Nat /\ n + m - 1 = m * q + (m - 1) /\ m - 1 \in Nat /\ m - 1 < m
      BY <1>2, <1>7
    <3> QED
      BY <3>1, Divided
  <2>2. l = (b + 1 + q) * m
    BY <1>4, <1>7
  <2> QED
    BY <1>1, <1>2, <1>3, <1>5, <1>6, <1>7, <2>1, <2>2 DEF NextOf, BlocksOf, Padded
<1>8. CASE r # 0
  <2>1. (n + m - 1) \div m = q + 1
    <3>1. n + m - 1 \in Nat /\ n + m - 1 = m * (q + 1) + (r - 1) /\ r - 1 \in Nat /\ r - 1 < m /\ q + 1 \in Nat
      BY <1>2, <1>8
    <3> QED
      BY <3>1, Divided
  <2>2. l < (b + 1 + (q + 1)) * m
    BY <1>2, <1>4
  <2>3. l + (m - r) = (b + 1 + (q + 1)) * m
    BY <1>6
  <2> QED
    BY <1>1, <1>2, <1>3, <1>5, <1>8, <2>1, <2>2, <2>3 DEF NextOf, BlocksOf, Padded
<1> QED
  BY <1>7, <1>8

-----------------------------------------------------------------------------
(* The inductive invariant                                                  *)

WithText == {"pad", "metaspace", "meta", "metaheader", "metapad", "sync"}

WithMeta == {"meta", "metaheader", "metapad", "sync"}

TextIsThere == pc \in {"trace", "header"} \cup WithText \/ (pc = "text" /\ ~errored)

(* What is where in the file, write by write: the place of a header is      *)
(* empty until it is written, and zeros close the text and the metadata.    *)
Contents ==
  /\ pc \in {"trace", "text", "header"} => Holds(file, 0, Zeros(Block))
  /\ TextIsThere => Holds(file, Block, Piece("text", 1, text))
  /\ pc \in WithText => Holds(file, 0, TarHeader("message.mbox", text))
  /\ pc \in WithText \ {"pad"} =>
       /\ dataSize = Padded(Block + text)
       /\ Holds(file, Block + text, Zeros(dataSize - (Block + text)))
  /\ pc \in {"meta", "metaheader"} => Holds(file, dataSize, Zeros(Block))
  /\ pc \in {"metapad", "sync"} => Holds(file, dataSize, TarHeader("metadata.ervan", meta))
  /\ pc \in WithMeta =>
       /\ preMeta = dataSize + Block
       /\ Holds(file, preMeta, Piece("metadata", 1, meta))
  /\ pc = "sync" =>
       Holds(file, preMeta + meta, Zeros(Padded(preMeta + meta) - (preMeta + meta)))

(* How long the file is, and where the next write goes: to its end, but for *)
(* the headers.                                                             *)
Places ==
  /\ pc = "space" => file = <<>> /\ text = 0
  /\ pc \in {"space", "trace"} => ~errored
  /\ pc \in {"space", "trace", "text", "header", "pad", "metaspace"} => meta = 0
  /\ TextIsThere /\ pc \notin WithText \ {"pad"} => Len(file) = Block + text
  /\ pc = "metaspace" => Len(file) = dataSize
  /\ pc \in WithMeta \ {"sync"} => Len(file) = preMeta + meta
  /\ pc = "sync" => Len(file) = Padded(preMeta + meta)
  /\ TextIsThere /\ pc \notin {"header", "metaheader", "sync"} => pos = Len(file)
  /\ pc = "header" => pos = 0 /\ size = text
  /\ pc = "metaheader" => pos = dataSize /\ size = meta

Ended == {"refused", "aborted", "left"}

Inv == TypeOK /\ Contents /\ Places /\ (pc \in Ended => Shape)

-----------------------------------------------------------------------------
(* What the writes leave where                                              *)

(* The file is bytes still, and long enough for the place of the next.      *)
LEMMA OverwrittenType ==
  ASSUME TypeOK, NEW bytes \in Seq(ByteType)
  PROVE  /\ Overwritten(bytes) \in Seq(ByteType)
         /\ Len(file) <= Len(Overwritten(bytes))
         /\ pos + Len(bytes) \in 0 .. Len(Overwritten(bytes))
         /\ pos = Len(file) => Len(Overwritten(bytes)) = pos + Len(bytes)
         /\ pos + Len(bytes) <= Len(file) => Len(Overwritten(bytes)) = Len(file)
<1>1. file \in Seq(ByteType) /\ pos \in 0 .. Len(file)
  BY DEF TypeOK
<1>2. Len(file) \in Nat /\ Len(bytes) \in Nat
  BY <1>1
<1> QED
  BY <1>1, <1>2, Writing

(* The bytes are where they were written.                                   *)
LEMMA Written ==
  ASSUME TypeOK, NEW bytes \in Seq(ByteType)
  PROVE  Holds(Overwritten(bytes), pos, bytes)
<1>1. file \in Seq(ByteType) /\ pos \in 0 .. Len(file)
  BY DEF TypeOK
<1>2. Len(bytes) \in Nat /\ pos + Len(bytes) <= Len(Overwritten(bytes))
  BY OverwrittenType
<1> QED
  BY <1>1, <1>2, Writing DEF Holds

(* Bytes before them and behind them are where they were.                   *)
LEMMA Kept ==
  ASSUME TypeOK, NEW bytes \in Seq(ByteType), NEW o \in Nat, NEW n \in Nat, NEW b,
         Len(b) = n, Holds(file, o, b), o + n <= pos \/ pos + Len(bytes) <= o
  PROVE  Holds(Overwritten(bytes), o, b)
<1>1. file \in Seq(ByteType) /\ pos \in 0 .. Len(file) /\ Len(file) \in Nat
  BY DEF TypeOK
<1>2. Len(bytes) \in Nat /\ Len(file) <= Len(Overwritten(bytes)) /\ Len(Overwritten(bytes)) \in Nat
  <2>1. Overwritten(bytes) \in Seq(ByteType) /\ Len(file) <= Len(Overwritten(bytes))
    BY OverwrittenType
  <2> QED
    BY <2>1
<1>3. o + n <= Len(file)
  BY DEF Holds
<1>4. ASSUME NEW k \in 1 .. n
      PROVE  Overwritten(bytes)[o + k] = b[k]
  <2>1. o + k \in 1 .. Len(file) /\ (o + k <= pos \/ o + k > pos + Len(bytes))
    BY <1>1, <1>2, <1>3
  <2>2. Overwritten(bytes)[o + k] = file[o + k]
    BY <1>1, <2>1, Writing
  <2> QED
    BY <2>2 DEF Holds
<1> QED
  BY <1>2, <1>3, <1>4 DEF Holds

(* A piece behind a piece is a longer piece.                                *)
LEMMA Longer ==
  ASSUME NEW f \in Seq(ByteType), NEW o \in Nat, NEW origin \in {"text", "metadata"},
         NEW n \in Nat, NEW m \in Nat,
         Holds(f, o, Piece(origin, 1, n)), Holds(f, o + n, Piece(origin, n + 1, m))
  PROVE  Holds(f, o, Piece(origin, 1, n + m))
<1>1. /\ Len(Piece(origin, 1, n)) = n
      /\ \A k \in 1 .. n : Piece(origin, 1, n)[k] = Byte(origin, k)
  BY PieceFromFirst
<1>2. /\ Len(Piece(origin, n + 1, m)) = m
      /\ \A k \in 1 .. m : Piece(origin, n + 1, m)[k] = Byte(origin, (n + 1) + k - 1)
  <2>1. n + 1 \in Nat /\ n + 1 >= 1
    OBVIOUS
  <2> QED
    BY <2>1, PieceType
<1>3. n + m \in Nat
  OBVIOUS
<1>4. /\ Len(Piece(origin, 1, n + m)) = n + m
      /\ \A k \in 1 .. n + m : Piece(origin, 1, n + m)[k] = Byte(origin, k)
  BY <1>3, PieceFromFirst
<1>5. ASSUME NEW k \in 1 .. n + m
      PROVE  f[o + k] = Byte(origin, k)
  <2>1. CASE k <= n
    <3>1. k \in 1 .. n
      BY <2>1
    <3> QED
      BY <1>1, <3>1 DEF Holds
  <2>2. CASE k > n
    <3>1. PICK j \in 1 .. m : k = n + j
      <4>1. k - n \in 1 .. m /\ k = n + (k - n)
        BY <2>2
      <4> QED
        BY <4>1
    <3>2. f[(o + n) + j] = Byte(origin, (n + 1) + j - 1)
      BY <1>2 DEF Holds
    <3>3. (o + n) + j = o + k /\ (n + 1) + j - 1 = k
      BY <3>1
    <3> QED
      BY <3>2, <3>3
  <2> QED
    BY <2>1, <2>2
<1>6. o + (n + m) <= Len(f)
  <2>1. (o + n) + m <= Len(f) /\ Len(f) \in Nat
    BY <1>2 DEF Holds
  <2> QED
    BY <2>1
<1> QED
  BY <1>4, <1>5, <1>6 DEF Holds

(* The first bytes of a write are bytes too.                                *)
LEMMA FirstBytes ==
  ASSUME NEW bytes \in Seq(ByteType), NEW n \in 0 .. Len(bytes) - 1
  PROVE  /\ SubSeq(bytes, 1, n) \in Seq(ByteType)
         /\ Len(SubSeq(bytes, 1, n)) = n
         /\ \A k \in 1 .. n : SubSeq(bytes, 1, n)[k] = bytes[k]
<1>1. n \in Nat /\ n <= Len(bytes) /\ Len(bytes) \in Nat
  OBVIOUS
<1> QED
  BY <1>1

(* A write at the end leaves everything where it was.                       *)
LEMMA KeptBefore ==
  ASSUME TypeOK, pos = Len(file), NEW bytes \in Seq(ByteType),
         NEW o \in Nat, NEW b \in Seq(ByteType), Holds(file, o, b)
  PROVE  Holds(Overwritten(bytes), o, b)
<1>1. PICK n \in Nat : n = Len(b)
  OBVIOUS
<1>2. o + n <= pos
  BY <1>1 DEF Holds
<1> QED
  BY <1>1, <1>2, Kept

(* What the invariant is about, for the numbers that occur in it.           *)
LEMMA Numbers ==
  ASSUME TypeOK
  PROVE  /\ Block \in Nat /\ Block >= 1 /\ text \in Nat /\ meta \in Nat /\ dataSize \in Nat /\ preMeta \in Nat
         /\ file \in Seq(ByteType) /\ Len(file) \in Nat /\ pos \in 0 .. Len(file)
         /\ Zeros(Block) \in Seq(ByteType) /\ Len(Zeros(Block)) = Block
         /\ \A n \in Nat : TarHeader("message.mbox", n) \in Seq(ByteType) /\ Len(TarHeader("message.mbox", n)) = Block
         /\ \A n \in Nat : TarHeader("metadata.ervan", n) \in Seq(ByteType) /\ Len(TarHeader("metadata.ervan", n)) = Block
<1>1. file \in Seq(ByteType) /\ Len(file) \in Nat /\ pos \in 0 .. Len(file)
  BY DEF TypeOK
<1>2. Block \in Nat /\ Block >= 1
  BY SizesAssumption
<1>3. text \in Nat /\ meta \in Nat /\ dataSize \in Nat /\ preMeta \in Nat
  BY SizesFit DEF TypeOK
<1> QED
  BY <1>1, <1>2, <1>3, ZerosType, TarHeaderType

(* Nothing is in an empty file, or in one shorter than a block.             *)
LEMMA ShortEnds ==
  ASSUME TypeOK, Len(file) < Block
  PROVE  Ends(0)
BY Numbers DEF Ends

(* The file that a session gives up is empty.                               *)
LEMMA AbortStep ==
  ASSUME Inv, Abort, errored' \in BOOLEAN
  PROVE  Inv'
<1>1. file' = <<>> /\ pos' = 0 /\ pc' = "aborted" /\ UNCHANGED <<dataSize, preMeta, size, text, meta>>
  BY DEF Abort
<1>2. file' \in Seq(ByteType) /\ Len(file') = 0
  BY <1>1
<1>3. TypeOK'
  BY <1>1, <1>2 DEF Inv, TypeOK
<1>4. 0 * Block + Block > Len(file')
  BY <1>2, SizesAssumption
<1>5. Shape'
  BY <1>4 DEF Shape, Ends
<1> QED
  BY <1>1, <1>3, <1>5 DEF Inv, Contents, Places, TextIsThere, WithText, WithMeta, Ended

(* A write that fails wrote the first of the bytes.                         *)
LEMMA FailsType ==
  ASSUME TypeOK, NEW bytes \in Seq(ByteType), Fails(bytes)
  PROVE  \E n, b :
           /\ n \in 0 .. Len(bytes) - 1
           /\ b \in Seq(ByteType) /\ Len(b) = n /\ \A k \in 1 .. n : b[k] = bytes[k]
           /\ file' = Overwritten(b) /\ pos' = pos + n
           /\ file' \in Seq(ByteType) /\ pos' \in 0 .. Len(file')
<1>1. PICK n \in 0 .. Len(bytes) - 1 : Put(SubSeq(bytes, 1, n))
  BY DEF Fails
<1>2. PICK b : /\ b \in Seq(ByteType) /\ b = SubSeq(bytes, 1, n) /\ Len(b) = n
               /\ \A k \in 1 .. n : b[k] = bytes[k]
  BY FirstBytes
<1>3. file' = Overwritten(b) /\ pos' = pos + n
  BY <1>1, <1>2 DEF Put
<1>4. file' \in Seq(ByteType) /\ pos' \in 0 .. Len(file')
  BY <1>2, <1>3, OverwrittenType
<1> QED
  BY <1>2, <1>3, <1>4

(* open_files leaves the place of the header, or too little for an entry.   *)
LEMMA WriteSpaceStep ==
  ASSUME Inv, WriteSpace
  PROVE  Inv'
<1>1. TypeOK /\ pc = "space" /\ file = <<>> /\ pos = 0 /\ text = 0 /\ meta = 0 /\ ~errored
  BY DEF Inv, Places, WriteSpace, TypeOK
<1>2. UNCHANGED <<errored, dataSize, preMeta, size, text, meta>>
  BY DEF WriteSpace
<1>3. ASSUME Put(Zeros(Block)), pc' = "trace"
      PROVE  Inv'
  <2>1. Zeros(Block) \in Seq(ByteType) /\ Len(Zeros(Block)) = Block /\ Block \in Nat /\ Len(file) = 0
    BY <1>1, Numbers
  <2>2. file' = Overwritten(Zeros(Block)) /\ pos' = pos + Len(Zeros(Block))
    BY <1>3 DEF Put
  <2>3. file' \in Seq(ByteType) /\ Len(file') = Block /\ pos' = Block
    BY <1>1, <2>1, <2>2, OverwrittenType
  <2>4. Holds(file', 0, Zeros(Block))
    BY <1>1, <2>1, <2>2, Written
  <2>5. Holds(file', Block, Piece("text", 1, 0))
    <3>1. Len(Piece("text", 1, 0)) = 0
      BY PieceFromFirst
    <3> QED
      BY <2>1, <2>3, <3>1 DEF Holds
  <2>6. TypeOK'
    BY <1>1, <1>2, <1>3, <2>1, <2>3 DEF TypeOK
  <2> QED
    BY <1>1, <1>2, <1>3, <2>1, <2>3, <2>4, <2>5, <2>6
       DEF Inv, Contents, Places, TextIsThere, WithText, WithMeta, Ended
<1>4. ASSUME Fails(Zeros(Block)), pc' = "refused"
      PROVE  Inv'
  <2>1. Zeros(Block) \in Seq(ByteType) /\ Len(Zeros(Block)) = Block /\ Block \in Nat /\ Len(file) = 0
    BY <1>1, Numbers
  <2>2. PICK n, b :
          /\ n \in 0 .. Block - 1
          /\ b \in Seq(ByteType) /\ Len(b) = n
          /\ file' = Overwritten(b) /\ pos' = pos + n
          /\ file' \in Seq(ByteType) /\ pos' \in 0 .. Len(file')
    BY <1>1, <1>4, <2>1, FailsType
  <2>3. Len(file') = n
    BY <1>1, <2>1, <2>2, OverwrittenType
  <2>4. TypeOK'
    BY <1>1, <1>2, <1>4, <2>2 DEF TypeOK
  <2>5. Shape'
    <3>1. 0 * Block + Block > Len(file')
      BY <2>1, <2>2, <2>3
    <3> QED
      BY <3>1 DEF Shape, Ends
  <2> QED
    BY <1>1, <1>2, <1>4, <2>4, <2>5
       DEF Inv, Contents, Places, TextIsThere, WithText, WithMeta, Ended
<1> QED
  BY <1>3, <1>4 DEF WriteSpace

(* A piece of text written at the end makes the text longer.                *)
LEMMA TextGrows ==
  ASSUME TypeOK, NEW n \in Nat, pos = Len(file), Len(file) = Block + text,
         Holds(file, 0, Zeros(Block)), Holds(file, Block, Piece("text", 1, text)),
         Put(Piece("text", text + 1, n))
  PROVE  /\ file' \in Seq(ByteType) /\ Len(file') = Block + (text + n) /\ pos' = Len(file')
         /\ Holds(file', 0, Zeros(Block))
         /\ Holds(file', Block, Piece("text", 1, text + n))
<1>1. PICK p : p \in Seq(ByteType) /\ p = Piece("text", text + 1, n) /\ Len(p) = n
  <2>1. text + 1 \in Nat /\ text + 1 >= 1
    BY Numbers
  <2> QED
    BY <2>1, PieceType
<1>2. file' = Overwritten(p) /\ pos' = pos + n
  BY <1>1 DEF Put
<1>3. file' \in Seq(ByteType) /\ Len(file') = pos + n
  BY <1>1, <1>2, OverwrittenType
<1>4. Holds(file', Block + text, p)
  BY <1>1, <1>2, Written
<1>5. Holds(file', 0, Zeros(Block))
  BY <1>1, <1>2, KeptBefore, Numbers
<1>6. Holds(file', Block, Piece("text", 1, text))
  BY <1>1, <1>2, KeptBefore, Numbers, PieceFromFirst
<1>7. Holds(file', Block, Piece("text", 1, text + n))
  BY <1>1, <1>3, <1>4, <1>6, Longer, Numbers
<1>8. Len(file') = Block + (text + n)
  <2>1. Block \in Nat /\ text \in Nat
    BY Numbers
  <2>2. Len(file') = (Block + text) + n
    BY <1>3
  <2> QED
    BY <2>1, <2>2
<1> QED
  BY <1>2, <1>3, <1>5, <1>7, <1>8

(* The trace header: the place of the header stays empty.                   *)
LEMMA WriteTraceStep ==
  ASSUME Inv, WriteTrace
  PROVE  Inv'
<1>1. /\ TypeOK /\ pc = "trace" /\ ~errored /\ meta = 0
      /\ pos = Len(file) /\ Len(file) = Block + text
      /\ Holds(file, 0, Zeros(Block)) /\ Holds(file, Block, Piece("text", 1, text))
  BY DEF Inv, Contents, Places, WriteTrace, TextIsThere, WithText
<1>2. PICK n \in 1 .. MaxWrite :
        /\ text + n <= MaxText /\ text' = text + n
        /\ \/ Put(Piece("text", text + 1, n)) /\ pc' \in {"trace", "text"}
           \/ Fails(Piece("text", text + 1, n)) /\ pc' = "refused"
  BY DEF WriteTrace
<1>3. UNCHANGED <<errored, dataSize, preMeta, size, meta>>
  BY DEF WriteTrace
<1>4. n \in Nat /\ text' \in 0 .. MaxText
  BY <1>1, <1>2, SizesAssumption, Numbers
<1>5. ASSUME Put(Piece("text", text + 1, n)), pc' \in {"trace", "text"}
      PROVE  Inv'
  <2>1. /\ file' \in Seq(ByteType) /\ Len(file') = Block + text' /\ pos' = Len(file')
        /\ Holds(file', 0, Zeros(Block)) /\ Holds(file', Block, Piece("text", 1, text'))
    BY <1>1, <1>2, <1>4, <1>5, TextGrows
  <2>2. Len(file') \in Nat
    BY <2>1
  <2>3. TypeOK'
    BY <1>1, <1>3, <1>4, <1>5, <2>1, <2>2 DEF TypeOK
  <2> QED
    BY <1>1, <1>3, <1>5, <2>1, <2>3
       DEF Inv, Contents, Places, TextIsThere, WithText, WithMeta, Ended
<1>6. ASSUME Fails(Piece("text", text + 1, n)), pc' = "refused"
      PROVE  Inv'
  <2>1. Piece("text", text + 1, n) \in Seq(ByteType)
    <3>1. text + 1 \in Nat /\ text + 1 >= 1
      BY <1>1, Numbers
    <3> QED
      BY <1>4, <3>1, PieceType
  <2>2. PICK m, b :
          /\ b \in Seq(ByteType) /\ file' = Overwritten(b)
          /\ file' \in Seq(ByteType) /\ pos' \in 0 .. Len(file')
    BY <1>1, <1>6, <2>1, FailsType
  <2>3. Holds(file', 0, Zeros(Block))
    BY <1>1, <2>2, KeptBefore, Numbers
  <2>4. TypeOK'
    BY <1>1, <1>3, <1>4, <1>6, <2>2 DEF TypeOK
  <2>5. Shape'
    <3>1. 0 * Block = 0
      BY SizesAssumption
    <3> QED
      BY <2>3, <3>1 DEF Shape, Ends
  <2> QED
    BY <1>3, <1>6, <2>4, <2>5
       DEF Inv, Contents, Places, TextIsThere, WithText, WithMeta, Ended
<1> QED
  BY <1>2, <1>5, <1>6

(* A line: also when its write fails, the place of the header stays empty.  *)
LEMMA WriteLineStep ==
  ASSUME Inv, WriteLine
  PROVE  Inv'
<1>1. /\ TypeOK /\ pc = "text" /\ ~errored /\ meta = 0
      /\ pos = Len(file) /\ Len(file) = Block + text
      /\ Holds(file, 0, Zeros(Block)) /\ Holds(file, Block, Piece("text", 1, text))
  BY DEF Inv, Contents, Places, WriteLine, TextIsThere, WithText
<1>2. PICK n \in 1 .. MaxWrite :
        /\ text + n <= MaxText /\ text' = text + n
        /\ \/ Put(Piece("text", text + 1, n)) /\ UNCHANGED errored
           \/ Fails(Piece("text", text + 1, n)) /\ errored' = TRUE
  BY DEF WriteLine
<1>3. UNCHANGED <<pc, dataSize, preMeta, size, meta>>
  BY DEF WriteLine
<1>4. n \in Nat /\ text' \in 0 .. MaxText
  BY <1>1, <1>2, SizesAssumption, Numbers
<1>5. ASSUME Put(Piece("text", text + 1, n)), UNCHANGED errored
      PROVE  Inv'
  <2>1. /\ file' \in Seq(ByteType) /\ Len(file') = Block + text' /\ pos' = Len(file')
        /\ Holds(file', 0, Zeros(Block)) /\ Holds(file', Block, Piece("text", 1, text'))
    BY <1>1, <1>2, <1>4, <1>5, TextGrows
  <2>2. Len(file') \in Nat
    BY <2>1
  <2>3. TypeOK'
    BY <1>1, <1>3, <1>4, <1>5, <2>1, <2>2 DEF TypeOK
  <2> QED
    BY <1>1, <1>3, <1>5, <2>1, <2>3
       DEF Inv, Contents, Places, TextIsThere, WithText, WithMeta, Ended
<1>6. ASSUME Fails(Piece("text", text + 1, n)), errored' = TRUE
      PROVE  Inv'
  <2>1. Piece("text", text + 1, n) \in Seq(ByteType)
    <3>1. text + 1 \in Nat /\ text + 1 >= 1
      BY <1>1, Numbers
    <3> QED
      BY <1>4, <3>1, PieceType
  <2>2. PICK m, b :
          /\ b \in Seq(ByteType) /\ file' = Overwritten(b)
          /\ file' \in Seq(ByteType) /\ pos' \in 0 .. Len(file')
    BY <1>1, <1>6, <2>1, FailsType
  <2>3. Holds(file', 0, Zeros(Block))
    BY <1>1, <2>2, KeptBefore, Numbers
  <2>4. TypeOK'
    BY <1>1, <1>3, <1>4, <1>6, <2>2 DEF TypeOK
  <2> QED
    BY <1>1, <1>3, <1>6, <2>3, <2>4
       DEF Inv, Contents, Places, TextIsThere, WithText, WithMeta, Ended
<1> QED
  BY <1>2, <1>5, <1>6

(* The end of the data: the size is that of the text.                       *)
LEMMA EndOfDataStep ==
  ASSUME Inv, EndOfData
  PROVE  Inv'
<1>1. TypeOK /\ pc = "text"
  BY DEF Inv, EndOfData
<1>2. CASE /\ ~errored /\ size' = TextSize(pos) /\ pos' = 0 /\ pc' = "header"
           /\ UNCHANGED <<file, errored, dataSize, preMeta, text, meta>>
  <2>1. /\ meta = 0 /\ pos = Len(file) /\ Len(file) = Block + text
        /\ Holds(file, 0, Zeros(Block)) /\ Holds(file, Block, Piece("text", 1, text))
    BY <1>1, <1>2 DEF Inv, Contents, Places, TextIsThere, WithText
  <2>2. size' = text
    BY <1>1, <1>2, <2>1, Numbers DEF TextSize
  <2>3. TypeOK'
    BY <1>1, <1>2, <2>2, Numbers DEF TypeOK
  <2> QED
    BY <1>2, <2>1, <2>2, <2>3
       DEF Inv, Contents, Places, TextIsThere, WithText, WithMeta, Ended
<1>3. CASE Abort /\ UNCHANGED errored
  <2>1. errored' \in BOOLEAN
    BY <1>1, <1>3 DEF TypeOK
  <2> QED
    BY <1>3, <2>1, AbortStep
<1> QED
  BY <1>2, <1>3 DEF EndOfData

(* The header of the text takes its place, in front of the text.            *)
LEMMA WriteHeaderStep ==
  ASSUME Inv, WriteHeader
  PROVE  Inv'
<1>1. /\ TypeOK /\ pc = "header" /\ meta = 0 /\ pos = 0 /\ size = text
      /\ Len(file) = Block + text
      /\ Holds(file, 0, Zeros(Block)) /\ Holds(file, Block, Piece("text", 1, text))
  BY DEF Inv, Contents, Places, WriteHeader, TextIsThere, WithText
<1>2. PICK hdr : hdr = TarHeader("message.mbox", text) /\ hdr \in Seq(ByteType) /\ Len(hdr) = Block
  BY <1>1, Numbers
<1>3. CASE /\ file' = Overwritten(hdr) /\ pos' = SeekEnd(hdr) /\ pc' = "pad"
           /\ UNCHANGED <<errored, dataSize, preMeta, size, text, meta>>
  <2>1. file' \in Seq(ByteType) /\ Len(file') = Len(file) /\ pos' = Len(file')
    <3>1. pos + Len(hdr) <= Len(file)
      BY <1>1, <1>2, Numbers
    <3> QED
      BY <1>1, <1>2, <1>3, <3>1, OverwrittenType DEF SeekEnd
  <2>2. Holds(file', 0, hdr)
    BY <1>1, <1>2, <1>3, Written
  <2>3. Holds(file', Block, Piece("text", 1, text))
    <3>1. pos + Len(hdr) <= Block /\ Block \in Nat /\ text \in Nat
      BY <1>1, <1>2, Numbers
    <3>2. Len(Piece("text", 1, text)) = text
      BY <3>1, PieceFromFirst
    <3> QED
      BY <1>1, <1>2, <1>3, <3>1, <3>2, Kept
  <2>4. Len(file') \in Nat
    BY <2>1
  <2>5. TypeOK'
    BY <1>1, <1>3, <2>1, <2>4 DEF TypeOK
  <2> QED
    BY <1>1, <1>2, <1>3, <2>1, <2>2, <2>3, <2>5
       DEF Inv, Contents, Places, TextIsThere, WithText, WithMeta, Ended
<1>4. CASE Abort /\ errored' = TRUE
  BY <1>4, AbortStep
<1> QED
  BY <1>1, <1>2, <1>3, <1>4 DEF WriteHeader

(* The text is closed: what follows begins a block.                         *)
LEMMA PadStep ==
  ASSUME Inv, Pad
  PROVE  Inv'
<1>1. /\ TypeOK /\ pc = "pad" /\ meta = 0 /\ pos = Len(file) /\ Len(file) = Block + text
      /\ Holds(file, 0, TarHeader("message.mbox", text)) /\ Holds(file, Block, Piece("text", 1, text))
  BY DEF Inv, Contents, Places, Pad, TextIsThere, WithText
<1>2. PICK e \in Nat : e = Block + text /\ Padded(e) \in Nat /\ Padded(e) > e
  BY <1>1, Numbers, PaddedSize
<1>3. PICK zeros : /\ zeros \in Seq(ByteType) /\ Len(zeros) = Padded(e) - e
                   /\ zeros = Padding(e) /\ zeros = Zeros(Padded(e) - e)
  <2>1. Padded(e) - e \in Nat
    BY <1>2
  <2> QED
    BY <2>1, PaddedSize, ZerosType
<1>4. CASE /\ Put(Padding(pos)) /\ dataSize' = pos' /\ pc' = "metaspace"
           /\ UNCHANGED <<errored, preMeta, size, text, meta>>
  <2>1. file' = Overwritten(zeros) /\ pos' = pos + Len(zeros)
    BY <1>1, <1>2, <1>3, <1>4 DEF Put
  <2>2. pos + Len(zeros) = Padded(e)
    BY <1>1, <1>2, <1>3
  <2>3. file' \in Seq(ByteType) /\ Len(file') = Padded(e) /\ pos' = Padded(e)
    BY <1>1, <1>3, <2>1, <2>2, OverwrittenType
  <2>4. Holds(file', Block + text, zeros)
    BY <1>1, <1>3, <2>1, Written
  <2>5. Holds(file', 0, TarHeader("message.mbox", text))
    BY <1>1, <1>3, <2>1, KeptBefore, Numbers
  <2>6. Holds(file', Block, Piece("text", 1, text))
    BY <1>1, <1>3, <2>1, KeptBefore, Numbers, PieceFromFirst
  <2>7. dataSize' = Padded(Block + text)
    BY <1>2, <1>4, <2>3
  <2>8. TypeOK'
    BY <1>1, <1>2, <1>4, <2>3 DEF TypeOK
  <2> QED
    BY <1>1, <1>2, <1>3, <1>4, <2>3, <2>4, <2>5, <2>6, <2>7, <2>8
       DEF Inv, Contents, Places, TextIsThere, WithText, WithMeta, Ended
<1>5. CASE Abort /\ errored' = TRUE
  BY <1>5, AbortStep
<1> QED
  BY <1>4, <1>5 DEF Pad

(* What is there of the text when the metadata are written.                 *)
TextClosed(f) ==
  /\ Holds(f, 0, TarHeader("message.mbox", text))
  /\ Holds(f, Block, Piece("text", 1, text))
  /\ Holds(f, Block + text, Zeros(dataSize - (Block + text)))

(* A write behind the padding leaves the text whole and padded.             *)
LEMMA TextStaysClosed ==
  ASSUME TypeOK, NEW bytes \in Seq(ByteType), TextClosed(file),
         dataSize = Padded(Block + text), pos >= dataSize
  PROVE  TextClosed(Overwritten(bytes))
<1>1. PICK e \in Nat : e = Block + text /\ dataSize > e
  BY Numbers, PaddedSize
<1>2. Holds(Overwritten(bytes), 0, TarHeader("message.mbox", text))
  <2>1. Block <= pos
    BY <1>1, Numbers
  <2> QED
    BY <2>1, Kept, Numbers DEF TextClosed
<1>3. Holds(Overwritten(bytes), Block, Piece("text", 1, text))
  <2>1. Block + text <= pos
    BY <1>1, Numbers
  <2> QED
    BY <2>1, Kept, Numbers, PieceFromFirst DEF TextClosed
<1>4. Holds(Overwritten(bytes), Block + text, Zeros(dataSize - (Block + text)))
  <2>1. PICK n \in Nat : n = dataSize - e /\ e + n <= pos
    <3>1. dataSize \in Nat /\ pos \in Nat
      BY Numbers
    <3>2. dataSize - e \in Nat /\ e + (dataSize - e) <= pos
      BY <1>1, <3>1
    <3> QED
      BY <3>2
  <2>2. Len(Zeros(n)) = n
    BY ZerosType
  <2> QED
    BY <1>1, <2>1, <2>2, Kept DEF TextClosed
<1> QED
  BY <1>2, <1>3, <1>4 DEF TextClosed

(* The place of the header of the metadata.                                 *)
LEMMA WriteMetaSpaceStep ==
  ASSUME Inv, WriteMetaSpace
  PROVE  Inv'
<1>1. /\ TypeOK /\ pc = "metaspace" /\ meta = 0 /\ pos = Len(file) /\ Len(file) = dataSize
      /\ dataSize = Padded(Block + text) /\ TextClosed(file)
  BY DEF Inv, Contents, Places, WriteMetaSpace, TextIsThere, WithText, TextClosed
<1>2. CASE /\ Put(Zeros(Block)) /\ preMeta' = pos' /\ pc' = "meta"
           /\ UNCHANGED <<errored, dataSize, size, text, meta>>
  <2>1. PICK zeros : zeros \in Seq(ByteType) /\ zeros = Zeros(Block) /\ Len(zeros) = Block
    BY <1>1, Numbers
  <2>2. file' = Overwritten(zeros) /\ pos' = pos + Block
    BY <1>2, <2>1 DEF Put
  <2>3. file' \in Seq(ByteType) /\ Len(file') = dataSize + Block /\ pos' = dataSize + Block
    BY <1>1, <2>1, <2>2, OverwrittenType
  <2>4. Holds(file', dataSize, zeros)
    BY <1>1, <2>1, <2>2, Written
  <2>5. TextClosed(file')
    BY <1>1, <2>1, <2>2, TextStaysClosed, Numbers
  <2>6. Block \in Nat /\ dataSize + Block \in Nat
    BY <1>1, Numbers
  <2>7. Holds(file', dataSize + Block, Piece("metadata", 1, 0))
    <3>1. Len(Piece("metadata", 1, 0)) = 0
      BY PieceFromFirst
    <3> QED
      BY <2>3, <2>6, <3>1 DEF Holds
  <2>8. TypeOK'
    BY <1>1, <1>2, <2>3, <2>6 DEF TypeOK
  <2>9. Len(file') = preMeta' + 0
    BY <1>2, <2>3, <2>6
  <2> QED
    BY <1>1, <1>2, <2>1, <2>3, <2>4, <2>5, <2>7, <2>8, <2>9
       DEF Inv, Contents, Places, TextIsThere, WithText, WithMeta, Ended, TextClosed
<1>3. CASE Abort /\ errored' = TRUE
  BY <1>3, AbortStep
<1> QED
  BY <1>2, <1>3 DEF WriteMetaSpace

(* A write of the metadata, the last of which goes back to their header.    *)
LEMMA WriteMetaStep ==
  ASSUME Inv, WriteMeta
  PROVE  Inv'
<1>1. /\ TypeOK /\ pc = "meta" /\ pos = Len(file) /\ Len(file) = preMeta + meta
      /\ dataSize = Padded(Block + text) /\ TextClosed(file)
      /\ preMeta = dataSize + Block /\ Holds(file, dataSize, Zeros(Block))
      /\ Holds(file, preMeta, Piece("metadata", 1, meta))
  BY DEF Inv, Contents, Places, WriteMeta, TextIsThere, WithText, WithMeta, TextClosed
<1>2. ASSUME NEW n \in 1 .. MaxWrite, meta + n <= MaxMeta, meta' = meta + n,
             file' = Overwritten(Piece("metadata", meta + 1, n)),
             \/ pos' = pos + n /\ UNCHANGED <<pc, size>>
             \/ size' = pos + n - preMeta /\ pos' = dataSize /\ pc' = "metaheader",
             UNCHANGED <<errored, dataSize, preMeta, text>>
      PROVE  Inv'
  <2>1. n \in Nat /\ meta' \in 0 .. MaxMeta
    <3>1. n \in Nat /\ MaxMeta \in Nat
      BY SizesAssumption
    <3>2. meta \in Nat
      BY <1>1, Numbers
    <3> QED
      BY <1>2, <3>1, <3>2
  <2>2. PICK p : p \in Seq(ByteType) /\ p = Piece("metadata", meta + 1, n) /\ Len(p) = n
    <3>1. meta + 1 \in Nat /\ meta + 1 >= 1
      <4>1. meta \in Nat
        BY <1>1, Numbers
      <4>2. \A k \in Nat : k + 1 \in Nat /\ k + 1 >= 1
        OBVIOUS
      <4> QED
        BY <4>1, <4>2, Zenon
    <3> QED
      BY <2>1, <3>1, PieceType
  <2>3. file' \in Seq(ByteType) /\ Len(file') = pos + n
    BY <1>1, <1>2, <2>2, OverwrittenType
  <2>4. Holds(file', preMeta + meta, p)
    BY <1>1, <1>2, <2>2, Written
  <2>5. Holds(file', preMeta, Piece("metadata", 1, meta))
    BY <1>1, <1>2, <2>2, KeptBefore, Numbers, PieceFromFirst
  <2>6. Holds(file', preMeta, Piece("metadata", 1, meta + n))
    BY <1>1, <2>1, <2>2, <2>3, <2>4, <2>5, Longer, Numbers
  <2>7. Holds(file', dataSize, Zeros(Block))
    BY <1>1, <1>2, <2>2, KeptBefore, Numbers
  <2>8. TextClosed(file')
    <3>1. pos >= dataSize
      BY <1>1, Numbers
    <3> QED
      BY <1>1, <1>2, <2>2, <3>1, TextStaysClosed
  <2>9. Len(file') = preMeta' + meta' /\ Len(file') \in Nat /\ dataSize \in 0 .. Len(file')
    <3>1. preMeta \in Nat /\ meta \in Nat /\ dataSize \in Nat /\ Block \in Nat
      BY <1>1, Numbers
    <3>2. pos = preMeta + meta /\ Len(file') = pos + n /\ preMeta = dataSize + Block
      BY <1>1, <2>3
    <3> QED
      BY <1>2, <2>1, <3>1, <3>2
  <2>10. ASSUME pos' = pos + n, UNCHANGED <<pc, size>>
         PROVE  Inv'
    <3>1. TypeOK'
      BY <1>1, <1>2, <2>1, <2>3, <2>9, <2>10 DEF TypeOK
    <3> QED
      BY <1>1, <1>2, <2>3, <2>6, <2>7, <2>8, <2>9, <2>10, <3>1
         DEF Inv, Contents, Places, TextIsThere, WithText, WithMeta, Ended, TextClosed
  <2>11. ASSUME size' = pos + n - preMeta, pos' = dataSize, pc' = "metaheader"
         PROVE  Inv'
    <3>1. size' = meta'
      <4>1. preMeta \in Nat /\ meta \in Nat
        BY <1>1, Numbers
      <4> QED
        BY <1>1, <1>2, <2>1, <2>11, <4>1
    <3>2. size' \in Int
      BY <2>1, <3>1, SizesAssumption
    <3>3. TypeOK'
      BY <1>1, <1>2, <2>1, <2>3, <2>9, <2>11, <3>2 DEF TypeOK
    <3> QED
      BY <1>1, <1>2, <2>6, <2>7, <2>8, <2>9, <2>11, <3>1, <3>3
         DEF Inv, Contents, Places, TextIsThere, WithText, WithMeta, Ended, TextClosed
  <2> QED
    BY <1>2, <2>10, <2>11
<1>3. CASE Abort /\ errored' = TRUE
  BY <1>3, AbortStep
<1> QED
  BY <1>2, <1>3 DEF WriteMeta

(* The header of the metadata takes its place, in front of the metadata.    *)
LEMMA WriteMetaHeaderStep ==
  ASSUME Inv, WriteMetaHeader
  PROVE  Inv'
<1>1. /\ TypeOK /\ pc = "metaheader" /\ pos = dataSize /\ size = meta /\ Len(file) = preMeta + meta
      /\ dataSize = Padded(Block + text) /\ TextClosed(file)
      /\ preMeta = dataSize + Block
      /\ Holds(file, preMeta, Piece("metadata", 1, meta))
  BY DEF Inv, Contents, Places, WriteMetaHeader, TextIsThere, WithText, WithMeta, TextClosed
<1>2. PICK hdr : hdr = TarHeader("metadata.ervan", meta) /\ hdr \in Seq(ByteType) /\ Len(hdr) = Block
  BY <1>1, Numbers
<1>3. CASE /\ file' = Overwritten(hdr) /\ pos' = SeekEnd(hdr) /\ pc' = "metapad"
           /\ UNCHANGED <<errored, dataSize, preMeta, size, text, meta>>
  <2>1. file' \in Seq(ByteType) /\ Len(file') = Len(file) /\ pos' = Len(file')
    <3>1. pos + Len(hdr) <= Len(file)
      <4>1. preMeta \in Nat /\ meta \in Nat
        BY <1>1, Numbers
      <4> QED
        BY <1>1, <1>2, <4>1
    <3> QED
      BY <1>1, <1>2, <1>3, <3>1, OverwrittenType DEF SeekEnd
  <2>2. Holds(file', dataSize, hdr)
    BY <1>1, <1>2, <1>3, Written
  <2>3. Holds(file', preMeta, Piece("metadata", 1, meta))
    <3>1. pos + Len(hdr) <= preMeta /\ preMeta \in Nat /\ meta \in Nat
      BY <1>1, <1>2, Numbers
    <3>2. Len(Piece("metadata", 1, meta)) = meta
      BY <3>1, PieceFromFirst
    <3> QED
      BY <1>1, <1>2, <1>3, <3>1, <3>2, Kept
  <2>4. TextClosed(file')
    BY <1>1, <1>2, <1>3, TextStaysClosed, Numbers
  <2>5. Len(file') \in Nat
    BY <2>1
  <2>6. TypeOK'
    BY <1>1, <1>3, <2>1, <2>5 DEF TypeOK
  <2> QED
    BY <1>1, <1>2, <1>3, <2>1, <2>2, <2>3, <2>4, <2>6
       DEF Inv, Contents, Places, TextIsThere, WithText, WithMeta, Ended, TextClosed
<1>4. CASE Abort /\ errored' = TRUE
  BY <1>4, AbortStep
<1> QED
  BY <1>1, <1>2, <1>3, <1>4 DEF WriteMetaHeader

(* The metadata are closed.                                                 *)
LEMMA PadMetaStep ==
  ASSUME Inv, PadMeta
  PROVE  Inv'
<1>1. /\ TypeOK /\ pc = "metapad" /\ pos = Len(file) /\ Len(file) = preMeta + meta
      /\ dataSize = Padded(Block + text) /\ TextClosed(file)
      /\ preMeta = dataSize + Block /\ Holds(file, dataSize, TarHeader("metadata.ervan", meta))
      /\ Holds(file, preMeta, Piece("metadata", 1, meta))
  BY DEF Inv, Contents, Places, PadMeta, TextIsThere, WithText, WithMeta, TextClosed
<1>2. PICK e \in Nat : e = preMeta + meta /\ Padded(e) \in Nat /\ Padded(e) > e
  BY <1>1, Numbers, PaddedSize
<1>3. PICK zeros : /\ zeros \in Seq(ByteType) /\ Len(zeros) = Padded(e) - e
                   /\ zeros = Padding(e) /\ zeros = Zeros(Padded(e) - e)
  <2>1. Padded(e) - e \in Nat
    BY <1>2
  <2> QED
    BY <2>1, PaddedSize, ZerosType
<1>4. CASE /\ Put(Padding(pos)) /\ pc' = "sync"
           /\ UNCHANGED <<errored, dataSize, preMeta, size, text, meta>>
  <2>1. file' = Overwritten(zeros) /\ pos' = pos + Len(zeros)
    BY <1>1, <1>2, <1>3, <1>4 DEF Put
  <2>2. pos + Len(zeros) = Padded(e)
    BY <1>1, <1>2, <1>3
  <2>3. file' \in Seq(ByteType) /\ Len(file') = Padded(e) /\ pos' = Padded(e)
    BY <1>1, <1>3, <2>1, <2>2, OverwrittenType
  <2>4. Holds(file', preMeta + meta, zeros)
    BY <1>1, <1>3, <2>1, Written
  <2>5. Holds(file', dataSize, TarHeader("metadata.ervan", meta))
    BY <1>1, <1>3, <2>1, KeptBefore, Numbers
  <2>6. Holds(file', preMeta, Piece("metadata", 1, meta))
    BY <1>1, <1>3, <2>1, KeptBefore, Numbers, PieceFromFirst
  <2>7. TextClosed(file')
    <3>1. pos >= dataSize
      BY <1>1, Numbers
    <3> QED
      BY <1>1, <1>3, <2>1, <3>1, TextStaysClosed
  <2>8. TypeOK'
    BY <1>1, <1>2, <1>4, <2>3 DEF TypeOK
  <2> QED
    BY <1>1, <1>2, <1>3, <1>4, <2>3, <2>4, <2>5, <2>6, <2>7, <2>8
       DEF Inv, Contents, Places, TextIsThere, WithText, WithMeta, Ended, TextClosed
<1>5. CASE Abort /\ errored' = TRUE
  BY <1>5, AbortStep
<1> QED
  BY <1>4, <1>5 DEF PadMeta

(* Where the metadata are: at the block behind the text, or behind the      *)
(* empty block that follows a text of whole blocks.                         *)
LEMMA BehindText ==
  ASSUME TypeOK, dataSize = Padded(Block + text), NEW b \in Nat, b = NextOf(0, text)
  PROVE  /\ text % Block = 0 => /\ b * Block = Block + text
                                /\ dataSize - (Block + text) = Block
                                /\ dataSize = (b + 1) * Block
         /\ text % Block # 0 => dataSize = b * Block
<1>1. PICK n \in Nat, m \in Nat : n = text /\ m = Block
  BY Numbers
<1>2. (0 + 1) * m = m /\ 0 \in Nat
  BY <1>1
<1>3. /\ n % m = 0 => m + n = b * m /\ Padded(m + n) = (b + 1) * m
      /\ n % m # 0 => Padded(m + n) = b * m
  <2>1. /\ text % Block = 0 => /\ (0 + 1) * Block + text = NextOf(0, text) * Block
                               /\ Padded((0 + 1) * Block + text) = (NextOf(0, text) + 1) * Block
        /\ text % Block # 0 => Padded((0 + 1) * Block + text) = NextOf(0, text) * Block
    <3>1. text \in Nat /\ 0 \in Nat
      BY <1>1, <1>2
    <3> QED
      BY <3>1, BehindBody, Zenon
  <2> QED
    BY <1>1, <1>2, <2>1, Zenon
<1>4. (b + 1) * m = b * m + m /\ b * m \in Nat
  OBVIOUS
<1> QED
  BY <1>1, <1>3, <1>4

(* An entry of the metadata, in the words of the invariant.                 *)
LEMMA MetadataIsAt ==
  ASSUME TypeOK, NEW b \in Nat, dataSize = b * Block, preMeta = dataSize + Block,
         Holds(file, dataSize, TarHeader("metadata.ervan", meta)),
         Holds(file, preMeta, Piece("metadata", 1, meta))
  PROVE  MetadataAt(b)
<1>1. (b + 1) * Block = preMeta
  BY BlockInside, 0 \in Nat
<1> QED
  BY <1>1 DEF MetadataAt, EntryAt

(* The text and its header, as the reader looks for them.                   *)
LEMMA MessageIsAt ==
  ASSUME TypeOK, NEW f, Holds(f, 0, TarHeader("message.mbox", text)), Holds(f, Block, Piece("text", 1, text))
  PROVE  /\ Holds(f, 0 * Block, TarHeader("message.mbox", text))
         /\ Holds(f, (0 + 1) * Block, Piece("text", 1, text))
<1>1. 0 * Block = 0 /\ (0 + 1) * Block = Block
  BY SizesAssumption
<1> QED
  BY <1>1

(* Behind a body that ends the file, and behind one that is padded, nothing *)
(* is found.                                                                *)
LEMMA NothingBehind ==
  ASSUME TypeOK, NEW b \in Nat, NEW n \in Nat, NEW e \in Nat, e = (b + 1) * Block + n,
         \/ Len(file) = e
         \/ Len(file) = Padded(e) /\ Holds(file, e, Zeros(Padded(e) - e))
  PROVE  Ends(NextOf(b, n))
<1>1. PICK c \in Nat, m \in Nat : c = NextOf(b, n) /\ m = Block /\ m >= 1
  BY NextOfType, Numbers
<1>2. PICK i \in Nat : i = c * m /\ (c + 1) * m = i + m
  <2>1. c * m \in Nat /\ (c + 1) * m = c * m + m
    OBVIOUS
  <2> QED
    BY <2>1
<1>3. /\ n % Block = 0 => e = i /\ Padded(e) = i + m
      /\ n % Block # 0 => e < i /\ Padded(e) = i
  <2>1. /\ n % Block = 0 => /\ (b + 1) * Block + n = NextOf(b, n) * Block
                            /\ Padded((b + 1) * Block + n) = (NextOf(b, n) + 1) * Block
        /\ n % Block # 0 => /\ (b + 1) * Block + n < NextOf(b, n) * Block
                            /\ Padded((b + 1) * Block + n) = NextOf(b, n) * Block
    BY BehindBody, Zenon
  <2>2. NextOf(b, n) * Block = i /\ (NextOf(b, n) + 1) * Block = i + m
    BY <1>1, <1>2, Zenon
  <2> QED
    BY <2>1, <2>2, Zenon
<1>4. CASE Len(file) = e
  <2>1. i + m > Len(file)
    BY <1>1, <1>3, <1>4
  <2> QED
    BY <1>1, <1>2, <2>1 DEF Ends
<1>5. CASE Len(file) = Padded(e) /\ Holds(file, e, Zeros(Padded(e) - e))
  <2>1. CASE n % Block = 0
    <3>1. e = i /\ Padded(e) - e = Block
      BY <1>1, <1>3, <2>1
    <3>2. Holds(file, i, Zeros(Block))
      BY <1>5, <3>1
    <3> QED
      BY <1>1, <1>2, <3>2 DEF Ends
  <2>2. CASE n % Block # 0
    <3>1. i + m > Len(file)
      BY <1>1, <1>3, <1>5, <2>2
    <3> QED
      BY <1>1, <1>2, <3>1 DEF Ends
  <2> QED
    BY <2>1, <2>2
<1> QED
  BY <1>4, <1>5

(* In every state the reader finds nothing, the message, or both.           *)
LEMMA InvShape ==
  ASSUME Inv
  PROVE  Shape
<1>1. TypeOK
  BY DEF Inv
<1>2. CASE pc = "space"
  <2>1. Len(file) < Block
    <3>1. Len(file) = 0
      BY <1>2 DEF Inv, Places
    <3> QED
      BY <1>1, <3>1, Numbers
  <2> QED
    BY <1>1, <2>1, ShortEnds DEF Shape
<1>3. CASE pc \in {"trace", "text", "header"}
  <2>1. Holds(file, 0, Zeros(Block))
    BY <1>3 DEF Inv, Contents
  <2>2. 0 * Block = 0
    BY SizesAssumption
  <2> QED
    BY <2>1, <2>2 DEF Shape, Ends
<1>4. CASE pc \in WithText
  <2>1. MessageAt
    <3>1. Holds(file, 0, TarHeader("message.mbox", text)) /\ Holds(file, Block, Piece("text", 1, text))
      BY <1>4 DEF Inv, Contents, TextIsThere
    <3> QED
      BY <1>1, <3>1, MessageIsAt DEF MessageAt, EntryAt
  <2>2. PICK b \in Nat : b = NextOf(0, text)
    BY <1>1, Numbers, NextOfType
  <2>3. CASE pc = "pad"
    <3>1. Len(file) = Block + text
      BY <2>3 DEF Inv, Places, TextIsThere, WithText
    <3>2. Block + text \in Nat /\ Block + text = (0 + 1) * Block + text /\ text \in Nat
      BY <1>1, Numbers
    <3>3. Ends(NextOf(0, text))
      BY <1>1, <3>1, <3>2, NothingBehind
    <3> QED
      BY <2>1, <3>3 DEF Shape
  <2>4. CASE pc # "pad"
    <3>1. dataSize = Padded(Block + text) /\ Holds(file, Block + text, Zeros(dataSize - (Block + text)))
      BY <1>4, <2>4 DEF Inv, Contents
    <3>2. CASE text % Block = 0
      <4>1. Holds(file, b * Block, Zeros(Block))
        BY <1>1, <2>2, <3>1, <3>2, BehindText
      <4> QED
        BY <2>1, <2>2, <4>1 DEF Shape, Ends
    <3>3. CASE text % Block # 0
      <4>1. dataSize = b * Block
        BY <1>1, <2>2, <3>1, <3>3, BehindText
      <4>2. CASE pc = "metaspace"
        <5>1. Len(file) = b * Block
          BY <4>1, <4>2 DEF Inv, Places
        <5>2. b * Block + Block > Len(file)
          BY <1>1, <5>1, Numbers
        <5> QED
          BY <2>1, <2>2, <5>2 DEF Shape, Ends
      <4>3. CASE pc \in {"meta", "metaheader"}
        <5>1. Holds(file, b * Block, Zeros(Block))
          BY <4>1, <4>3 DEF Inv, Contents
        <5> QED
          BY <2>1, <2>2, <5>1 DEF Shape, Ends
      <4>4. CASE pc \in {"metapad", "sync"}
        <5>1. /\ preMeta = dataSize + Block
              /\ Holds(file, dataSize, TarHeader("metadata.ervan", meta))
              /\ Holds(file, preMeta, Piece("metadata", 1, meta))
          BY <4>4 DEF Inv, Contents, WithMeta
        <5>2. MetadataAt(b)
          BY <1>1, <4>1, <5>1, MetadataIsAt
        <5>3. PICK e \in Nat : e = preMeta + meta /\ e = (b + 1) * Block + meta
          <6>1. (b + 1) * Block = b * Block + Block
            BY BlockInside, 0 \in Nat
          <6>2. preMeta + meta \in Nat
            BY <1>1, Numbers
          <6> QED
            BY <4>1, <5>1, <6>1, <6>2
        <5>4. \/ Len(file) = e
              \/ Len(file) = Padded(e) /\ Holds(file, e, Zeros(Padded(e) - e))
          BY <4>4, <5>3 DEF Inv, Contents, Places, WithMeta
        <5>5. Ends(NextOf(b, meta))
          BY <1>1, <5>3, <5>4, Numbers, NothingBehind
        <5> QED
          BY <2>1, <2>2, <5>2, <5>5 DEF Shape
      <4> QED
        BY <1>4, <2>4, <4>2, <4>3, <4>4 DEF WithText
    <3> QED
      BY <3>2, <3>3
  <2> QED
    BY <2>3, <2>4
<1>5. CASE pc \in Ended
  BY <1>5 DEF Inv
<1> QED
  BY <1>1, <1>2, <1>3, <1>4, <1>5 DEF TypeOK, WithText, Ended

(* No byte of a header is a byte of an empty block.                         *)
LEMMA HeaderIsNotEmpty ==
  ASSUME NEW name \in {"message.mbox", "metadata.ervan"}, NEW v \in Nat
  PROVE  \A k \in 1 .. Block : TarHeader(name, v)[k] # Zero
<1>1. ASSUME NEW k \in 1 .. Block
      PROVE  TarHeader(name, v)[k] # Zero
  <2>1. TarHeader(name, v)[k] = [of |-> name, at |-> k, told |-> Octal(v)]
    BY TarHeaderType
  <2>2. [of |-> name, at |-> k, told |-> Octal(v)].of = name /\ Zero.of = "nothing"
    BY DEF Zero, Byte
  <2> QED
    BY <2>1, <2>2
<1> QED
  BY <1>1

(* A header of which only the first bytes were written is none.             *)
LEMMA BegunEnds ==
  ASSUME TypeOK, NEW f \in Seq(ByteType), NEW hdr \in Seq(ByteType), NEW n \in 0 .. Block - 1, NEW b,
         b \in Seq(ByteType), Len(b) = n, Len(hdr) = Block,
         \A k \in 1 .. n : b[k] = hdr[k], \A k \in 1 .. Block : hdr[k] # Zero,
         Holds(file, pos, Zeros(Block)), f = Overwritten(b)
  PROVE  \/ Holds(f, pos, Zeros(Block))
         \/ /\ pos + Block <= Len(f)
            /\ f[pos + 1] # Zero
            /\ f[pos + Block] = Zero
<1>1. /\ file \in Seq(ByteType) /\ Len(file) \in Nat /\ pos \in Nat /\ pos <= Len(file)
      /\ Block \in Nat /\ Block >= 1 /\ n \in Nat /\ n < Block
  BY Numbers
<1>2. pos + Block <= Len(file) /\ \A k \in 1 .. Block : file[pos + k] = Zero
  BY <1>1, ZerosType DEF Holds
<1>3. CASE n = 0
  <2>1. pos + Len(b) <= pos
    BY <1>1, <1>3
  <2> QED
    BY <1>1, <2>1, Kept, Numbers
<1>4. CASE n # 0
  <2>1. pos + Block <= Len(f)
    <3>1. Len(file) <= Len(f) /\ Len(f) \in Nat
      BY OverwrittenType
    <3> QED
      BY <1>1, <1>2, <3>1
  <2>2. f[pos + 1] = b[1] /\ b[1] = hdr[1] /\ hdr[1] # Zero
    <3>1. 1 \in 1 .. n /\ 1 \in 1 .. Block
      BY <1>1, <1>4
    <3>2. Holds(f, pos, b)
      BY Written
    <3> QED
      BY <3>1, <3>2 DEF Holds
  <2>3. f[pos + Block] = Zero
    <3>1. pos + Block \in 1 .. Len(file) /\ pos + Block > pos + Len(b) /\ Block \in 1 .. Block
      BY <1>1, <1>2
    <3>2. f[pos + Block] = file[pos + Block]
      BY <1>1, <3>1, Writing
    <3> QED
      BY <1>2, <3>1, <3>2
  <2> QED
    BY <2>1, <2>2, <2>3
<1> QED
  BY <1>3, <1>4

(* The session or the process ends, in the midst of a header at worst.      *)
LEMMA LeaveStep ==
  ASSUME Inv, Leave
  PROVE  Inv'
<1>1. TypeOK /\ Shape /\ pc' = "left" /\ UNCHANGED <<errored, dataSize, preMeta, size, text, meta>>
  BY InvShape DEF Inv, Leave
<1> SUFFICES TypeOK' /\ Shape'
  BY <1>1 DEF Inv, Contents, Places, TextIsThere, WithText, WithMeta, Ended
<1>2. CASE UNCHANGED <<file, pos>>
  <2>1. TypeOK'
    BY <1>1, <1>2 DEF TypeOK
  <2>2. Shape'
    BY <1>1, <1>2 DEF Shape, Ends, MessageAt, MetadataAt, EntryAt
  <2> QED
    BY <2>1, <2>2
<1>3. CASE pc = "header" /\ Fails(TarHeader("message.mbox", size))
  <2>1. pos = 0 /\ size = text /\ Holds(file, 0, Zeros(Block))
    BY <1>3 DEF Inv, Contents, Places
  <2>2. PICK hdr : /\ hdr = TarHeader("message.mbox", size) /\ hdr \in Seq(ByteType) /\ Len(hdr) = Block
                   /\ \A k \in 1 .. Block : hdr[k] # Zero
    BY <1>1, <2>1, HeaderIsNotEmpty, Numbers
  <2>3. PICK n, b :
          /\ n \in 0 .. Block - 1
          /\ b \in Seq(ByteType) /\ Len(b) = n /\ \A k \in 1 .. n : b[k] = hdr[k]
          /\ file' = Overwritten(b) /\ pos' = pos + n
          /\ file' \in Seq(ByteType) /\ pos' \in 0 .. Len(file')
    BY <1>1, <1>3, <2>2, FailsType
  <2>4. TypeOK'
    BY <1>1, <2>3 DEF TypeOK
  <2>5. \/ Holds(file', pos, Zeros(Block))
        \/ pos + Block <= Len(file') /\ file'[pos + 1] # Zero /\ file'[pos + Block] = Zero
    BY <1>1, <2>1, <2>2, <2>3, BegunEnds
  <2>6. 0 * Block = 0
    BY SizesAssumption
  <2>7. Shape'
    BY <2>1, <2>5, <2>6 DEF Shape, Ends
  <2> QED
    BY <2>4, <2>7
<1>4. CASE pc = "metaheader" /\ Fails(TarHeader("metadata.ervan", size))
  <2>1. /\ pos = dataSize /\ size = meta /\ Holds(file, dataSize, Zeros(Block))
        /\ dataSize = Padded(Block + text) /\ TextClosed(file)
    BY <1>4 DEF Inv, Contents, Places, TextIsThere, WithText, TextClosed
  <2>2. PICK hdr : /\ hdr = TarHeader("metadata.ervan", size) /\ hdr \in Seq(ByteType) /\ Len(hdr) = Block
                   /\ \A k \in 1 .. Block : hdr[k] # Zero
    BY <1>1, <2>1, HeaderIsNotEmpty, Numbers
  <2>3. PICK n, b :
          /\ n \in 0 .. Block - 1
          /\ b \in Seq(ByteType) /\ Len(b) = n /\ \A k \in 1 .. n : b[k] = hdr[k]
          /\ file' = Overwritten(b) /\ pos' = pos + n
          /\ file' \in Seq(ByteType) /\ pos' \in 0 .. Len(file')
    BY <1>1, <1>4, <2>2, FailsType
  <2>4. TypeOK'
    BY <1>1, <2>3 DEF TypeOK
  <2>5. \/ Holds(file', pos, Zeros(Block))
        \/ pos + Block <= Len(file') /\ file'[pos + 1] # Zero /\ file'[pos + Block] = Zero
    BY <1>1, <2>1, <2>2, <2>3, BegunEnds
  <2>6. TextClosed(file')
    <3>1. pos >= dataSize
      BY <1>1, <2>1, Numbers
    <3> QED
      BY <1>1, <2>1, <2>3, <3>1, TextStaysClosed
  <2>7. MessageAt'
    <3>1. /\ Holds(file', 0 * Block, TarHeader("message.mbox", text))
          /\ Holds(file', (0 + 1) * Block, Piece("text", 1, text))
      BY <1>1, <2>6, MessageIsAt DEF TextClosed
    <3> QED
      BY <1>1, <3>1 DEF MessageAt, EntryAt
  <2>8. PICK b1 \in Nat : b1 = NextOf(0, text)
    BY <1>1, Numbers, NextOfType
  <2>9. CASE text % Block = 0
    <3>1. Holds(file', b1 * Block, Zeros(Block))
      BY <1>1, <2>1, <2>6, <2>8, <2>9, BehindText DEF TextClosed
    <3> QED
      BY <1>1, <2>4, <2>7, <2>8, <3>1 DEF Shape, Ends
  <2>10. CASE text % Block # 0
    <3>1. pos = b1 * Block
      BY <1>1, <2>1, <2>8, <2>10, BehindText
    <3> QED
      BY <1>1, <2>4, <2>5, <2>7, <2>8, <3>1 DEF Shape, Ends
  <2> QED
    BY <2>9, <2>10
<1> QED
  BY <1>2, <1>3, <1>4 DEF Leave

-----------------------------------------------------------------------------
(* Theorems                                                                 *)

(* Inv is inductive: it holds of the empty file and after every write.      *)
THEOREM Invariance == Spec => []Inv
<1>1. Init => Inv
  <2> SUFFICES ASSUME Init PROVE Inv
    OBVIOUS
  <2>1. file \in Seq(ByteType) /\ Len(file) = 0
    BY DEF Init
  <2>2. TypeOK
    <3>1. 0 \in 0 .. MaxText /\ 0 \in 0 .. MaxMeta
      BY SizesAssumption
    <3>2. pos \in 0 .. Len(file)
      BY <2>1 DEF Init
    <3>3. errored \in BOOLEAN
      BY DEF Init
    <3> QED
      BY <2>1, <3>1, <3>2, <3>3 DEF Init, TypeOK
  <2> QED
    BY <2>2 DEF Init, Inv, Contents, Places, TextIsThere, WithText, WithMeta, Ended
<1>2. Inv /\ [Next]_vars => Inv'
  <2> SUFFICES ASSUME Inv, [Next]_vars PROVE Inv'
    OBVIOUS
  <2>1. CASE WriteSpace
    BY <2>1, WriteSpaceStep
  <2>2. CASE WriteTrace
    BY <2>2, WriteTraceStep
  <2>3. CASE WriteLine
    BY <2>3, WriteLineStep
  <2>4. CASE EndOfData
    BY <2>4, EndOfDataStep
  <2>5. CASE WriteHeader
    BY <2>5, WriteHeaderStep
  <2>6. CASE Pad
    BY <2>6, PadStep
  <2>7. CASE WriteMetaSpace
    BY <2>7, WriteMetaSpaceStep
  <2>8. CASE WriteMeta
    BY <2>8, WriteMetaStep
  <2>9. CASE WriteMetaHeader
    BY <2>9, WriteMetaHeaderStep
  <2>10. CASE PadMeta
    BY <2>10, PadMetaStep
  <2>11. CASE Leave
    BY <2>11, LeaveStep
  <2>12. CASE UNCHANGED vars
    BY <2>12 DEF vars, Inv, TypeOK, Contents, Places, TextIsThere, Shape, Ends, MessageAt, MetadataAt, EntryAt
  <2> QED
    BY <2>1, <2>2, <2>3, <2>4, <2>5, <2>6, <2>7, <2>8, <2>9, <2>10, <2>11, <2>12 DEF Next
<1> QED
  BY <1>1, <1>2, PTL DEF Spec

(* The variables have their types.                                          *)
THEOREM Types == Spec => []TypeOK
<1>1. Inv => TypeOK
  BY DEF Inv
<1> QED
  BY <1>1, Invariance, PTL

(* A file that is left at any time claims nothing that it does not hold.    *)
THEOREM Claims == Spec => []FoundIsWhole
<1>1. Inv => FoundIsWhole
  <2>1. Inv => TypeOK
    BY DEF Inv
  <2> QED
    BY <2>1, InvShape, ShapeIsWhole
<1> QED
  BY <1>1, Invariance, PTL

(* Both entries of a complete file, where the reader skips empty blocks or  *)
(* need not.                                                                *)
LEMMA CompleteIsFound ==
  ASSUME Inv, pc = "sync", NEW skip \in BOOLEAN, skip \/ text % Block # 0
  PROVE  Entries(skip) = <<Message, Metadata>> /\ Len(file) % Block = 0
<1>1. /\ TypeOK /\ dataSize = Padded(Block + text) /\ TextClosed(file)
      /\ preMeta = dataSize + Block /\ Holds(file, dataSize, TarHeader("metadata.ervan", meta))
      /\ Holds(file, preMeta, Piece("metadata", 1, meta))
      /\ Len(file) = Padded(preMeta + meta)
      /\ Holds(file, preMeta + meta, Zeros(Padded(preMeta + meta) - (preMeta + meta)))
  BY DEF Inv, Contents, Places, TextIsThere, WithText, WithMeta, TextClosed
<1>2. /\ file \in Seq(ByteType) /\ text \in Nat /\ meta \in Nat /\ preMeta \in Nat
      /\ Block \in Nat /\ Block >= 1 /\ Len(file) \in Nat
  BY <1>1, Numbers
<1>3. PICK g : Entries(skip) = g[0] /\ \A b \in Nat : g[b] = From(skip, g, b)
  BY <1>2, EntriesExist
<1>4. MessageAt
  BY <1>1, MessageIsAt DEF MessageAt, EntryAt, TextClosed
<1>5. PICK b \in Nat : b = NextOf(0, text)
  BY <1>2, NextOfType
<1>6. g[0] = <<Message>> \o g[b]
  BY <1>1, <1>3, <1>4, <1>5, FromMessage
<1>7. PICK d \in Nat : dataSize = d * Block /\ g[b] = g[d]
  <2>1. CASE text % Block = 0
    <3>1. Holds(file, b * Block, Zeros(Block)) /\ dataSize = (b + 1) * Block
      BY <1>1, <1>5, <2>1, BehindText DEF TextClosed
    <3>2. From(skip, g, b) = g[b + 1]
      BY <1>2, <2>1, <3>1, FromZeros
    <3> QED
      BY <1>3, <3>1, <3>2
  <2>2. CASE text % Block # 0
    BY <1>1, <1>5, <2>2, BehindText
  <2> QED
    BY <2>1, <2>2
<1>8. MetadataAt(d)
  BY <1>1, <1>7, MetadataIsAt
<1>9. PICK c \in Nat : c = NextOf(d, meta)
  BY <1>2, NextOfType
<1>10. g[d] = <<Metadata>> \o g[c]
  BY <1>1, <1>3, <1>8, <1>9, FromMetadata
<1>11. PICK e \in Nat : e = preMeta + meta /\ e = (d + 1) * Block + meta
  <2>1. (d + 1) * Block = d * Block + Block
    BY BlockInside, 0 \in Nat
  <2>2. preMeta + meta \in Nat
    BY <1>2
  <2> QED
    BY <1>1, <1>7, <2>1, <2>2
<1>12. /\ meta % Block = 0 => e = c * Block /\ Padded(e) = (c + 1) * Block
       /\ meta % Block # 0 => Padded(e) = c * Block
  <2>1. /\ meta % Block = 0 => /\ (d + 1) * Block + meta = NextOf(d, meta) * Block
                              /\ Padded((d + 1) * Block + meta) = (NextOf(d, meta) + 1) * Block
        /\ meta % Block # 0 => Padded((d + 1) * Block + meta) = NextOf(d, meta) * Block
    BY <1>2, BehindBody, Zenon
  <2> QED
    BY <1>9, <1>11, <2>1, Zenon
<1>13. g[c] = <<>>
  <2>1. CASE meta % Block = 0
    <3>1. e = c * Block /\ Padded(e) = (c + 1) * Block
      BY <1>12, <2>1
    <3>2. c * Block \in Nat /\ (c + 1) * Block = c * Block + Block /\ ((c + 1) + 1) * Block = (c + 1) * Block + Block
      BY <1>2
    <3>3. Padded(e) - e = Block
      BY <1>2, <3>1, <3>2
    <3>4. Holds(file, c * Block, Zeros(Block))
      BY <1>1, <1>11, <3>1, <3>3
    <3>5. From(skip, g, c) = IF skip THEN g[c + 1] ELSE <<>>
      BY <1>2, <3>4, FromZeros
    <3>6. From(skip, g, c + 1) = <<>>
      <4>1. (c + 1) * Block + Block > Len(file) /\ c + 1 \in Nat
        BY <1>1, <1>2, <1>11, <3>1, <3>2
      <4> QED
        BY <1>2, <4>1, FromEnd
    <3>7. g[c] = From(skip, g, c) /\ g[c + 1] = From(skip, g, c + 1)
      BY <1>3
    <3> QED
      BY <3>5, <3>6, <3>7
  <2>2. CASE meta % Block # 0
    <3>1. Padded(e) = c * Block
      BY <1>12, <2>2
    <3>2. c * Block + Block > Len(file)
      BY <1>1, <1>2, <1>11, <3>1
    <3>3. From(skip, g, c) = <<>>
      BY <1>2, <3>2, FromEnd
    <3> QED
      BY <1>3, <3>3
  <2> QED
    BY <2>1, <2>2
<1>14. Entries(skip) = <<Message, Metadata>>
  BY <1>3, <1>6, <1>7, <1>10, <1>13, OneAndTwo
<1>15. Len(file) % Block = 0
  <2>1. PICK q \in Nat : Len(file) = q * Block
    <3>1. Len(file) = (e \div Block + 1) * Block
      BY <1>1, <1>11, PaddedSize
    <3>2. e \div Block + 1 \in Nat
      BY <1>2, SizesAssumption
    <3> QED
      BY <3>1, <3>2
  <2>2. PICK l \in Nat, m \in Nat \ {0} : l = Len(file) /\ m = Block /\ l = m * q + 0
    BY <1>2, <2>1
  <2>3. (l % m) = 0
    <3>1. 0 \in Nat /\ 0 < m
      OBVIOUS
    <3> QED
      BY <2>2, <3>1, Divided
  <2> QED
    BY <2>2, <2>3
<1> QED
  BY <1>14, <1>15

(* The file that is synced holds both entries whole, in whole blocks.       *)
THEOREM Completeness == Spec => []BothFound
<1>1. Inv => BothFound
  BY CompleteIsFound DEF BothFound
<1> QED
  BY <1>1, Invariance, PTL

(* And without skipping, unless the text has whole blocks.                  *)
THEOREM PlainCompleteness == Spec => []PlainlyFound
<1>1. Inv => PlainlyFound
  BY CompleteIsFound DEF PlainlyFound
<1> QED
  BY <1>1, Invariance, PTL

(* A write at the end, or over an empty block, does not touch text.         *)
LEMMA TextIsKept ==
  ASSUME TypeOK, NEW bytes, bytes \in Seq(ByteType),
         pos = Len(file) \/ (Holds(file, pos, Zeros(Block)) /\ Len(bytes) <= Block)
  PROVE  \A k \in DOMAIN file : file[k].of = "text" =>
           k \in DOMAIN Overwritten(bytes) /\ Overwritten(bytes)[k] = file[k]
<1>1. /\ file \in Seq(ByteType) /\ Len(file) \in Nat /\ pos \in Nat /\ pos <= Len(file)
      /\ Block \in Nat /\ Block >= 1
  BY Numbers
<1>2. PICK n \in Nat : n = Len(bytes)
  OBVIOUS
<1>3. PICK w : w \in Seq(ByteType) /\ w = Overwritten(bytes) /\ Len(file) <= Len(w)
  BY OverwrittenType
<1>4. Len(w) \in Nat /\ DOMAIN w = 1 .. Len(w) /\ DOMAIN file = 1 .. Len(file)
  BY <1>1, <1>3
<1>5. ASSUME NEW k \in 1 .. Len(file), file[k].of = "text"
      PROVE  k \in 1 .. Len(w) /\ w[k] = file[k]
  <2>1. k \in 1 .. Len(w)
    <3>1. k \in Nat /\ k >= 1 /\ k <= Len(file)
      BY <1>1
    <3>2. Len(file) \in Nat /\ Len(w) \in Nat /\ Len(file) <= Len(w)
      BY <1>1, <1>3, <1>4
    <3> QED
      BY <3>1, <3>2
  <2>2. k <= pos \/ k > pos + n
    <3>1. CASE pos = Len(file)
      BY <1>1, <3>1
    <3>2. CASE Holds(file, pos, Zeros(Block)) /\ n <= Block
      <4> SUFFICES ASSUME k > pos, k <= pos + n
                   PROVE  FALSE
        BY <1>1
      <4>1. PICK j \in 1 .. Block : k = pos + j
        <5>1. k - pos \in 1 .. Block /\ k = pos + (k - pos)
          BY <1>1, <3>2
        <5> QED
          BY <5>1
      <4>2. file[k] = Zero
        BY <1>1, <3>2, <4>1, ZerosType DEF Holds
      <4>3. Zero.of = "nothing"
        BY DEF Zero, Byte
      <4> QED
        BY <1>5, <4>2, <4>3
    <3> QED
      BY <1>2, <3>1, <3>2
  <2>3. w[k] = file[k]
    BY <1>1, <1>2, <1>3, <2>2, Writing
  <2> QED
    BY <2>1, <2>3
<1> QED
  BY <1>3, <1>4, <1>5

(* What is in the file of the text stays in it, at its place.               *)
TextIsLeft ==
  \A k \in DOMAIN file : file[k].of = "text" => k \in DOMAIN file' /\ file'[k] = file[k]

(* A write at the end of the file leaves the text as it is.                 *)
LEMMA PutLeaves ==
  ASSUME TypeOK, NEW bytes, bytes \in Seq(ByteType), pos = Len(file), Put(bytes)
  PROVE  TextIsLeft
BY TextIsKept DEF Put, TextIsLeft

(* So does one that fails, at the end or in the place of a header.          *)
LEMMA FailsLeaves ==
  ASSUME TypeOK, NEW bytes, bytes \in Seq(ByteType), Fails(bytes),
         pos = Len(file) \/ (Holds(file, pos, Zeros(Block)) /\ Len(bytes) <= Block)
  PROVE  TextIsLeft
<1>1. PICK n, b :
        n \in 0 .. Len(bytes) - 1 /\ b \in Seq(ByteType) /\ Len(b) = n /\ file' = Overwritten(b)
  BY FailsType
<1>2. Len(bytes) <= Block => Len(b) <= Block
  <2>1. Len(bytes) \in Nat /\ Block \in Nat
    BY Numbers
  <2> QED
    BY <1>1, <2>1
<1> QED
  BY <1>1, <1>2, TextIsKept DEF TextIsLeft

(* finish_data writes in front of the text and behind it, and a write may   *)
(* fail in part: none moves or overwrites text, unless the file is unlinked.*)
THEOREM TextIsNeverMoved == Spec => TextStays
<1>1. Inv /\ [Next]_vars => [pc' # "aborted" => TextIsLeft]_vars
  <2> SUFFICES ASSUME Inv, Next, pc' # "aborted"
               PROVE  TextIsLeft
    BY DEF TextIsLeft
  <2>1. TypeOK /\ ~Abort
    BY DEF Inv, Abort
  <2>2. CASE WriteSpace
    <3>1. pos = Len(file)
      BY <2>2 DEF Inv, Places, WriteSpace, TypeOK
    <3>2. Zeros(Block) \in Seq(ByteType)
      BY <2>1, Numbers
    <3> QED
      BY <2>1, <2>2, <3>1, <3>2, PutLeaves, FailsLeaves DEF WriteSpace
  <2>3. CASE WriteTrace \/ WriteLine
    <3>1. pos = Len(file)
      BY <2>3 DEF Inv, Places, WriteTrace, WriteLine, TextIsThere
    <3>2. \A n \in 1 .. MaxWrite : Piece("text", text + 1, n) \in Seq(ByteType)
      <4>1. text + 1 \in Nat /\ text + 1 >= 1
        BY <2>1, Numbers
      <4> QED
        BY <4>1, PieceType, SizesAssumption
    <3>3. PICK n \in 1 .. MaxWrite :
            Put(Piece("text", text + 1, n)) \/ Fails(Piece("text", text + 1, n))
      BY <2>3 DEF WriteTrace, WriteLine
    <3> QED
      BY <2>1, <3>1, <3>2, <3>3, PutLeaves, FailsLeaves
  <2>4. CASE EndOfData
    BY <2>1, <2>4 DEF EndOfData, TextIsLeft
  <2>5. CASE WriteHeader
    <3>1. pos = 0 /\ size = text /\ Holds(file, 0, Zeros(Block))
      BY <2>5 DEF Inv, Places, Contents, WriteHeader
    <3>2. file' = Overwritten(TarHeader("message.mbox", size))
      BY <2>1, <2>5 DEF WriteHeader
    <3>3. TarHeader("message.mbox", size) \in Seq(ByteType) /\ Len(TarHeader("message.mbox", size)) <= Block
      BY <2>1, <3>1, Numbers
    <3> QED
      BY <2>1, <3>1, <3>2, <3>3, TextIsKept DEF TextIsLeft
  <2>6. CASE Pad \/ PadMeta
    <3>1. pos = Len(file) /\ pos \in Nat
      BY <2>1, <2>6, Numbers DEF Inv, Places, Pad, PadMeta, TextIsThere, WithText
    <3>2. Padding(pos) \in Seq(ByteType)
      <4>1. Padded(pos) - pos \in Nat /\ Padding(pos) = Zeros(Padded(pos) - pos)
        <5>1. Padded(pos) \in Nat /\ Padded(pos) > pos /\ Padding(pos) = Zeros(Padded(pos) - pos)
          BY <3>1, PaddedSize, Zenon
        <5> QED
          BY <3>1, <5>1
      <4> QED
        BY <4>1, ZerosType
    <3> QED
      BY <2>1, <2>6, <3>1, <3>2, PutLeaves DEF Pad, PadMeta
  <2>7. CASE WriteMetaSpace
    <3>1. pos = Len(file)
      BY <2>7 DEF Inv, Places, WriteMetaSpace, TextIsThere, WithText
    <3>2. Zeros(Block) \in Seq(ByteType)
      BY <2>1, Numbers
    <3> QED
      BY <2>1, <2>7, <3>1, <3>2, PutLeaves DEF WriteMetaSpace
  <2>8. CASE WriteMeta
    <3>1. pos = Len(file)
      BY <2>8 DEF Inv, Places, WriteMeta, TextIsThere, WithText
    <3>2. PICK n \in 1 .. MaxWrite : file' = Overwritten(Piece("metadata", meta + 1, n))
      BY <2>1, <2>8 DEF WriteMeta
    <3>3. Piece("metadata", meta + 1, n) \in Seq(ByteType)
      <4>1. meta + 1 \in Nat /\ meta + 1 >= 1
        BY <2>1, Numbers
      <4> QED
        BY <4>1, PieceType, SizesAssumption
    <3> QED
      BY <2>1, <3>1, <3>2, <3>3, TextIsKept DEF TextIsLeft
  <2>9. CASE WriteMetaHeader
    <3>1. pos = dataSize /\ size = meta /\ Holds(file, dataSize, Zeros(Block))
      BY <2>9 DEF Inv, Places, Contents, WriteMetaHeader
    <3>2. file' = Overwritten(TarHeader("metadata.ervan", size))
      BY <2>1, <2>9 DEF WriteMetaHeader
    <3>3. TarHeader("metadata.ervan", size) \in Seq(ByteType) /\ Len(TarHeader("metadata.ervan", size)) <= Block
      BY <2>1, <3>1, Numbers
    <3> QED
      BY <2>1, <3>1, <3>2, <3>3, TextIsKept DEF TextIsLeft
  <2>10. CASE Leave
    <3>1. CASE UNCHANGED <<file, pos>>
      BY <3>1 DEF TextIsLeft
    <3>2. CASE pc = "header" /\ Fails(TarHeader("message.mbox", size))
      <4>1. pos = 0 /\ size = text /\ Holds(file, 0, Zeros(Block))
        BY <3>2 DEF Inv, Places, Contents
      <4>2. TarHeader("message.mbox", size) \in Seq(ByteType) /\ Len(TarHeader("message.mbox", size)) <= Block
        BY <2>1, <4>1, Numbers
      <4> QED
        BY <2>1, <3>2, <4>1, <4>2, FailsLeaves
    <3>3. CASE pc = "metaheader" /\ Fails(TarHeader("metadata.ervan", size))
      <4>1. pos = dataSize /\ size = meta /\ Holds(file, dataSize, Zeros(Block))
        BY <3>3 DEF Inv, Places, Contents
      <4>2. TarHeader("metadata.ervan", size) \in Seq(ByteType) /\ Len(TarHeader("metadata.ervan", size)) <= Block
        BY <2>1, <4>1, Numbers
      <4> QED
        BY <2>1, <3>3, <4>1, <4>2, FailsLeaves
    <3> QED
      BY <2>10, <3>1, <3>2, <3>3 DEF Leave
  <2> QED
    BY <2>2, <2>3, <2>4, <2>5, <2>6, <2>7, <2>8, <2>9, <2>10 DEF Next
<1>2. [pc' # "aborted" => TextIsLeft]_vars =>
        [pc' # "aborted" =>
           \A k \in DOMAIN file : file[k].of = "text" => k \in DOMAIN file' /\ file'[k] = file[k]]_vars
  BY DEF TextIsLeft
<1> QED
  BY <1>1, <1>2, Invariance, PTL DEF Spec, TextStays

=============================================================================
