------------------------------ MODULE MetaLines ------------------------------
(***************************************************************************)
(* The lines at the head of the metadata: metadata::write_to puts them into *)
(* one buffer (common/src/message.cpp), each encoded by base64_encode       *)
(* (common/src/string.cpp) and with its terminator.  A character of         *)
(* base64_alphabet is its place in it; offsets count from 0.                *)
(***************************************************************************)
EXTENDS Naturals, Sequences

CONSTANTS
  Bytes,      \* what the lines consist of
  LineLens,   \* their lengths
  LineCount,  \* how many lines there are
  CR, LF,
  Garbage     \* what the buffer holds in the beginning

Alphabet == 0 .. 64
Pad == 64

ASSUME BytesAssumption == Bytes \subseteq 0 .. 255 /\ LineLens \subseteq Nat

ASSUME CountAssumption == LineCount \in Nat

ASSUME SymbolsAssumption == {CR, LF, Garbage} \cap Alphabet = {} /\ Garbage \notin {CR, LF}

VARIABLES
  len,        \* line_len
  lines,      \* line_a and its like
  buffer,     \* as long as its accesses are within it, a function of its places
  line,       \* the line that is encoded
  srcOffset, remaining, dstOffset,
  pc

vars == <<len, lines, buffer, line, srcOffset, remaining, dstOffset, pc>>

(* line_len_64 *)
FloorLen(n) == ((n + n \div 3) \div 4) * 4  \* mutant: it is rounded down

EncodedLen(n) == ((n + n \div 3 + 3) \div 4) * 4

Pitch == EncodedLen(len) + 2

Size == EncodedLen(len) * LineCount + 2 * LineCount

TypeOK ==
  /\ len \in LineLens
  /\ lines \in [1 .. LineCount -> [1 .. len -> Bytes]]
  /\ buffer \in [0 .. Size - 1 -> Alphabet \cup {CR, LF, Garbage}]
  /\ line \in 1 .. LineCount + 1
  /\ srcOffset \in Nat /\ remaining \in Nat /\ dstOffset \in Nat
  /\ pc \in {"encode", "terminate", "written"}

Init ==
  /\ len \in LineLens
  /\ lines \in [1 .. LineCount -> [1 .. len -> Bytes]]
  /\ buffer = [k \in 0 .. Size - 1 |-> Garbage]
  /\ line = 1
  /\ srcOffset = 0 /\ remaining = len /\ dstOffset = 0
  /\ pc = IF LineCount = 0 THEN "terminate" ELSE "encode"

-----------------------------------------------------------------------------
(* base64_encode.  The masks take bits of a char whatever its sign is.      *)
Byte(i) == lines[line][srcOffset + i]

WideSecond(a, b) == (a % 8) * 16 + b \div 16  \* mutant: the mask takes a bit too many

First(a) == a \div 4
Second(a, b) == (a % 4) * 16 + b \div 16
Third(b, c) == (b % 16) * 4 + c \div 64
Fourth(c) == c % 64

Start == Pitch * (line - 1)

(* copy_n: four characters behind those of the line that are there already. *)
Four(p, q, r, s) ==
  LET place == Start + dstOffset
  IN buffer' = [k \in DOMAIN buffer \cup (place .. place + 3) |->
                  IF k \in place .. place + 3 THEN <<p, q, r, s>>[k - place + 1] ELSE buffer[k]]

Take(n) ==
  /\ srcOffset' = srcOffset + n
  /\ dstOffset' = dstOffset + 4
  /\ remaining' = remaining - n
  /\ UNCHANGED <<len, lines, line, pc>>

Three ==
  /\ pc = "encode" /\ remaining >= 3
  /\ Four(First(Byte(1)), Second(Byte(1), Byte(2)), Third(Byte(2), Byte(3)), Fourth(Byte(3)))
  /\ Take(3)

Two ==
  /\ pc = "encode" /\ remaining = 2
  /\ Four(First(Byte(1)), Second(Byte(1), Byte(2)), Third(Byte(2), 0), Pad)
  /\ Take(2)

One ==
  /\ pc = "encode" /\ remaining = 1
  /\ Four(First(Byte(1)), Second(Byte(1), 0), Pad, Pad)
  /\ Take(1)

NextLine ==
  /\ pc = "encode" /\ remaining = 0
  /\ line' = line + 1
  /\ srcOffset' = 0 /\ remaining' = len /\ dstOffset' = 0
  /\ pc' = IF line = LineCount THEN "terminate" ELSE "encode"
  /\ UNCHANGED <<len, lines, buffer>>

(* The loop over the terminators, and the write of the whole buffer.        *)
CRAt(k) == \E i \in 1 .. LineCount : k = Pitch * i - 2
LFAt(k) == \E i \in 1 .. LineCount : k = Pitch * i - 1

Terminate ==
  /\ pc = "terminate"
  /\ buffer' = [k \in DOMAIN buffer |->
                  IF CRAt(k) THEN CR ELSE IF LFAt(k) THEN LF ELSE buffer[k]]
  /\ pc' = "written"
  /\ UNCHANGED <<len, lines, line, srcOffset, remaining, dstOffset>>

Next == Three \/ Two \/ One \/ NextLine \/ Terminate

Spec == Init /\ [][Next]_vars

-----------------------------------------------------------------------------
(* Nothing is written beyond the buffer or, within it, beyond the room of   *)
(* the line, where its terminator and the next line are.                    *)
StaysInLine == line <= LineCount => dstOffset <= EncodedLen(len)

(* The room of a line is used up when the line has been encoded: nothing    *)
(* that was in memory before gets into the file.                            *)
NothingLeaks == pc = "written" => \A k \in 0 .. Size - 1 : buffer[k] # Garbage

(* The encoding of RFC 4648: six bits a character, zeros behind the last    *)
(* bit, and padding.                                                        *)
Weight == <<128, 64, 32, 16, 8, 4, 2, 1>>

Bit(text, n) ==
  IF n < 8 * Len(text) THEN (text[n \div 8 + 1] \div Weight[(n % 8) + 1]) % 2 ELSE 0

Sextet(text, j) ==
  IF 6 * j >= 8 * Len(text) THEN Pad
  ELSE 32 * Bit(text, 6 * j) + 16 * Bit(text, 6 * j + 1) + 8 * Bit(text, 6 * j + 2)
         + 4 * Bit(text, 6 * j + 3) + 2 * Bit(text, 6 * j + 4) + Bit(text, 6 * j + 5)

(* The file holds each line in that encoding, each with its terminator.     *)
LinesAreEncoded ==
  pc = "written" =>
    \A i \in 1 .. LineCount :
      LET start == Pitch * (i - 1)
      IN /\ \A j \in 0 .. EncodedLen(len) - 1 : buffer[start + j] = Sextet(lines[i], j)
         /\ buffer[start + EncodedLen(len)] = CR
         /\ buffer[start + EncodedLen(len) + 1] = LF

=============================================================================
