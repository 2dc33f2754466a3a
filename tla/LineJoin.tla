------------------------------ MODULE LineJoin ------------------------------
(***************************************************************************)
(* How the receiver cuts the byte stream of a connection into lines: join   *)
(* (common/src/string.cpp), called until what recv returned is used up.     *)
(* The buffer, the number of bytes of the unfinished line and the last two  *)
(* bytes seen outlive the call, so a line may arrive in any number of       *)
(* pieces.  Dialogue has two such readers.                                  *)
(***************************************************************************)
EXTENDS Naturals, Sequences, FiniteSets, SequencesExt

CONSTANTS
  Bytes,     \* bytes a client sends
  CR, LF,    \* the terminator
  NUL,       \* what join puts after a line
  Capacity,  \* target.len: the buffer without room for the terminator
  TooLong    \* std::errc::result_out_of_range

(* What is assumed of them.                                                 *)
Sensible ==
  /\ {CR, LF} \subseteq Bytes /\ CR # LF /\ NUL \notin {CR, LF}
  /\ Capacity \in Nat \ {0}

VARIABLES
  src,     \* what is left of the bytes of the last recv
  target,  \* the buffer
  tail,    \* t_check: the two bytes behind it, the last ones seen
  offset,  \* tgt_offset: bytes seen of the unfinished line
  lines,   \* history: the lines handed on, or TooLong
  first    \* history: the second byte of the tail before anything arrived

Pairs == [1 .. 2 -> Bytes \cup {NUL}]

TypeOK ==
  /\ src \in Seq(Bytes)
  /\ target \in [1 .. Capacity -> Bytes \cup {NUL}]
  /\ tail \in Pairs
  /\ offset \in Nat
  /\ lines \in Seq(Seq(Bytes \cup {NUL}) \cup {TooLong})
  /\ first \in Bytes \cup {NUL}

-----------------------------------------------------------------------------
(* The buffer is a member of the session that nothing initialises: only     *)
(* what its last byte may be matters.                                       *)
Init ==
  /\ src = <<>>
  /\ target = [k \in 1 .. Capacity |-> NUL]
  /\ tail \in Pairs
  /\ offset = 0
  /\ lines = <<>>
  /\ first = tail[2]

Overrun ==  \* mutant: the copy is not limited to the buffer
  [k \in 1 .. Max({Capacity, offset + Len(src)}) |->
     IF k > offset /\ k <= offset + Len(src) THEN src[k - offset] ELSE target[k]]

(* The memcpy: all of src that fits behind what is there.                   *)
Copied ==
  [k \in 1 .. Capacity |->
     IF k > offset /\ k <= offset + Len(src) THEN src[k - offset] ELSE target[k]]

(* What t_check holds after push_back of the i-th byte.                     *)
FreshTail(i) ==  \* mutant: nothing is kept between calls
  SubSeq(<<NUL, NUL>> \o src, i + 1, i + 2)

Tail2(i) == SubSeq(tail \o src, i + 1, i + 2)

Ends == {i \in DOMAIN src : Tail2(i) = <<CR, LF>>}

(* No terminator: the line goes on with the next chunk.                     *)
JoinMore ==
  /\ src # <<>>
  /\ Ends = {}
  /\ target' = Copied
  /\ tail' = Tail2(Len(src))
  /\ offset' = offset + Len(src)
  /\ src' = <<>>
  /\ UNCHANGED <<lines, first>>

(* The length of a line that ends at the i-th byte: size_t arithmetic, so   *)
(* one that would be -1 is larger than any buffer.                          *)
ShortFits(i) == offset + i >= 2 /\ offset + i - 2 < Capacity  \* mutant: one less fits

Fits(i) == offset + i >= 2 /\ offset + i - 2 <= Capacity

(* The terminator: the line is handed on with a NUL behind it, which a line *)
(* that fills the buffer puts into t_check.                                 *)
JoinLine ==
  /\ src # <<>>
  /\ \E i \in Ends :
       /\ \A j \in Ends : i <= j
       /\ src' = SubSeq(src, i + 1, Len(src))
       /\ LET len == offset + i - 2
          IN IF Fits(i)
             THEN /\ lines' = Append(lines, SubSeq(Copied, 1, len))
                  /\ target' = IF len < Capacity THEN [Copied EXCEPT ![len + 1] = NUL] ELSE Copied
                  /\ tail' = IF len < Capacity THEN <<CR, LF>> ELSE <<NUL, LF>>
             ELSE /\ lines' = Append(lines, TooLong)
                  /\ target' = Copied
                  /\ tail' = <<CR, LF>>
  /\ offset' = 0
  /\ UNCHANGED first

=============================================================================
