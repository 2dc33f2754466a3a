------------------------------ MODULE Archive ------------------------------
(***************************************************************************)
(* One message file, byte by byte: a tar archive with the entries           *)
(* message.mbox and metadata.ervan.  The headers tell the sizes of what     *)
(* follows them, so finish_data leaves room, writes what follows and comes  *)
(* back (smtp/src/session/file.cpp, common/include/ervan/io.hpp,            *)
(* metadata::write_to).  MessageFile has the same writes without sizes and  *)
(* positions, but with everything that goes on around them.                 *)
(***************************************************************************)
EXTENDS Integers, Sequences, SequencesExt

CONSTANTS
  Block,     \* 512: the size of a header and the unit of padding
  Digits,    \* 11: octal digits of a size in a header
  MaxWrite,  \* bound: bytes of one write of text or metadata
  MaxText,   \* bound: bytes of text, the trace header included
  MaxMeta    \* bound: bytes of metadata

(* What the k-th octal digit from the right counts.                         *)
Power8[k \in 0 .. Digits] == IF k = 0 THEN 1 ELSE 8 * Power8[k - 1]

ASSUME SizesAssumption ==
  /\ Block \in Nat \ {0} /\ Digits \in Nat
  /\ MaxWrite \in Nat /\ MaxText \in Nat /\ MaxMeta \in Nat
  /\ MaxText < Power8[Digits] /\ MaxMeta < Power8[Digits]

VARIABLES
  file,      \* the bytes of the file
  pos,       \* where the next write goes
  pc,        \* the write that comes next, or how it ended
  errored,   \* _data_error
  dataSize,  \* data_size: where the header of the metadata belongs
  preMeta,   \* pre_metadata_size
  size,      \* the size that the next header tells
  text,      \* history: bytes of text
  meta       \* history: bytes of metadata

vars == <<file, pos, pc, errored, dataSize, preMeta, size, text, meta>>

-----------------------------------------------------------------------------
(* A byte: where it comes from, its place there, and for one of a header    *)
(* the size that the header tells.                                          *)

Unreduced(v) == [k \in 1 .. Digits |-> v \div Power8[Digits - k]]  \* mutant: no % 8
Reversed(v) == [k \in 1 .. Digits |-> (v \div Power8[k - 1]) % 8]  \* mutant: last digit first

Octal(v) == [k \in 1 .. Digits |-> (v \div Power8[Digits - k]) % 8]

Byte(origin, k) == [of |-> origin, at |-> k, told |-> <<>>]

Zero == Byte("nothing", 0)

Zeros(n) == [k \in 1 .. n |-> Zero]

(* Bytes first .. first + n - 1 of the text or of the metadata.             *)
Piece(origin, first, n) == [k \in 1 .. n |-> Byte(origin, first + k - 1)]

TarHeader(name, n) == [k \in 1 .. Block |-> [of |-> name, at |-> k, told |-> Octal(n)]]

ByteType ==
  [of : {"nothing", "text", "metadata", "message.mbox", "metadata.ervan"}, at : Nat,
   told : Seq(0 .. 7)]

TypeOK ==
  /\ file \in Seq(ByteType)
  /\ pos \in 0 .. Len(file)
  /\ pc \in {"space", "trace", "text", "header", "pad", "metaspace", "meta", "metaheader",
             "metapad", "sync", "refused", "aborted", "left"}
  /\ errored \in BOOLEAN
  /\ dataSize \in Nat /\ preMeta \in Nat /\ size \in Int
  /\ text \in 0 .. MaxText /\ meta \in 0 .. MaxMeta

Init ==
  /\ file = <<>> /\ pos = 0 /\ pc = "space" /\ errored = FALSE
  /\ dataSize = 0 /\ preMeta = 0 /\ size = 0
  /\ text = 0 /\ meta = 0

-----------------------------------------------------------------------------
(* A write replaces what is at its place and appends the rest.              *)
Overwritten(bytes) ==
  LET end == pos + Len(bytes)
  IN SubSeq(file, 1, pos) \o bytes \o SubSeq(file, end + 1, Len(file))

Put(bytes) ==
  /\ file' = Overwritten(bytes)
  /\ pos' = pos + Len(bytes)

(* abort_data: the file is unlinked and truncated.                          *)
Abort ==
  /\ file' = <<>> /\ pos' = 0 /\ pc' = "aborted"
  /\ UNCHANGED <<dataSize, preMeta, size, text, meta>>

(* A write that fails has written some of its bytes.                        *)
Fails(bytes) == \E n \in 0 .. Len(bytes) - 1 : Put(SubSeq(bytes, 1, n))

-----------------------------------------------------------------------------
(* open_files *)

WriteSpace ==
  /\ pc = "space"
  /\ \/ Put(Zeros(Block)) /\ pc' = "trace"
     \/ Fails(Zeros(Block)) /\ pc' = "refused"
  /\ UNCHANGED <<errored, dataSize, preMeta, size, text, meta>>

(* The parts of the trace header, one of them the last.                     *)
WriteTrace ==
  /\ pc = "trace"
  /\ \E n \in 1 .. MaxWrite :
       /\ text + n <= MaxText
       /\ text' = text + n
       /\ \/ Put(Piece("text", text + 1, n)) /\ pc' \in {"trace", "text"}
          \/ Fails(Piece("text", text + 1, n)) /\ pc' = "refused"
  /\ UNCHANGED <<errored, dataSize, preMeta, size, meta>>

(* feed_data: a line, unless one before it has failed.                      *)
WriteLine ==
  /\ pc = "text" /\ ~errored
  /\ \E n \in 1 .. MaxWrite :
       /\ text + n <= MaxText
       /\ text' = text + n
       /\ \/ Put(Piece("text", text + 1, n)) /\ UNCHANGED errored
          \/ Fails(Piece("text", text + 1, n)) /\ errored' = TRUE
  /\ UNCHANGED <<pc, dataSize, preMeta, size, meta>>

-----------------------------------------------------------------------------
(* finish_data: each action is a write with the tellg and seekg around it.  *)

WholeFile(n) == n  \* mutant: the header space counts as text

TextSize(n) == n - Block

EndOfData ==
  /\ pc = "text"
  /\ \/ /\ ~errored
        /\ size' = TextSize(pos)
        /\ pos' = 0
        /\ pc' = "header"
        /\ UNCHANGED <<file, errored, dataSize, preMeta, text, meta>>
     \/ Abort /\ UNCHANGED errored

Stay(bytes) == pos + Len(bytes)  \* mutant: no seekg to the end after a header

SeekEnd(bytes) == Len(Overwritten(bytes))

WriteHeader ==
  /\ pc = "header"
  /\ LET hdr == TarHeader("message.mbox", size)
     IN \/ /\ file' = Overwritten(hdr)
           /\ pos' = SeekEnd(hdr)
           /\ pc' = "pad"
           /\ UNCHANGED <<errored, dataSize, preMeta, size, text, meta>>
        \/ Abort /\ errored' = TRUE

BlockMore(n) == Zeros((2 * Block) - (n % Block))  \* mutant: a block too many

(* pad_data: a whole block where nothing is missing.                        *)
Padding(n) == Zeros(Block - (n % Block))

Pad ==
  /\ pc = "pad"
  /\ \/ /\ Put(Padding(pos))
        /\ dataSize' = pos'
        /\ pc' = "metaspace"
        /\ UNCHANGED <<errored, preMeta, size, text, meta>>
     \/ Abort /\ errored' = TRUE

WriteMetaSpace ==
  /\ pc = "metaspace"
  /\ \/ /\ Put(Zeros(Block))
        /\ preMeta' = pos'
        /\ pc' = "meta"
        /\ UNCHANGED <<errored, dataSize, size, text, meta>>
     \/ Abort /\ errored' = TRUE

(* metadata::write_to: the random lines, the envelope, one of its writes    *)
(* the last.                                                                *)
WriteMeta ==
  /\ pc = "meta"
  /\ \/ \E n \in 1 .. MaxWrite :
          /\ meta + n <= MaxMeta
          /\ meta' = meta + n
          /\ file' = Overwritten(Piece("metadata", meta + 1, n))
          /\ \/ /\ pos' = pos + n
                /\ UNCHANGED <<pc, size>>
             \/ /\ size' = pos + n - preMeta
                /\ pos' = dataSize
                /\ pc' = "metaheader"
          /\ UNCHANGED <<errored, dataSize, preMeta, text>>
     \/ Abort /\ errored' = TRUE

WriteMetaHeader ==
  /\ pc = "metaheader"
  /\ LET hdr == TarHeader("metadata.ervan", size)
     IN \/ /\ file' = Overwritten(hdr)
           /\ pos' = SeekEnd(hdr)
           /\ pc' = "metapad"
           /\ UNCHANGED <<errored, dataSize, preMeta, size, text, meta>>
        \/ Abort /\ errored' = TRUE

PadMeta ==
  /\ pc = "metapad"
  /\ \/ /\ Put(Padding(pos))
        /\ pc' = "sync"
        /\ UNCHANGED <<errored, dataSize, preMeta, size, text, meta>>
     \/ Abort /\ errored' = TRUE

(* The connection or the process ends, the latter in the midst of a write   *)
(* of a header.                                                             *)
Leave ==
  /\ pc \notin {"refused", "aborted", "left"}
  /\ pc' = "left"
  /\ \/ UNCHANGED <<file, pos>>
     \/ pc = "header" /\ Fails(TarHeader("message.mbox", size))
     \/ pc = "metaheader" /\ Fails(TarHeader("metadata.ervan", size))
  /\ UNCHANGED <<errored, dataSize, preMeta, size, text, meta>>

Next ==
  \/ WriteSpace \/ WriteTrace \/ WriteLine \/ EndOfData \/ WriteHeader \/ Pad
  \/ WriteMetaSpace \/ WriteMeta \/ WriteMetaHeader \/ PadMeta \/ Leave

Spec == Init /\ [][Next]_vars

-----------------------------------------------------------------------------
(* What a reader of tar archives finds: the entries from the first block on, *)
(* each as long as its header says.  An empty block in front of an entry is *)
(* skipped, or it is the end of the archive.                                *)

BlockAt(b) == SubSeq(file, b * Block + 1, (b + 1) * Block)

Decoded(digits) ==
  LET value[k \in 0 .. Len(digits)] == IF k = 0 THEN 0 ELSE 8 * value[k - 1] + digits[k]
  IN value[Len(digits)]

IsHeader(bytes) ==
  /\ bytes[1].of \in {"message.mbox", "metadata.ervan"}
  /\ \A k \in 1 .. Block : bytes[k] = [bytes[1] EXCEPT !.at = k]

BlocksOf(n) == (n + Block - 1) \div Block

Body(b, n) == SubSeq(file, b * Block + 1, Min({b * Block + n, Len(file)}))

(* What it finds from block b on, if it finds found behind that.            *)
From(skip, found, b) ==
  LET blocks == Len(file) \div Block
  IN CASE b >= blocks -> <<>>
       [] b < blocks /\ BlockAt(b) = Zeros(Block) -> IF skip THEN found[b + 1] ELSE <<>>
       [] b < blocks /\ IsHeader(BlockAt(b)) ->
            LET n == Decoded(BlockAt(b)[1].told)
            IN <<[name |-> BlockAt(b)[1].of, body |-> Body(b + 1, n)]>>
                 \o found[b + 1 + BlocksOf(n)]
       [] OTHER -> <<>>

Entries(skip) ==
  LET found[b \in Nat] == From(skip, found, b)
  IN found[0]

Message  == [name |-> "message.mbox", body |-> Piece("text", 1, text)]
Metadata == [name |-> "metadata.ervan", body |-> Piece("metadata", 1, meta)]

(* The file that is synced and answered 250 holds the text and the metadata *)
(* entire, under their names, in whole blocks.                              *)
BothFound ==
  pc = "sync" => Entries(TRUE) = <<Message, Metadata>> /\ Len(file) % Block = 0

(* pad_data adds an empty block after a text of whole blocks, and only      *)
(* then: any other message is found also by a reader that stops there.      *)
PlainlyFound ==
  pc = "sync" /\ text % Block # 0 => Entries(FALSE) = <<Message, Metadata>>

(* A file that is left at any time claims nothing that it does not hold: a  *)
(* header is written when what it tells of is there.                        *)
FoundIsWhole == IsPrefix(Entries(FALSE), <<Message, Metadata>>)

(* Text in the file is never moved or written over, whatever is written     *)
(* later in front of it or behind it.                                       *)
TextStays ==
  [][pc' # "aborted" =>
       \A k \in DOMAIN file : file[k].of = "text" => k \in DOMAIN file' /\ file'[k] = file[k]]_vars

=============================================================================
