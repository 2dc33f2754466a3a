---------------------------- MODULE HeaderWriter ----------------------------
(***************************************************************************)
(* The trace header in front of a message: rfc5322::writer                  *)
(* (common/src/rfc5322.cpp) as session::write_trace_info uses it            *)
(* (smtp/src/session/file.cpp).  Of what is written only the lengths        *)
(* matter.                                                                  *)
(***************************************************************************)
EXTENDS Integers, Sequences, FiniteSets

CONSTANTS
  HostLens,   \* lengths of config_hostname
  Leftovers,  \* what an uninitialised int may hold
  Preferred,  \* preffered_line_length
  MaxLine     \* max_line_length

VARIABLES
  parts,       \* the parts of the body, by length and the blank before them
  line_length,
  next,        \* the part that is written next
  out,         \* what has been written
  pc

vars == <<parts, line_length, next, out, pc>>

Received == 8  \* the length of the name
By == 2        \* and that of the first part

(* The first line up to its first part: the colon and a blank between them. *)
FirstHead == Received + 1 + 1 + By

(* What is assumed of the constants.                                        *)
Sensible ==
  /\ HostLens \subseteq Nat /\ Preferred \in Nat /\ MaxLine \in Nat
  /\ Leftovers \subseteq Int
  /\ Preferred + FirstHead <= MaxLine

Part(len, space) == [len |-> len, space |-> space]

(* by, the hostname, a semicolon, and the six parts of write_time.          *)
TraceParts(host) ==
  <<Part(By, TRUE), Part(host, TRUE), Part(1, FALSE)>>
    \o <<Part(4, TRUE), Part(2, TRUE), Part(3, TRUE), Part(4, TRUE), Part(8, TRUE), Part(5, TRUE)>>

Token(kind, len) == [kind |-> kind, len |-> len]
Fold == Token("fold", 1)  \* with its terminator left out
Blank == Token("blank", 1)

TypeOK ==
  /\ parts \in Seq([len : Nat, space : BOOLEAN])
  /\ line_length \in Int
  /\ next \in 1 .. Len(parts) + 1
  /\ out \in Seq([kind : {"name", "colon", "fold", "blank", "part"}, len : Nat])
  /\ pc \in {"separate", "part"} => next <= Len(parts)
  /\ pc \in {"name", "colon", "separate", "part", "end", "done", "failed"}

(* The constructor leaves line_length alone.                                *)
Init ==
  /\ \E host \in HostLens : parts = TraceParts(host)
  /\ line_length \in Leftovers
  /\ next = 1
  /\ out = <<>>
  /\ pc = "name"

-----------------------------------------------------------------------------
Write(token) == out' = Append(out, token)

BeginHeader ==
  \/ /\ pc = "name"
     /\ line_length' = line_length + Received
     /\ Write(Token("name", Received))
     /\ pc' = "colon"
     /\ UNCHANGED <<parts, next>>
  \/ /\ pc = "colon"
     /\ Write(Token("colon", 1))
     /\ pc' = "separate"
     /\ UNCHANGED <<parts, next, line_length>>

SignedOver(sum) == sum > Preferred  \* mutant: the comparison is one of ints

(* The sum is a size_t: below zero it is larger than any limit.             *)
Over(sum) == sum < 0 \/ sum > Preferred

Folds == Over(line_length + (IF parts[next].space THEN 1 ELSE 0) + parts[next].len)

Indent == 1

AlwaysBlank == parts[next].space  \* mutant: a fold does not replace the blank

NeedsBlank == ~Folds /\ parts[next].space

Separate ==
  /\ pc = "separate"
  /\ out' = out \o (IF Folds THEN <<Fold>> ELSE <<>>) \o (IF NeedsBlank THEN <<Blank>> ELSE <<>>)
  /\ line_length' = CASE Folds      -> Indent + parts[next].len
                      [] NeedsBlank -> line_length + 1 + parts[next].len
                      [] OTHER      -> line_length + parts[next].len
  /\ pc' = "part"
  /\ UNCHANGED <<parts, next>>

LastPart == next = Len(parts)

WritePart ==
  /\ pc = "part"
  /\ Write(Token("part", parts[next].len))
  /\ next' = next + 1
  /\ pc' = IF LastPart THEN "end" ELSE "separate"
  /\ UNCHANGED <<parts, line_length>>

EndHeader ==
  /\ pc = "end"
  /\ pc' = "done"
  /\ UNCHANGED <<parts, line_length, next, out>>

(* Each of the writes may fail, which ends the header.                      *)
Fail ==
  /\ pc \notin {"done", "failed"}
  /\ pc' = "failed"
  /\ UNCHANGED <<parts, line_length, next, out>>

Next == BeginHeader \/ Separate \/ WritePart \/ EndHeader \/ Fail

Spec == Init /\ [][Next]_vars

-----------------------------------------------------------------------------
FoldsAt == {i \in DOMAIN out : out[i] = Fold}
Written == {i \in DOMAIN out : out[i].kind = "part"}

(* How long the tokens are up to each of them.                              *)
Sums(tokens) ==
  LET sum[i \in 0 .. Len(tokens)] == IF i = 0 THEN 0 ELSE sum[i - 1] + tokens[i].len
  IN sum

(* The places s to i are a line, or the beginning of one; a fold belongs to *)
(* the line that it starts.                                                 *)
IsLine(s, i) ==
  /\ s \in {1} \cup FoldsAt /\ s <= i
  /\ \A f \in FoldsAt : ~(s < f /\ f <= i)

Length(s, i) == Sums(out)[i] - Sums(out)[s - 1]

Gap(token) == token.kind \in {"blank", "fold"}

(* The part that is written at a place: as many are written up to there.    *)
PartAt(i) == parts[Cardinality({j \in Written : j <= i})]

(* The header unfolds to its parts: they are written in order, each behind  *)
(* one blank or one fold if it is to be apart from the one before, and      *)
(* otherwise behind nothing or a fold.                                      *)
UnfoldsToParts ==
  /\ \A i \in Written :
       /\ out[i].len = PartAt(i).len
       /\ PartAt(i).space => Gap(out[i - 1]) /\ ~Gap(out[i - 2])
       /\ ~PartAt(i).space /\ Gap(out[i - 1]) => out[i - 1] = Fold
  /\ pc = "done" => Cardinality(Written) = Len(parts)

(* A line behind the first fold is longer than it should be only if it has  *)
(* no more than one part.  The first line, whose counter was whatever the   *)
(* memory held, is longer by no more than its head, and so within the       *)
(* length that a line of a message may have (Sensible).                     *)
LinesFit ==
  \A i \in DOMAIN out : \A s \in 1 .. i :
    IsLine(s, i) =>
      IF s = 1
        THEN Length(s, i) <= Preferred + FirstHead
        ELSE Length(s, i) > Preferred =>
               \A j, k \in Written \cap s .. i : j = k

=============================================================================
