-------------------------------- MODULE Parse --------------------------------
(***************************************************************************)
(* The parsers of common/src/parse.cpp.  A text is a sequence of characters *)
(* and a span is named by the place where it starts: a parser takes a place *)
(* and returns the place where its rest starts, or Bad.                     *)
(***************************************************************************)
EXTENDS Naturals, Sequences

CONSTANTS
  Alnum,      \* the characters that isalnum accepts
  Others,     \* the other characters of atoms, but the hyphen
  Printable,  \* those from 32 to 126
  LocalMax,   \* local_part_max_size
  DomainMax   \* domain_max_size

Quote == "\""
Backslash == "\\"
Hyphen == "-"
Comma == ","
Space == " "

ASSUME LimitsAssumption == LocalMax \in Nat /\ DomainMax \in Nat

Bad == 0

Atext == Alnum \cup Others \cup {Hyphen}
Label == Alnum \cup {Hyphen}

(* What the parsers look for is no character of a word.                     *)
Marks == {Quote, Backslash, ".", "@", Comma, ":", "<", ">", Space}

ASSUME CharsAssumption ==
  /\ Atext \cup {Quote, Backslash} \subseteq Printable
  /\ Atext \cap Marks = {} /\ "=" \notin Label

Qtext == Printable \ {Quote, Backslash}
ParamValue == Printable \ {Space, "="}

(* No character is at Bad, nor behind the text.                             *)
At(s, i, c) == i \in DOMAIN s /\ s[i] = c
Among(s, i, C) == i \in DOMAIN s /\ s[i] \in C

(* Where the characters of C that start at i end.                           *)
Run(s, i, C) ==
  CHOOSE j \in i .. Len(s) + 1 :
    /\ j > Len(s) \/ s[j] \notin C
    /\ \A k \in i .. j - 1 : s[k] \in C

Unlimited(max, i, end) == end  \* mutant: the buffers are taken to be large enough

Within(max, i, end) == IF end = Bad \/ end - i > max THEN Bad ELSE end

-----------------------------------------------------------------------------
Atom(s, i) == IF Among(s, i, Atext) THEN Run(s, i, Atext) ELSE Bad

(* After a backslash any printable character is taken; where the text ends  *)
(* there the byte behind it is looked at, which is the NUL that join wrote. *)
QuotedString(s, i) ==
  LET inside[j \in 1 .. Len(s) + 2] ==
        IF At(s, j, Quote) THEN j + 1
        ELSE IF At(s, j, Backslash) /\ Among(s, j + 1, Printable) THEN inside[j + 2]
        ELSE IF Among(s, j, Qtext) THEN inside[j + 1]
        ELSE Bad
  IN IF At(s, i, Quote) THEN inside[i + 1] ELSE Bad

(* Atoms with dots between them, or a quoted string.  What does not fit     *)
(* into the buffer of a local_part_result is malformed.                     *)
LocalPart(s, i) ==
  LET atoms[j \in 0 .. Len(s) + 1] ==
        IF At(s, Atom(s, j), ".") THEN atoms[Atom(s, j) + 1] ELSE Atom(s, j)
      quoted == QuotedString(s, i)
  IN Within(LocalMax, i, IF quoted # Bad THEN quoted ELSE atoms[i])

(* Labels with dots between them; the last one may be empty at the end of   *)
(* the text.                                                                *)
LabelEnd(s, j) == Run(s, j, Label)

Domain(s, i) ==
  LET labels[j \in 1 .. Len(s) + 1] ==
        IF LabelEnd(s, j) = j /\ j <= Len(s) THEN Bad
        ELSE IF LabelEnd(s, j) # j /\ At(s, LabelEnd(s, j), ".") THEN labels[LabelEnd(s, j) + 1]
        ELSE LabelEnd(s, j)
  IN Within(DomainMax, i, labels[i])

AtDomain(s, i) == IF At(s, i, "@") THEN Domain(s, i + 1) ELSE Bad

(* The source route, which may be missing.                                  *)
ADL(s, i) ==
  LET hops[j \in 1 .. Len(s) + 1] ==
        IF At(s, AtDomain(s, j), Comma) THEN hops[AtDomain(s, j) + 1]
        ELSE IF At(s, AtDomain(s, j), ":") THEN AtDomain(s, j) + 1
        ELSE Bad
  IN IF AtDomain(s, i) = Bad THEN i ELSE hops[i]

(* The place of the local part, that of the at sign, and the rest.          *)
NoMailbox == [local |-> Bad, at |-> Bad, rest |-> Bad]

Mailbox(s, i) ==
  LET local == ADL(s, i)
      at == LocalPart(s, local)
      rest == IF At(s, at, "@") THEN Domain(s, at + 1) ELSE Bad
  IN IF rest = Bad THEN NoMailbox ELSE [local |-> local, at |-> at, rest |-> rest]

Path(s, i) ==
  LET m == IF At(s, i, "<") THEN Mailbox(s, i + 1) ELSE NoMailbox
  IN IF At(s, m.rest, ">") THEN [m EXCEPT !.rest = @ + 1] ELSE NoMailbox

OneTooFar(s, i) ==  \* mutant: a character too many is passed over
  IF At(s, i, "<") /\ At(s, i + 1, ">") THEN [NoMailbox EXCEPT !.rest = i + 3] ELSE Path(s, i)

ReversePath(s, i) ==
  IF At(s, i, "<") /\ At(s, i + 1, ">") THEN [NoMailbox EXCEPT !.rest = i + 2] ELSE Path(s, i)

WithRoute(s, m) ==  \* mutant: the source route is kept
  IF m.local = Bad THEN <<>> ELSE SubSeq(s, 2, m.rest - 2)

(* What is kept of a path: the source route is not.                         *)
MailboxText(s, m) == IF m.local = Bad THEN <<>> ELSE SubSeq(s, m.local, m.rest - 2)

(* local_part_result::buffer: what a quoted string stands for.              *)
LocalBuffer(s, m) ==
  LET body == SubSeq(s, m.local, m.at - 1)
      copy[i \in 1 .. Len(body) + 1] ==
        IF i >= Len(body) THEN <<>>
        ELSE IF body[i] = Backslash THEN <<body[i + 1]>> \o copy[i + 2]
        ELSE <<body[i]>> \o copy[i + 1]
  IN IF body[1] = Quote THEN copy[2] ELSE body

-----------------------------------------------------------------------------
(* esmtp_param: the place of the equals sign, and the rest.                 *)
ESMTPParam(s, i) ==
  LET equals == IF Among(s, i, Alnum) THEN Run(s, i, Label) ELSE Bad
      rest == IF At(s, equals, "=") /\ Among(s, equals + 1, ParamValue)
              THEN Run(s, equals + 1, ParamValue) ELSE Bad
  IN IF rest = Bad THEN [equals |-> Bad, rest |-> Bad] ELSE [equals |-> equals, rest |-> rest]

=============================================================================
